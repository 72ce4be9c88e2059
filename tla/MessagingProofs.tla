-------------------------- MODULE MessagingProofs --------------------------
(***************************************************************************)
(* Proofs about soul/mq: AmqpConsuming, the dispatch thread of the         *)
(* in-memory backend, for any number of messages; AmqpBroker, its records, *)
(* for any exchanges, queues, keys, bindings and prefetch limits;          *)
(* TopicMatch, for keys and patterns of any length; and the channel of     *)
(* RabbitMQ, for any queues, topics, tags and nested operations.           *)
(***************************************************************************)
EXTENDS MCMessaging, Lists, TLAPS, FiniteSetTheorems

(* The queues are empty from the test of the wait's predicate, made under  *)
(* m_mutex, to the end of the wait.                                        *)
AsleepInv == \A d \in Dispatchers : dpc[d] \in {"blocking", "waiting"} => work = 0

(* The constructor starts with no thread and no message.                   *)
LEMMA ConsumingStarts == ConsumingInit => ConsumingTypeOK /\ AsleepInv
<1> SUFFICES ASSUME ConsumingInit PROVE ConsumingTypeOK /\ AsleepInv
  OBVIOUS
<1>1. work \in 0..MaxWork
  BY MaxWorkAssumption DEF ConsumingInit
<1>2. attached \in BOOLEAN /\ consuming \in BOOLEAN /\ terminated \in BOOLEAN
  BY Zenon DEF ConsumingInit
<1>3. /\ handle \in Dispatchers \cup {None} /\ closing \in SUBSET Callers
      /\ joins \in [Callers -> Dispatchers \cup {None}]
  BY DEF ConsumingInit
<1>4. AsleepInv
  BY DEF ConsumingInit, AsleepInv
<1> QED
  BY <1>1, <1>2, <1>3, <1>4 DEF ConsumingInit, ConsumingTypeOK

(* The members have their types throughout.                                *)
LEMMA ConsumingTypeStep ==
    ASSUME ConsumingTypeOK, [ConsumingNext]_consumingVars
    PROVE  ConsumingTypeOK'
<1> USE MaxWorkAssumption DEF ConsumingTypeOK, memberVars, callerVars
<1>1. CASE ConsumingConnect
  BY <1>1 DEF ConsumingConnect
<1>2. CASE PublishWork
  BY <1>2 DEF PublishWork, NotifyAll
<1>3. ASSUME NEW c \in Callers,
             Start(c) \/ Stop(c) \/ ConsumingDisconnect(c) \/ CallerStep(c)
      PROVE  ConsumingTypeOK'
  <2>1. CASE Start(c)
    BY <2>1 DEF Start
  <2>2. CASE Stop(c)
    BY <2>2 DEF Stop
  <2>3. CASE ConsumingDisconnect(c)
    BY <2>3 DEF ConsumingDisconnect
  <2>4. CASE StartThread(c)
    BY <2>4 DEF StartThread, Free
  <2>5. CASE StopNotify(c)
    BY <2>5 DEF StopNotify, NotifyAll
  <2>6. CASE TakeThread(c)
    BY <2>6 DEF TakeThread
  <2>7. CASE Join(c)
    BY <2>7 DEF Join
  <2>8. CASE Clear(c)
    BY <2>8 DEF Clear
  <2> QED
    BY <1>3, <2>1, <2>2, <2>3, <2>4, <2>5, <2>6, <2>7, <2>8 DEF CallerStep
<1>4. ASSUME NEW d \in Dispatchers, LoopStep(d) \/ SpuriousWakeup(d)
      PROVE  ConsumingTypeOK'
  BY <1>4 DEF LoopStep, SpuriousWakeup, LoopHead, LeaveLoop, StartWait, Block, DeliverWork,
              LoopScanEnd, NapOver, Goto
<1>5. CASE UNCHANGED consumingVars
  BY <1>5 DEF consumingVars
<1> QED
  BY <1>1, <1>2, <1>3, <1>4, <1>5 DEF ConsumingNext

(* publish() cannot come between the test and the wait, and wakes the      *)
(* thread when it comes later.                                             *)
LEMMA AsleepStep ==
    ASSUME ConsumingTypeOK, AsleepInv, [ConsumingNext]_consumingVars
    PROVE  AsleepInv'
<1> USE MaxWorkAssumption DEF ConsumingTypeOK, AsleepInv, memberVars, callerVars
<1>1. CASE ConsumingConnect
  BY <1>1 DEF ConsumingConnect
<1>2. CASE PublishWork
  BY <1>2 DEF PublishWork, NotifyAll, MutexFree
<1>3. ASSUME NEW c \in Callers,
             Start(c) \/ Stop(c) \/ ConsumingDisconnect(c) \/ CallerStep(c)
      PROVE  AsleepInv'
  <2>1. CASE Start(c)
    BY <2>1 DEF Start
  <2>2. CASE Stop(c)
    BY <2>2 DEF Stop
  <2>3. CASE ConsumingDisconnect(c)
    BY <2>3 DEF ConsumingDisconnect
  <2>4. CASE StartThread(c)
    BY <2>4 DEF StartThread, Free
  <2>5. CASE StopNotify(c)
    BY <2>5 DEF StopNotify, NotifyAll
  <2>6. CASE TakeThread(c)
    BY <2>6 DEF TakeThread
  <2>7. CASE Join(c)
    BY <2>7 DEF Join
  <2>8. CASE Clear(c)
    BY <2>8 DEF Clear
  <2> QED
    BY <1>3, <2>1, <2>2, <2>3, <2>4, <2>5, <2>6, <2>7, <2>8 DEF CallerStep
<1>4. ASSUME NEW d \in Dispatchers, LoopStep(d) \/ SpuriousWakeup(d)
      PROVE  AsleepInv'
  <2>1. CASE DeliverWork(d)
    BY <2>1 DEF DeliverWork, Goto
  <2> QED
    BY <1>4, <2>1 DEF LoopStep, SpuriousWakeup, LoopHead, LeaveLoop, StartWait, Block,
                      LoopScanEnd, NapOver, Goto
<1>5. CASE UNCHANGED consumingVars
  BY <1>5 DEF consumingVars
<1> QED
  BY <1>1, <1>2, <1>3, <1>4, <1>5 DEF ConsumingNext

-----------------------------------------------------------------------------
Runs(d) == d \in Dispatchers /\ dpc[d] \notin {"unborn", "ended"}

(* Who owns the threads, and what m_consuming says of them; without a      *)
(* start and a stop that overlapped, m_dispatchThread is empty whenever a  *)
(* start is under way or consuming is off and no stop is about to take it. *)
OwnInv ==
    /\ \A c \in Callers : joins[c] # None => cpc[c] = "joining"
    /\ ~terminated => \A d \in Dispatchers : Runs(d) => d = handle \/ \E c \in Callers : joins[c] = d
    /\ ~terminated /\ consuming =>
          \/ \E c \in Callers : cpc[c] = "starting"
          \/ Runs(handle)
          \/ \E c \in Callers : cpc[c] = "joining" /\ Runs(joins[c])
ApartInv ==
    ~crossed =>
      /\ ~terminated
      /\ \A c \in Callers : cpc[c] = "starting" =>
            /\ consuming /\ handle = None
            /\ \A o \in Callers : /\ cpc[o] = "starting" => o = c
                                 /\ cpc[o] \notin {"stored", "notified", "joining"}
      /\ ~consuming => handle = None \/ \E c \in Callers : cpc[c] \in {"stored", "notified"}

LEMMA OwnInit == ConsumingInit => OwnInv /\ ApartInv
  BY DEF ConsumingInit, OwnInv, ApartInv, Runs

LEMMA LoopMoves ==
    ASSUME NEW d \in Dispatchers, LoopStep(d) \/ SpuriousWakeup(d), ConsumingTypeOK
    PROVE  /\ UNCHANGED <<consuming, handle, cpc, joins, crossed, terminated>>
           /\ \A x \in Dispatchers : x # d => dpc'[x] = dpc[x]
           /\ dpc[d] \notin {"unborn", "ended"} /\ dpc'[d] # "unborn"
           /\ dpc'[d] = "ended" => ~consuming
  BY DEF LoopStep, SpuriousWakeup, LoopHead, LeaveLoop, StartWait, Block, DeliverWork,
         LoopScanEnd, NapOver, Goto, memberVars, callerVars, ConsumingTypeOK

(* No thread is forgotten.                                                 *)
LEMMA OwnStep ==
    ASSUME ConsumingTypeOK, OwnInv, ApartInv, [ConsumingNext]_consumingVars
    PROVE  OwnInv'
<1> USE NoneAssumption DEF ConsumingTypeOK, OwnInv, Runs, memberVars, callerVars
<1>1. CASE ConsumingConnect
  BY <1>1 DEF ConsumingConnect
<1>2. CASE PublishWork
  BY <1>2 DEF PublishWork, NotifyAll
<1>3. ASSUME NEW c \in Callers, ~terminated,
             Start(c) \/ Stop(c) \/ ConsumingDisconnect(c) \/ CallerStep(c)
      PROVE  OwnInv'
  <2>1. CASE Start(c)
    BY <1>3, <2>1 DEF Start
  <2>2. CASE Stop(c)
    BY <1>3, <2>2 DEF Stop
  <2>3. CASE ConsumingDisconnect(c)
    BY <1>3, <2>3 DEF ConsumingDisconnect
  <2>4. CASE StartThread(c)
    <3>1. PICK d \in Dispatchers : dpc[d] = "unborn" /\ dpc' = [dpc EXCEPT ![d] = "head"] /\ handle' = d
      BY <2>4 DEF StartThread, Free
    <3>2. /\ consuming' = consuming /\ joins' = joins /\ cpc' = [cpc EXCEPT ![c] = "idle"] /\ cpc[c] = "starting"
          /\ terminated' = (handle # None)
      BY <2>4 DEF StartThread
    <3>3. \A x \in Dispatchers : dpc'[x] = IF x = d THEN "head" ELSE dpc[x]
      BY <3>1
    <3>4. \A o \in Callers : joins'[o] # None => cpc'[o] = "joining"
      BY <3>2
    <3>5. ASSUME ~terminated', NEW x \in Dispatchers, dpc'[x] \notin {"unborn", "ended"}
          PROVE  x = handle' \/ \E o \in Callers : joins'[o] = x
      <4>1. handle = None
        BY <3>2, <3>5
      <4>2. CASE x = d
        BY <3>1, <4>2
      <4>3. CASE x # d
        <5>1. dpc[x] \notin {"unborn", "ended"}
          BY <3>3, <3>5, <4>3
        <5> QED BY <1>3, <3>2, <4>1, <5>1
      <4> QED BY <4>2, <4>3
    <3>6. handle' \in Dispatchers /\ dpc'[handle'] \notin {"unborn", "ended"}
      BY <3>1, <3>3
    <3> QED BY <3>4, <3>5, <3>6
  <2>5. CASE StopNotify(c)
    BY <1>3, <2>5 DEF StopNotify, NotifyAll
  <2>6. CASE TakeThread(c)
    BY <1>3, <2>6 DEF TakeThread
  <2>7. CASE Join(c)
    <3>1. /\ cpc[c] = "joining" /\ (joins[c] = None \/ (joins[c] \in Dispatchers /\ dpc[joins[c]] = "ended"))
          /\ joins' = [joins EXCEPT ![c] = None] /\ cpc'[c] \in {"clearing", "idle"}
          /\ consuming' = consuming /\ handle' = handle /\ terminated' = terminated
          /\ \A o \in Callers : o # c => cpc'[o] = cpc[o]
      BY <2>7 DEF Join
    <3>2. /\ \A x \in Dispatchers : dpc'[x] = IF x = joins[c] THEN "unborn" ELSE dpc[x]
          /\ \A o \in Callers : joins'[o] = IF o = c THEN None ELSE joins[o]
      BY <2>7 DEF Join
    <3>3. \A x \in Dispatchers : dpc'[x] \notin {"unborn", "ended"} <=> dpc[x] \notin {"unborn", "ended"}
      BY <3>1, <3>2
    <3>4. \A o \in Callers : joins'[o] # None => cpc'[o] = "joining"
      BY <3>1, <3>2
    <3>5. ASSUME NEW x \in Dispatchers, dpc'[x] \notin {"unborn", "ended"}
          PROVE  x = handle' \/ \E o \in Callers : joins'[o] = x
      <4>1. x = handle \/ \E o \in Callers : joins[o] = x
        BY <1>3, <3>3, <3>5
      <4>2. joins[c] # x
        BY <3>1, <3>3, <3>5
      <4> QED BY <3>1, <3>2, <4>1, <4>2
    <3>6. ASSUME consuming'
          PROVE  \/ \E o \in Callers : cpc'[o] = "starting"
                 \/ handle' \in Dispatchers /\ dpc'[handle'] \notin {"unborn", "ended"}
                 \/ \E o \in Callers : /\ cpc'[o] = "joining" /\ joins'[o] \in Dispatchers
                                       /\ dpc'[joins'[o]] \notin {"unborn", "ended"}
      <4>1. \/ \E o \in Callers : cpc[o] = "starting"
            \/ Runs(handle)
            \/ \E o \in Callers : cpc[o] = "joining" /\ Runs(joins[o])
        BY <1>3, <3>1, <3>6
      <4>2. CASE \E o \in Callers : cpc[o] = "starting"
        BY <3>1, <4>2
      <4>3. CASE Runs(handle)
        BY <3>1, <3>3, <4>3
      <4>4. CASE \E o \in Callers : cpc[o] = "joining" /\ Runs(joins[o])
        <5>1. PICK o \in Callers : cpc[o] = "joining" /\ Runs(joins[o])
          BY <4>4
        <5>2. o # c
          BY <3>1, <5>1
        <5> QED BY <3>1, <3>2, <3>3, <5>1, <5>2
      <4> QED BY <4>1, <4>2, <4>3, <4>4
    <3> QED BY <3>4, <3>5, <3>6
  <2>8. CASE Clear(c)
    BY <1>3, <2>8 DEF Clear
  <2> QED
    BY <1>3, <2>1, <2>2, <2>3, <2>4, <2>5, <2>6, <2>7, <2>8 DEF CallerStep
<1>4. ASSUME NEW d \in Dispatchers, LoopStep(d) \/ SpuriousWakeup(d)
      PROVE  OwnInv'
  BY <1>4, LoopMoves
<1>5. CASE UNCHANGED consumingVars
  BY <1>5 DEF consumingVars
<1> QED
  BY <1>1, <1>2, <1>3, <1>4, <1>5 DEF ConsumingNext

(* Calls that do not overlap leave nothing behind.                         *)
LEMMA ApartStep ==
    ASSUME ConsumingTypeOK, OwnInv, ApartInv, [ConsumingNext]_consumingVars
    PROVE  ApartInv'
<1> USE NoneAssumption DEF ConsumingTypeOK, OwnInv, ApartInv, Runs, memberVars, callerVars
<1>1. CASE ConsumingConnect
  BY <1>1 DEF ConsumingConnect
<1>2. CASE PublishWork
  BY <1>2 DEF PublishWork, NotifyAll
<1>3. ASSUME NEW c \in Callers, ~terminated,
             Start(c) \/ Stop(c) \/ ConsumingDisconnect(c) \/ CallerStep(c)
      PROVE  ApartInv'
  <2>1. CASE Start(c)
    <3>1. /\ cpc[c] = "idle" /\ ~consuming /\ consuming' = TRUE /\ handle' = handle /\ terminated' = terminated
          /\ crossed' = (crossed \/ Stopping # {})
          /\ \A o \in Callers : cpc'[o] = IF o = c THEN "starting" ELSE cpc[o]
      BY <2>1 DEF Start
    <3>2. ASSUME ~crossed'
          PROVE  /\ ~crossed /\ handle = None
                 /\ \A o \in Callers : cpc[o] \notin {"stored", "notified", "joining", "starting"}
      <4>1. ~crossed /\ Stopping = {}
        BY <3>1, <3>2
      <4>2. \A o \in Callers : cpc[o] \notin {"stored", "notified", "joining"}
        BY <4>1 DEF Stopping
      <4> QED BY <3>1, <4>1, <4>2
    <3> QED BY <1>3, <3>1, <3>2
  <2>2. CASE Stop(c)
    BY <1>3, <2>2 DEF Stop, Starting, Stopping
  <2>3. CASE ConsumingDisconnect(c)
    BY <1>3, <2>3 DEF ConsumingDisconnect
  <2>4. CASE StartThread(c)
    BY <1>3, <2>4 DEF StartThread, Free
  <2>5. CASE StopNotify(c)
    BY <1>3, <2>5 DEF StopNotify, NotifyAll
  <2>6. CASE TakeThread(c)
    BY <1>3, <2>6 DEF TakeThread
  <2>7. CASE Join(c)
    BY <1>3, <2>7 DEF Join, Starting, Stopping
  <2>8. CASE Clear(c)
    BY <1>3, <2>8 DEF Clear
  <2> QED
    BY <1>3, <2>1, <2>2, <2>3, <2>4, <2>5, <2>6, <2>7, <2>8 DEF CallerStep
<1>4. ASSUME NEW d \in Dispatchers, LoopStep(d) \/ SpuriousWakeup(d)
      PROVE  ApartInv'
  BY <1>4, LoopMoves
<1>5. CASE UNCHANGED consumingVars
  BY <1>5 DEF consumingVars
<1> QED
  BY <1>1, <1>2, <1>3, <1>4, <1>5 DEF ConsumingNext

(* For any number of callers and of messages: a thread that waits on m_cv  *)
(* leaves no message behind (dispatchLoop(), publish()).                   *)
THEOREM MessagesNotMissed == ConsumingSpec => [](ConsumingTypeOK /\ NoMissedMessage)
<1>1. ConsumingInit => ConsumingTypeOK /\ AsleepInv
  BY ConsumingStarts
<1>2. ConsumingTypeOK /\ AsleepInv /\ [ConsumingNext]_consumingVars
        => ConsumingTypeOK' /\ AsleepInv'
  BY ConsumingTypeStep, AsleepStep
<1>3. AsleepInv => NoMissedMessage
  BY DEF AsleepInv, NoMissedMessage
<1> QED
  BY <1>1, <1>2, <1>3, PTL DEF ConsumingSpec

(* For any number of callers, dispatch threads and messages, and however   *)
(* calls overlap: no message is slept through, every dispatch thread is    *)
(* owned, and consuming is on over a thread that runs.  As long as no      *)
(* start and stop overlap, or once all has come to rest after one that     *)
(* did, a stopped consumer has no thread and startConsuming() does not     *)
(* terminate the process (startConsuming(), stopConsuming()).              *)
THEOREM DispatcherCorrect == ConsumingSpec => []DispatcherSound
<1> DEFINE I == ConsumingTypeOK /\ AsleepInv /\ OwnInv /\ ApartInv
<1>1. ConsumingInit => I
  BY OwnInit, ConsumingStarts
<1>2. I /\ [ConsumingNext]_consumingVars => I'
  BY ConsumingTypeStep, AsleepStep, OwnStep, ApartStep
<1>3. I => DispatcherSound
  <2> SUFFICES ASSUME I PROVE DispatcherSound
    OBVIOUS
  <2>1. NoMissedMessage
    BY DEF AsleepInv, NoMissedMessage
  <2>2. Alive = {d \in Dispatchers : Runs(d)}
    BY DEF Alive, Runs
  <2>3. ASSUME ~terminated PROVE Alive \subseteq {handle} \cup {joins[c] : c \in Callers}
    BY <2>2, <2>3 DEF OwnInv
  <2>4. ASSUME ~terminated, Stopping = {} PROVE Alive \subseteq {handle}
    BY <2>2, <2>3, <2>4, NoneAssumption DEF OwnInv, Stopping, Runs
  <2>5. ASSUME ~terminated, consuming, Starting = {}, Stopping = {} PROVE Alive = {handle}
    <3>1. Runs(handle)
      BY <2>5 DEF OwnInv, Starting, Stopping
    <3> QED BY <2>2, <2>4, <2>5, <3>1 DEF Runs
  <2>6. ASSUME ~crossed PROVE ~terminated
    BY <2>6 DEF ApartInv
  <2>7. ASSUME ~crossed, ~consuming, Starting = {}, Stopping = {} PROVE Alive = {}
    <3>1. handle = None
      BY <2>7 DEF ApartInv, Stopping
    <3> QED BY <2>2, <2>4, <2>6, <2>7, <3>1, NoneAssumption
  <2> QED BY <2>1, <2>3, <2>5, <2>6, <2>7 DEF DispatcherSound, ThreadsOwned, StoppedUnlessCrossed
<1> QED
  BY <1>1, <1>2, <1>3, PTL DEF ConsumingSpec

-----------------------------------------------------------------------------
(* What the records of the broker rest on: finitely many bindings and      *)
(* deliveries, requeued copies were routed, and no count without consumer. *)
RecordsInv ==
    /\ IsFiniteSet(bindings) /\ IsFiniteSet(unacked)
    /\ \A q \in Queues : requeued[q] \subseteq 1..routed[q]
    /\ \A q \in Queues : consumer[q] = 0 => unackedCount[q] = 0

(* routeMessage() makes a number of copies.                                *)
LEMMA CopiesForNat ==
    ASSUME IsFiniteSet(bindings), NEW e, NEW k, NEW q
    PROVE  CopiesFor(e, k, q) \in Nat
<1>1. Hits(e, k, q) \subseteq bindings
  BY DEF Hits
<1>2. Cardinality(Hits(e, k, q)) \in Nat
  BY <1>1, FS_Subset, FS_CardinalityType
<1> QED BY <1>2 DEF CopiesFor

(* What ack() and nack() settle are some of the deliveries.                *)
LEMMA SettledFinite ==
    ASSUME IsFiniteSet(unacked), NEW tag, NEW multiple
    PROVE  /\ Settled(tag, multiple) \subseteq unacked
           /\ IsFiniteSet(Settled(tag, multiple))
           /\ Cardinality(Settled(tag, multiple)) \in Nat
           /\ \A q : /\ IsFiniteSet(Of(Settled(tag, multiple), q))
                     /\ Cardinality(Of(Settled(tag, multiple), q)) \in Nat
<1>1. Settled(tag, multiple) \subseteq unacked
  BY DEF Settled
<1>2. ASSUME NEW q PROVE Of(Settled(tag, multiple), q) \subseteq Settled(tag, multiple)
  BY DEF Of
<1> QED BY <1>1, <1>2, FS_Subset, FS_CardinalityType

Elems(s) == {s[i] : i \in 1..Len(s)}
Once(s) == \A i, j \in 1..Len(s) : s[i] = s[j] => i = j

(* A function on 1..n is a sequence of length n.                           *)
LEMMA SeqOfFunction ==
    ASSUME NEW T, NEW n \in Nat, NEW f \in [1..n -> T]
    PROVE  f \in Seq(T) /\ Len(f) = n
OBVIOUS

(* One element moves from a part of a whole to another part of it.         *)
LEMMA PartMoves ==
    ASSUME NEW W, NEW U, NEW D, NEW N, NEW h \in W,
           W \cup U \cup D = N, W \cap (U \cup D) = {}, U \cap D = {}
    PROVE  /\ (W \ {h}) \cup (U \cup {h}) \cup D = N
           /\ (W \ {h}) \cap ((U \cup {h}) \cup D) = {}
           /\ (U \cup {h}) \cap D = {}
OBVIOUS

(* A sequence over a set is one over a larger set.                         *)
LEMMA SeqWidens ==
    ASSUME NEW A, NEW B, A \subseteq B, NEW s \in Seq(A)
    PROVE  s \in Seq(B)
OBVIOUS

(* A listing of copies is a sequence of each of them, once.                *)
LEMMA ListingFacts ==
    ASSUME NEW C, IsFiniteSet(C), NEW s \in Listings(C)
    PROVE  /\ s \in Seq(C)
           /\ Once(s) /\ Elems(s) = C
<1>1. Cardinality(C) \in Nat
  BY FS_CardinalityType
<1>2. s \in [1..Cardinality(C) -> C]
  BY DEF Listings
<1>3. s \in Seq(C) /\ Len(s) = Cardinality(C)
  BY <1>1, <1>2
<1> QED BY <1>2, <1>3 DEF Listings, Once, Elems

(* A step of the dispatch thread ends a scan or pops one message for a     *)
(* consumer.                                                               *)
Pops(q, rest, limit, to) ==
    /\ queue[q] # <<>> /\ consumer[q] # 0
    /\ rest \in SUBSET Queues /\ limit \in Nat /\ to \in 1..consumes
    /\ Deliver(q, rest, limit, to)

LEMMA DispatchPops ==
    ASSUME BrokerTypeOK, DispatchStep, ~ScanEnd
    PROVE  \E q \in Queues : \E rest, limit, to : Pops(q, rest, limit, to)
<1>1. /\ prefetch \in [Queues -> Nat] /\ consumer \in [Queues -> 0..consumes]
      /\ consumes \in Nat /\ declared \in SUBSET Queues
  BY BoundsAssumption DEF BrokerTypeOK, QosType, RoutingType
<1>2. ASSUME NEW q \in Queues, NEW among \in SUBSET Queues, Visit(q, among)
      PROVE  \E rest, limit, to : Pops(q, rest, limit, to)
  <2>1. PICK rest \in SUBSET (among \ {q}) : Deliver(q, rest, prefetch[q], consumer[q])
    BY <1>2 DEF Visit
  <2>2. prefetch[q] \in Nat /\ consumer[q] \in 1..consumes /\ rest \in SUBSET Queues
    BY <1>1, <1>2 DEF Visit, Deliverable
  <2> QED BY <1>2, <2>1, <2>2 DEF Pops, Visit, Deliverable
<1>3. scan.running => /\ scan.at \in Queues /\ scan.rest \in SUBSET Queues
                      /\ scan.limit \in Nat /\ scan.to \in 1..consumes
  <2>1. scan = NoScan => ~scan.running
    BY DEF NoScan
  <2>2. scan # NoScan => scan \in [running : {TRUE}, at : Queues, rest : SUBSET Queues,
                                  limit : Nat, to : 1..consumes]
    BY DEF BrokerTypeOK, ScanType
  <2> QED BY <2>1, <2>2
<1>4. ASSUME NEW q \in Queues, ScanBegin(q) PROVE \E rest, limit, to : Pops(q, rest, limit, to)
  BY <1>1, <1>2, <1>4 DEF ScanBegin
<1>5. ASSUME NEW q \in Queues, ScanNext(q) PROVE \E rest, limit, to : Pops(q, rest, limit, to)
  BY <1>2, <1>3, <1>5 DEF ScanNext
<1>6. CASE ScanAgain
  BY <1>3, <1>6 DEF ScanAgain, Deliverable, Pops
<1> QED BY <1>4, <1>5, <1>6 DEF DispatchStep

(* The steps of the broker, one by one.                                    *)
LEMMA BrokerSteps ==
    ASSUME BrokerTypeOK, [BrokerNext]_brokerVars
    PROVE  \/ Connect \/ Disconnect \/ ScanEnd \/ UNCHANGED brokerVars
           \/ \E e \in Exchanges, t \in Types : DeclareExchange(e, t)
           \/ \E q \in Queues : DeclareQueue(q)
           \/ \E q \in Queues : CancelConsume(q)
           \/ \E b \in Binding : BindQueue(b)
           \/ \E b \in Binding : UnbindQueue(b)
           \/ \E e \in Exchanges, k \in Keys : Publish(e, k)
           \/ \E q \in Queues, p \in Prefetches : Consume(q, p)
           \/ \E tag \in Tags, multiple \in BOOLEAN : Ack(tag, multiple)
           \/ \E tag \in Tags, multiple \in BOOLEAN : NackRequeue(tag, multiple)
           \/ \E q \in Queues : \E rest, limit, to : Pops(q, rest, limit, to)
BY DispatchPops DEF BrokerNext, NackDrop

(* Declaring, binding and unbinding keep the types of the routing tables.  *)
LEMMA RoutingTypeStep ==
    ASSUME BrokerTypeOK, [BrokerNext]_brokerVars
    PROVE  RoutingType'
<1> USE DEF RoutingType, routing, qos, copyVars
<1>0. RoutingType
  BY DEF BrokerTypeOK
<1>1. CASE UNCHANGED <<opened, routing, declared>>
  BY <1>0, <1>1
<1>2. CASE Connect
  BY <1>0, <1>2 DEF Connect
<1>3. CASE Disconnect
  BY <1>0, <1>3 DEF Disconnect
<1>4. ASSUME NEW e \in Exchanges, NEW t \in Types, DeclareExchange(e, t) PROVE RoutingType'
  BY <1>0, <1>4 DEF DeclareExchange
<1>5. ASSUME NEW q \in Queues, DeclareQueue(q) PROVE RoutingType'
  BY <1>0, <1>5 DEF DeclareQueue
<1>6. ASSUME NEW b \in Binding, BindQueue(b) PROVE RoutingType'
  <2>1. b.queue \in Queues /\ b.exchange \in Exchanges /\ b.key \in Keys
    BY DEF Binding
  <2>2. bindings' \in SUBSET Placed
    BY <1>0, <1>6, <2>1 DEF BindQueue, Placed
  <2> QED BY <1>0, <1>6, <2>1, <2>2 DEF BindQueue
<1>7. ASSUME NEW b \in Binding, UnbindQueue(b) PROVE RoutingType'
  BY <1>0, <1>7 DEF UnbindQueue
<1>8. ASSUME NEW e, NEW k, Publish(e, k) PROVE RoutingType'
  BY <1>1, <1>8 DEF Publish
<1>9. ASSUME NEW q, NEW p, Consume(q, p) PROVE RoutingType'
  BY <1>1, <1>9 DEF Consume
<1>10. ASSUME NEW q, CancelConsume(q) PROVE RoutingType'
  BY <1>1, <1>10 DEF CancelConsume
<1>11. ASSUME NEW tag, NEW multiple, Ack(tag, multiple) \/ NackRequeue(tag, multiple)
       PROVE RoutingType'
  BY <1>1, <1>11 DEF Ack, NackRequeue
<1>12. ASSUME NEW q, NEW rest, NEW limit, NEW to, Pops(q, rest, limit, to) PROVE RoutingType'
  BY <1>1, <1>12 DEF Pops, Deliver
<1>13. CASE ScanEnd \/ UNCHANGED brokerVars
  BY <1>1, <1>13 DEF ScanEnd, brokerVars
<1> QED
  BY BrokerSteps, <1>2, <1>3, <1>4, <1>5, <1>6, <1>7, <1>8, <1>9, <1>10, <1>11, <1>12, <1>13

(* The copies popped, acknowledged, requeued and published are copies.     *)
LEMMA CopyTypeStep ==
    ASSUME BrokerTypeOK, RecordsInv, [BrokerNext]_brokerVars
    PROVE  CopyType'
<1> USE BoundsAssumption DEF CopyType, routing, qos, copyVars
<1>0. CopyType /\ \A u \in unacked : u.copy \in 1..MaxCopies
  BY DEF BrokerTypeOK, DeliveryType, Delivery
<1>1. CASE UNCHANGED <<queue, copyVars>>
  BY <1>0, <1>1
<1>2. CASE Connect
  BY <1>1, <1>2 DEF Connect
<1>3. CASE Disconnect
  BY <1>0, <1>3 DEF Disconnect
<1>4. ASSUME NEW e, NEW t, DeclareExchange(e, t) PROVE CopyType'
  BY <1>1, <1>4 DEF DeclareExchange
<1>5. ASSUME NEW q, DeclareQueue(q) PROVE CopyType'
  BY <1>1, <1>5 DEF DeclareQueue
<1>6. ASSUME NEW b, BindQueue(b) \/ UnbindQueue(b) PROVE CopyType'
  BY <1>1, <1>6 DEF BindQueue, UnbindQueue
<1>8. ASSUME NEW e, NEW k, Publish(e, k) PROVE CopyType'
  <2>1. \A q \in Queues : CopiesFor(e, k, q) \in Nat
    BY CopiesForNat DEF RecordsInv
  <2>2. \A q \in Queues : routed[q] + CopiesFor(e, k, q) \in 0..MaxCopies
    BY <1>0, <1>8, <2>1 DEF Publish
  <2>3. ASSUME NEW q \in Queues
        PROVE  [i \in 1..CopiesFor(e, k, q) |-> routed[q] + i] \in Seq(1..MaxCopies)
    <3>1. \A i \in 1..CopiesFor(e, k, q) : routed[q] + i \in 1..MaxCopies
      BY <1>0, <2>1, <2>2
    <3> QED BY <2>1, <3>1
  <2>4. queue' \in [Queues -> Seq(1..MaxCopies)]
    BY <1>0, <1>8, <2>3 DEF Publish
  <2>5. routed' \in [Queues -> 0..MaxCopies]
    BY <1>8, <2>2 DEF Publish
  <2> QED BY <1>0, <1>8, <2>4, <2>5 DEF Publish
<1>9. ASSUME NEW q, NEW p, Consume(q, p) PROVE CopyType'
  BY <1>1, <1>9 DEF Consume
<1>10. ASSUME NEW q, CancelConsume(q) PROVE CopyType'
  BY <1>1, <1>10 DEF CancelConsume
<1>11. ASSUME NEW tag, NEW multiple, NEW q
       PROVE  CopiesOf(Settled(tag, multiple), q) \in SUBSET (1..MaxCopies)
  BY <1>0 DEF CopiesOf, Of, Settled
<1>12. ASSUME NEW tag, NEW multiple, Ack(tag, multiple) PROVE CopyType'
  BY <1>0, <1>11, <1>12 DEF Ack
<1>13. ASSUME NEW tag, NEW multiple, NackRequeue(tag, multiple) PROVE CopyType'
  <2> DEFINE S == Settled(tag, multiple)
  <2>1. PICK front : /\ \A q \in Queues : front[q] \in Listings(CopiesOf(S, q))
                     /\ queue' = [q \in Queues |-> front[q] \o queue[q]]
    BY <1>13 DEF NackRequeue
  <2>2. ASSUME NEW q \in Queues PROVE front[q] \in Seq(1..MaxCopies)
    <3>1. IsFiniteSet(CopiesOf(S, q))
      <4>1. IsFiniteSet(1..MaxCopies)
        BY FS_Interval
      <4> QED BY <4>1, <1>11, FS_Subset
    <3>2. front[q] \in Seq(CopiesOf(S, q))
      BY <2>1, <3>1, ListingFacts
    <3> QED BY <3>2, <1>11
  <2>3. queue' \in [Queues -> Seq(1..MaxCopies)]
    BY <1>0, <2>1, <2>2
  <2>4. requeued' \in [Queues -> SUBSET (1..MaxCopies)]
    BY <1>0, <1>11, <1>13 DEF NackRequeue
  <2> QED BY <1>0, <1>13, <2>3, <2>4 DEF NackRequeue
<1>14. ASSUME NEW q \in Queues, NEW rest, NEW limit, NEW to, Pops(q, rest, limit, to)
       PROVE  CopyType'
  <2>1. Tail(queue[q]) \in Seq(1..MaxCopies)
    BY <1>0, <1>14 DEF Pops
  <2> QED BY <1>0, <1>14, <2>1 DEF Pops, Deliver
<1>15. CASE ScanEnd \/ UNCHANGED brokerVars
  BY <1>1, <1>15 DEF ScanEnd, brokerVars
<1> QED
  BY BrokerSteps, <1>2, <1>3, <1>4, <1>5, <1>6, <1>8, <1>9, <1>10, <1>12, <1>13, <1>14, <1>15

(* Counts and numbers of consumers: an acknowledgement never takes a count *)
(* below zero.                                                             *)
LEMMA QosTypeStep ==
    ASSUME BrokerTypeOK, RecordsInv, [BrokerNext]_brokerVars
    PROVE  QosType' /\ consumes <= consumes' /\ consumes \in Nat /\ consumes' \in Nat
<1> DEFINE Goal == QosType' /\ consumes <= consumes'
<1> USE BoundsAssumption DEF QosType, routing, qos, copyVars
<1>0. QosType
  BY DEF BrokerTypeOK
<1>1. CASE UNCHANGED qos
  BY <1>0, <1>1
<1>2. CASE Connect \/ ScanEnd \/ UNCHANGED brokerVars
  BY <1>1, <1>2 DEF Connect, ScanEnd, brokerVars
<1>3. CASE Disconnect
  BY <1>0, <1>3 DEF Disconnect
<1>4. ASSUME NEW e, NEW t, DeclareExchange(e, t) PROVE Goal
  BY <1>1, <1>4 DEF DeclareExchange
<1>5. ASSUME NEW q, DeclareQueue(q) PROVE Goal
  BY <1>1, <1>5 DEF DeclareQueue
<1>6. ASSUME NEW b, BindQueue(b) \/ UnbindQueue(b) PROVE Goal
  BY <1>1, <1>6 DEF BindQueue, UnbindQueue
<1>7. ASSUME NEW e, NEW k, Publish(e, k) PROVE Goal
  BY <1>1, <1>7 DEF Publish
<1>8. ASSUME NEW q \in Queues, NEW p \in Prefetches, Consume(q, p) PROVE Goal
  BY <1>0, <1>8 DEF Consume, Unlimited
<1>9. ASSUME NEW q \in Queues, CancelConsume(q) PROVE Goal
  BY <1>0, <1>9 DEF CancelConsume
<1>10. ASSUME NEW tag, NEW multiple, Ack(tag, multiple) \/ NackRequeue(tag, multiple) PROVE Goal
  <2>1. \A q : Cardinality(Of(Settled(tag, multiple), q)) \in Nat
    BY SettledFinite DEF RecordsInv
  <2>2. Uncount(Settled(tag, multiple)) /\ UNCHANGED <<consumer, prefetch, consumes>>
    BY <1>10 DEF Ack, NackRequeue
  <2> QED BY <1>0, <2>1, <2>2 DEF Uncount
<1>11. ASSUME NEW q \in Queues, NEW rest, NEW limit, NEW to, Pops(q, rest, limit, to) PROVE Goal
  BY <1>0, <1>11 DEF Pops, Deliver
<1> QED
  BY BrokerSteps, <1>0, <1>2, <1>3, <1>4, <1>5, <1>6, <1>7, <1>8, <1>9, <1>10, <1>11

(* A delivery recorded has a tag taken before, and stays as it is.         *)
LEMMA DeliveryTypeStep ==
    ASSUME BrokerTypeOK, RecordsInv, [BrokerNext]_brokerVars
    PROVE  DeliveryType'
<1> USE BoundsAssumption DEF DeliveryType, routing, qos, copyVars
<1>0. DeliveryType /\ consumes <= consumes' /\ consumes \in Nat /\ consumes' \in Nat
  BY QosTypeStep DEF BrokerTypeOK
<1>1. ASSUME nextTag' \in Nat \ {0}, nextTag <= nextTag' PROVE Delivery \subseteq Delivery'
  BY <1>0, <1>1 DEF Delivery
<1>2. CASE UNCHANGED <<unacked, nextTag>>
  BY <1>0, <1>1, <1>2
<1>3. CASE Connect \/ ScanEnd \/ UNCHANGED brokerVars
  BY <1>2, <1>3 DEF Connect, ScanEnd, brokerVars
<1>4. CASE Disconnect
  BY <1>0, <1>4 DEF Disconnect
<1>5. ASSUME NEW e, NEW t, DeclareExchange(e, t) PROVE DeliveryType'
  BY <1>2, <1>5 DEF DeclareExchange
<1>6. ASSUME NEW q, DeclareQueue(q) \/ CancelConsume(q) PROVE DeliveryType'
  BY <1>2, <1>6 DEF DeclareQueue, CancelConsume
<1>7. ASSUME NEW b, BindQueue(b) \/ UnbindQueue(b) PROVE DeliveryType'
  BY <1>2, <1>7 DEF BindQueue, UnbindQueue
<1>8. ASSUME NEW e, NEW k, Publish(e, k) PROVE DeliveryType'
  BY <1>2, <1>8 DEF Publish
<1>9. ASSUME NEW q, NEW p, Consume(q, p) PROVE DeliveryType'
  BY <1>2, <1>9 DEF Consume
<1>10. ASSUME NEW tag, NEW multiple, Ack(tag, multiple) PROVE DeliveryType'
  BY <1>0, <1>1, <1>10 DEF Ack
<1>11. ASSUME NEW tag, NEW multiple, NackRequeue(tag, multiple) PROVE DeliveryType'
  <2>1. nextTag' \in Nat \ {0} /\ nextTag <= nextTag'
    BY <1>0, <1>11, SettledFinite DEF NackRequeue, RecordsInv
  <2> QED BY <1>0, <1>1, <1>11, <2>1 DEF NackRequeue
<1>12. ASSUME NEW q \in Queues, NEW rest, NEW limit, NEW to, Pops(q, rest, limit, to)
       PROVE  DeliveryType'
  <2>1. Head(queue[q]) \in 1..MaxCopies
    BY <1>12 DEF Pops, BrokerTypeOK, CopyType
  <2>2. nextTag' = nextTag + 1 /\ consumes' = consumes /\ to \in 1..consumes
    BY <1>12 DEF Pops, Deliver
  <2>3. [tag |-> nextTag, queue |-> q, copy |-> Head(queue[q]), to |-> to] \in Delivery
    BY <1>0, <2>1, <2>2 DEF Delivery
  <2>4. Delivery \subseteq Delivery'
    BY <1>0, <1>1, <2>2
  <2> QED BY <1>0, <1>12, <2>2, <2>3, <2>4 DEF Pops, Deliver
<1> QED
  BY BrokerSteps, <1>3, <1>4, <1>5, <1>6, <1>7, <1>8, <1>9, <1>10, <1>11, <1>12

(* A scan under way refers to queues and to a consume() call made.         *)
LEMMA ScanTypeStep ==
    ASSUME BrokerTypeOK, RecordsInv, RoutingType', [BrokerNext]_brokerVars
    PROVE  ScanType'
<1> DEFINE Scans(n) == [running : {TRUE}, at : Queues, rest : SUBSET Queues, limit : Nat, to : 1..n]
<1>0. /\ scan = NoScan \/ scan \in Scans(consumes)
      /\ consumes <= consumes' /\ consumes \in Nat /\ consumes' \in Nat
  BY QosTypeStep DEF BrokerTypeOK, ScanType
<1>1. Scans(consumes) \subseteq Scans(consumes')
  <2>1. 1..consumes \subseteq 1..consumes'
    BY <1>0
  <2> QED BY <2>1
<1>2. NoScan' = NoScan
  BY DEF NoScan
<1> DEFINE Goal == scan' = NoScan \/ scan' \in Scans(consumes')
<1>3. ASSUME UNCHANGED scan PROVE Goal
  BY <1>0, <1>1, <1>3
<1>4. ASSUME Connect \/ Disconnect \/ UNCHANGED brokerVars PROVE Goal
  BY <1>3, <1>4 DEF Connect, Disconnect, brokerVars
<1>5. ASSUME ScanEnd PROVE Goal
  BY <1>5 DEF ScanEnd
<1>6. ASSUME NEW e, NEW t, DeclareExchange(e, t) PROVE Goal
  BY <1>3, <1>6 DEF DeclareExchange
<1>7. ASSUME NEW q, DeclareQueue(q) PROVE Goal
  <2>1. CASE scan.running
    <3>1. scan # NoScan
      BY <2>1 DEF NoScan
    <3>2. scan \in Scans(consumes')
      BY <1>0, <1>1, <3>1
    <3>3. PICK rest \in SUBSET declared' : scan' = [scan EXCEPT !.rest = rest]
      BY <1>7, <2>1 DEF DeclareQueue
    <3>4. rest \in SUBSET Queues
      BY <3>3 DEF RoutingType
    <3> QED BY <3>2, <3>3, <3>4
  <2>2. CASE ~scan.running
    BY <1>3, <1>7, <2>2 DEF DeclareQueue
  <2> QED BY <2>1, <2>2
<1>8. ASSUME NEW b, BindQueue(b) \/ UnbindQueue(b) PROVE Goal
  BY <1>3, <1>8 DEF BindQueue, UnbindQueue
<1>9. ASSUME NEW e, NEW k, Publish(e, k) PROVE Goal
  BY <1>3, <1>9 DEF Publish
<1>10. ASSUME NEW q, CancelConsume(q) PROVE Goal
  BY <1>3, <1>10 DEF CancelConsume
<1>11. ASSUME NEW q, NEW p, Consume(q, p) PROVE Goal
  BY <1>3, <1>11 DEF Consume
<1>12. ASSUME NEW tag, NEW multiple, Ack(tag, multiple) \/ NackRequeue(tag, multiple) PROVE Goal
  BY <1>3, <1>12 DEF Ack, NackRequeue
<1>13. ASSUME NEW q \in Queues, NEW rest, NEW limit, NEW to, Pops(q, rest, limit, to) PROVE Goal
  <2>1. /\ rest \in SUBSET Queues /\ limit \in Nat /\ to \in 1..consumes
        /\ scan' = [running |-> TRUE, at |-> q, rest |-> rest, limit |-> limit, to |-> to]
    BY <1>13 DEF Pops, Deliver
  <2>2. scan' \in Scans(consumes)
    BY <2>1
  <2> QED BY <1>1, <2>2
<1>14. Goal
  BY BrokerSteps, <1>4, <1>5, <1>6, <1>7, <1>8, <1>9, <1>10, <1>11, <1>12, <1>13
<1> QED BY <1>2, <1>14 DEF ScanType

(* The types of the broker's members are kept by every call and scan.      *)
LEMMA BrokerTypeStep ==
    ASSUME BrokerTypeOK, RecordsInv, [BrokerNext]_brokerVars
    PROVE  BrokerTypeOK'
BY RoutingTypeStep, CopyTypeStep, QosTypeStep, DeliveryTypeStep, ScanTypeStep DEF BrokerTypeOK

-----------------------------------------------------------------------------
(* The elements of two sequences put together.                             *)
LEMMA ConcatIndex ==
    ASSUME NEW T, NEW s \in Seq(T), NEW t \in Seq(T)
    PROVE  /\ s \o t \in Seq(T) /\ Len(s \o t) = Len(s) + Len(t)
           /\ Len(s) \in Nat /\ Len(t) \in Nat
           /\ \A i \in 1..Len(s) : (s \o t)[i] = s[i] /\ s[i] \in T
           /\ \A i \in 1..Len(t) : (s \o t)[Len(s) + i] = t[i]
           /\ \A i \in 1..Len(s \o t) : i \notin 1..Len(s) => /\ i - Len(s) \in 1..Len(t)
                                                             /\ (s \o t)[i] = t[i - Len(s)]
<1>1. /\ s \o t \in Seq(T) /\ Len(s \o t) = Len(s) + Len(t)
      /\ Len(s) \in Nat /\ Len(t) \in Nat
      /\ \A i \in 1..Len(s) : (s \o t)[i] = s[i] /\ s[i] \in T
      /\ \A i \in 1..Len(t) : (s \o t)[Len(s) + i] = t[i]
  OBVIOUS
<1>2. \A i \in 1..Len(s \o t) : i \notin 1..Len(s) => /\ i - Len(s) \in 1..Len(t)
                                                    /\ (s \o t)[i] = t[i - Len(s)]
  BY <1>1
<1> QED BY <1>1, <1>2

(* Appending one sequence to another, with no element in both.             *)
LEMMA ConcatFacts ==
    ASSUME NEW T, NEW s \in Seq(T), NEW t \in Seq(T)
    PROVE  /\ s \o t \in Seq(T)
           /\ Elems(s \o t) = Elems(s) \cup Elems(t)
           /\ Once(s) /\ Once(t) /\ Elems(s) \cap Elems(t) = {} => Once(s \o t)
<1>1. /\ s \o t \in Seq(T) /\ Len(s \o t) = Len(s) + Len(t)
      /\ Len(s) \in Nat /\ Len(t) \in Nat
      /\ \A i \in 1..Len(s) : (s \o t)[i] = s[i]
      /\ \A i \in 1..Len(t) : (s \o t)[Len(s) + i] = t[i]
  BY ConcatIndex
<1>2. \A i \in 1..Len(s \o t) : i \notin 1..Len(s) => /\ i - Len(s) \in 1..Len(t)
                                                    /\ (s \o t)[i] = t[i - Len(s)]
  BY ConcatIndex
<1>3. Elems(s \o t) \subseteq Elems(s) \cup Elems(t)
  BY <1>1, <1>2 DEF Elems
<1>4. ASSUME NEW x \in Elems(t) PROVE x \in Elems(s \o t)
  <2>1. PICK i \in 1..Len(t) : x = t[i]
    BY DEF Elems
  <2>2. Len(s) + i \in 1..Len(s \o t)
    BY <1>1
  <2> QED BY <1>1, <2>1, <2>2 DEF Elems
<1>5. Elems(s) \subseteq Elems(s \o t)
  BY <1>1 DEF Elems
<1>6. ASSUME Once(s), Once(t), Elems(s) \cap Elems(t) = {} PROVE Once(s \o t)
  <2> SUFFICES ASSUME NEW i \in 1..Len(s \o t), NEW j \in 1..Len(s \o t), (s \o t)[i] = (s \o t)[j]
               PROVE  i = j
    BY DEF Once
  <2>1. CASE i \in 1..Len(s) /\ j \in 1..Len(s)
    BY <1>1, <1>6, <2>1 DEF Once
  <2>2. CASE i \notin 1..Len(s) /\ j \notin 1..Len(s)
    BY <1>1, <1>2, <1>6, <2>2, SMTT(60) DEF Once
  <2>3. ASSUME NEW k \in 1..Len(s), NEW m \in 1..Len(s \o t), m \notin 1..Len(s)
        PROVE  (s \o t)[k] # (s \o t)[m]
    <3>1. (s \o t)[k] \in Elems(s)
      BY <1>1 DEF Elems
    <3>2. (s \o t)[m] \in Elems(t)
      BY <1>2, <2>3 DEF Elems
    <3> QED BY <1>6, <3>1, <3>2
  <2>4. CASE i \in 1..Len(s) /\ j \notin 1..Len(s)
    BY <2>3, <2>4
  <2>5. CASE i \notin 1..Len(s) /\ j \in 1..Len(s)
    BY <2>3, <2>5
  <2> QED BY <2>1, <2>2, <2>4, <2>5
<1> QED BY <1>1, <1>3, <1>4, <1>5, <1>6

(* Popping the front of a sequence that holds each element once.           *)
LEMMA TailFacts ==
    ASSUME NEW T, NEW s \in Seq(T), s # <<>>, Once(s)
    PROVE  /\ Head(s) \in Elems(s) /\ Once(Tail(s))
           /\ Elems(Tail(s)) = Elems(s) \ {Head(s)}
<1>1. /\ Len(s) \in Nat \ {0} /\ Len(Tail(s)) = Len(s) - 1 /\ Head(s) = s[1]
      /\ \A i \in 1..Len(Tail(s)) : Tail(s)[i] = s[i + 1] /\ i + 1 \in 1..Len(s)
  OBVIOUS
<1>2. \A i \in 1..Len(s) : i # 1 => i - 1 \in 1..Len(Tail(s)) /\ Tail(s)[i - 1] = s[i]
  BY <1>1
<1>3. 1 \in 1..Len(s) /\ \A i \in 1..Len(s) : s[i] = Head(s) => i = 1
  BY <1>1 DEF Once
<1>4. Once(Tail(s))
  BY <1>1 DEF Once
<1>5. Elems(Tail(s)) \subseteq Elems(s) \ {Head(s)}
  BY <1>1, <1>3 DEF Elems
<1>6. ASSUME NEW x \in Elems(s) \ {Head(s)} PROVE x \in Elems(Tail(s))
  <2>1. PICK i \in 1..Len(s) : x = s[i] /\ i # 1
    BY <1>1 DEF Elems
  <2> QED BY <1>2, <2>1 DEF Elems
<1> QED BY <1>1, <1>3, <1>4, <1>5, <1>6 DEF Elems

-----------------------------------------------------------------------------
(* Settling removes from a queue's deliveries exactly the copies settled.  *)
LEMMA SettledCopies ==
    ASSUME NEW q, NEW S, S \subseteq unacked,
           \A u, v \in Of(unacked, q) : u.copy = v.copy => u = v
    PROVE  /\ CopiesOf(unacked \ S, q) = CopiesOf(unacked, q) \ CopiesOf(S, q)
           /\ CopiesOf(S, q) \subseteq CopiesOf(unacked, q)
           /\ Of(unacked \ S, q) = Of(unacked, q) \ Of(S, q)
           /\ Of(S, q) \subseteq Of(unacked, q)
BY DEF CopiesOf, Of

(* Conservation for one queue.                                             *)
Conserved(q) ==
    /\ Elems(queue[q]) \cup CopiesOf(unacked, q) \cup done[q] = 1..routed[q]
    /\ Once(queue[q])
    /\ Elems(queue[q]) \cap (CopiesOf(unacked, q) \cup done[q]) = {}
    /\ CopiesOf(unacked, q) \cap done[q] = {}
    /\ \A u, v \in Of(unacked, q) : u.copy = v.copy => u = v

LEMMA ConservationSplits == Conservation <=> \A q \in Queues : Conserved(q)
BY DEF Conservation, Conserved, Elems, Once, Waiting

(* Each copy stays in one of its places: a queue, the deliveries, done.    *)
LEMMA ConservationStep ==
    ASSUME BrokerTypeOK, RecordsInv, \A q \in Queues : Conserved(q), [BrokerNext]_brokerVars
    PROVE  \A q \in Queues : Conserved(q)'
<1> SUFFICES ASSUME NEW r \in Queues PROVE Conserved(r)'
  OBVIOUS
<1> USE DEF routing, qos, copyVars
<1>0. /\ Conserved(r) /\ CopyType /\ DeliveryType /\ MaxCopies \in Nat
      /\ queue[r] \in Seq(1..MaxCopies) /\ routed[r] \in Nat
  BY BoundsAssumption DEF BrokerTypeOK, CopyType
<1>1. CASE UNCHANGED <<queue, unacked, done, routed>>
  BY <1>0, <1>1 DEF Conserved, CopiesOf, Of
<1>2. CASE Connect \/ ScanEnd \/ UNCHANGED brokerVars
  BY <1>1, <1>2 DEF Connect, ScanEnd, brokerVars
<1>3. CASE Disconnect
  <2>1. /\ queue'[r] = <<>> /\ unacked' = {} /\ done'[r] = 1..routed[r] /\ routed'[r] = routed[r]
    BY <1>3 DEF Disconnect
  <2> QED BY <2>1 DEF Conserved, CopiesOf, Of, Elems, Once
<1>4. ASSUME NEW e, NEW t, DeclareExchange(e, t) PROVE Conserved(r)'
  BY <1>1, <1>4 DEF DeclareExchange
<1>5. ASSUME NEW q, DeclareQueue(q) \/ CancelConsume(q) PROVE Conserved(r)'
  BY <1>1, <1>5 DEF DeclareQueue, CancelConsume
<1>6. ASSUME NEW b, BindQueue(b) \/ UnbindQueue(b) PROVE Conserved(r)'
  BY <1>1, <1>6 DEF BindQueue, UnbindQueue
<1>7. ASSUME NEW e, NEW k, Publish(e, k) PROVE Conserved(r)'
  <2> DEFINE n == CopiesFor(e, k, r)
             t == [i \in 1..n |-> routed[r] + i]
  <2>1. n \in Nat /\ routed[r] + n <= MaxCopies
    BY <1>7, CopiesForNat DEF Publish, RecordsInv
  <2>2. /\ queue'[r] = queue[r] \o t /\ routed'[r] = routed[r] + n
        /\ UNCHANGED <<unacked, done>>
    BY <1>0, <1>7 DEF Publish, CopyType
  <2>3. t \in Seq(1..MaxCopies) /\ Len(t) = n
    <3>1. \A i \in 1..n : routed[r] + i \in 1..MaxCopies
      BY <1>0, <2>1
    <3>2. t \in [1..n -> 1..MaxCopies]
      BY <3>1
    <3> QED BY <2>1, <3>2, SeqOfFunction
  <2>4. Once(t) /\ Elems(t) = (routed[r] + 1)..(routed[r] + n)
    <3>1. \A i \in 1..n : t[i] = routed[r] + i
      OBVIOUS
    <3>2. \A x \in (routed[r] + 1)..(routed[r] + n) : x - routed[r] \in 1..n /\ t[x - routed[r]] = x
      BY <1>0, <2>1
    <3> HIDE DEF t
    <3> QED BY <1>0, <2>1, <2>3, <3>1, <3>2, SMTT(60) DEF Once, Elems
  <2> HIDE DEF n, t
  <2>5. Elems(queue[r]) \subseteq 1..routed[r] /\ CopiesOf(unacked, r) \subseteq 1..routed[r]
        /\ done[r] \subseteq 1..routed[r]
    BY <1>0 DEF Conserved
  <2>6. Elems(queue[r]) \cap Elems(t) = {}
    BY <1>0, <2>1, <2>4, <2>5
  <2>7. Once(queue'[r]) /\ Elems(queue'[r]) = Elems(queue[r]) \cup Elems(t)
    BY <1>0, <2>2, <2>3, <2>4, <2>6, ConcatFacts DEF Conserved
  <2>8. 1..routed'[r] = (1..routed[r]) \cup Elems(t)
    BY <1>0, <2>1, <2>2, <2>4
  <2>9. Elems(t) \cap (1..routed[r]) = {}
    BY <1>0, <2>1, <2>4
  <2>10. CopiesOf(unacked', r) = CopiesOf(unacked, r) /\ Of(unacked', r) = Of(unacked, r) /\ done'[r] = done[r]
    BY <2>2
  <2> QED BY <1>0, <2>5, <2>7, <2>8, <2>9, <2>10 DEF Conserved
<1>8. ASSUME NEW q, NEW p, Consume(q, p) PROVE Conserved(r)'
  BY <1>1, <1>8 DEF Consume
<1>9. ASSUME NEW tag, NEW multiple, Ack(tag, multiple) PROVE Conserved(r)'
  <2> DEFINE S == Settled(tag, multiple)
  <2>1. S \subseteq unacked
    BY DEF Settled
  <2>2. /\ queue'[r] = queue[r] /\ unacked' = unacked \ S /\ routed'[r] = routed[r]
        /\ done'[r] = done[r] \cup CopiesOf(S, r)
    BY <1>9 DEF Ack
  <2> HIDE DEF S
  <2>3. /\ CopiesOf(unacked', r) = CopiesOf(unacked, r) \ CopiesOf(S, r)
        /\ CopiesOf(S, r) \subseteq CopiesOf(unacked, r)
        /\ Of(unacked', r) \subseteq Of(unacked, r)
    BY <1>0, <2>1, <2>2, SettledCopies DEF Conserved
  <2> QED BY <1>0, <2>2, <2>3 DEF Conserved
<1>10. ASSUME NEW tag, NEW multiple, NackRequeue(tag, multiple) PROVE Conserved(r)'
  <2> DEFINE S == Settled(tag, multiple)
  <2>1. S \subseteq unacked
    BY DEF Settled
  <2>2. PICK front : /\ \A q \in Queues : front[q] \in Listings(CopiesOf(S, q))
                     /\ queue' = [q \in Queues |-> front[q] \o queue[q]]
    BY <1>10 DEF NackRequeue
  <2>3. unacked' = unacked \ S /\ routed'[r] = routed[r] /\ done'[r] = done[r]
    BY <1>10 DEF NackRequeue
  <2> HIDE DEF S
  <2>4. /\ CopiesOf(unacked', r) = CopiesOf(unacked, r) \ CopiesOf(S, r)
        /\ CopiesOf(S, r) \subseteq CopiesOf(unacked, r)
        /\ Of(unacked', r) \subseteq Of(unacked, r)
    BY <1>0, <2>1, <2>3, SettledCopies DEF Conserved
  <2>5. CopiesOf(S, r) \subseteq 1..MaxCopies /\ IsFiniteSet(CopiesOf(S, r))
    <3>1. CopiesOf(unacked, r) \subseteq 1..MaxCopies
      BY <1>0 DEF DeliveryType, Delivery, CopiesOf, Of
    <3>2. IsFiniteSet(1..MaxCopies)
      BY <1>0, FS_Interval
    <3> QED BY <2>4, <3>1, <3>2, FS_Subset
  <2>6. /\ front[r] \in Seq(CopiesOf(S, r)) /\ Once(front[r]) /\ Elems(front[r]) = CopiesOf(S, r)
    BY <2>2, <2>5, ListingFacts
  <2>7. front[r] \in Seq(1..MaxCopies)
    BY <2>5, <2>6, SeqWidens
  <2>8. /\ Once(queue'[r]) /\ Elems(queue'[r]) = CopiesOf(S, r) \cup Elems(queue[r])
    BY <1>0, <2>2, <2>4, <2>6, <2>7, ConcatFacts DEF Conserved
  <2> QED BY <1>0, <2>3, <2>4, <2>8 DEF Conserved
<1>11. ASSUME NEW q \in Queues, NEW rest, NEW limit, NEW to, Pops(q, rest, limit, to)
       PROVE  Conserved(r)'
  <2> DEFINE u == [tag |-> nextTag, queue |-> q, copy |-> Head(queue[q]), to |-> to]
  <2>1. /\ queue' = [queue EXCEPT ![q] = Tail(@)] /\ unacked' = unacked \cup {u}
        /\ UNCHANGED <<done, routed>> /\ queue[q] # <<>>
    BY <1>11 DEF Pops, Deliver
  <2>2. u.queue = q /\ u.copy = Head(queue[q])
    OBVIOUS
  <2> HIDE DEF u
  <2>3. CASE r = q
    <3>1. /\ Head(queue[r]) \in Elems(queue[r]) /\ Once(queue'[r])
          /\ Elems(queue'[r]) = Elems(queue[r]) \ {Head(queue[r])}
      BY <1>0, <2>1, <2>3, TailFacts DEF Conserved, CopyType
    <3>2. /\ Of(unacked', r) = Of(unacked, r) \cup {u}
          /\ CopiesOf(unacked', r) = CopiesOf(unacked, r) \cup {Head(queue[r])}
      BY <2>1, <2>2, <2>3 DEF Of, CopiesOf
    <3>3. \A v \in Of(unacked, r) : v.copy # Head(queue[r])
      BY <1>0, <3>1 DEF Conserved, CopiesOf
    <3>4. \A v, w \in Of(unacked', r) : v.copy = w.copy => v = w
      BY <1>0, <2>2, <2>3, <3>2, <3>3 DEF Conserved
    <3>5. done'[r] = done[r] /\ routed'[r] = routed[r]
      BY <2>1
    <3> DEFINE W == Elems(queue[r])
               U == CopiesOf(unacked, r)
               h == Head(queue[r])
    <3>6. /\ W \cup U \cup done[r] = 1..routed[r] /\ W \cap (U \cup done[r]) = {}
          /\ U \cap done[r] = {} /\ h \in W
      BY <1>0, <3>1 DEF Conserved
    <3>7. Elems(queue'[r]) = W \ {h} /\ CopiesOf(unacked', r) = U \cup {h}
      BY <3>1, <3>2
    <3> HIDE DEF W, U, h
    <3>8. /\ (W \ {h}) \cup (U \cup {h}) \cup done[r] = 1..routed[r]
          /\ (W \ {h}) \cap ((U \cup {h}) \cup done[r]) = {}
          /\ (U \cup {h}) \cap done[r] = {}
      BY <3>6, PartMoves
    <3> QED BY <3>1, <3>4, <3>5, <3>7, <3>8 DEF Conserved
  <2>4. CASE r # q
    <3>1. queue'[r] = queue[r] /\ Of(unacked', r) = Of(unacked, r)
      BY <1>0, <2>1, <2>2, <2>4 DEF Of, CopyType
    <3>2. CopiesOf(unacked', r) = CopiesOf(unacked, r)
      BY <3>1 DEF CopiesOf
    <3> QED BY <1>0, <2>1, <3>1, <3>2 DEF Conserved
  <2> QED BY <2>3, <2>4
<1> QED
  BY BrokerSteps, <1>2, <1>3, <1>4, <1>5, <1>6, <1>7, <1>8, <1>9, <1>10, <1>11

-----------------------------------------------------------------------------
(* Finiteness, requeued copies and consumers that are gone.                *)
LEMMA RecordsStep ==
    ASSUME BrokerTypeOK, RecordsInv, \A q \in Queues : Conserved(q), [BrokerNext]_brokerVars
    PROVE  RecordsInv'
<1> DEFINE Finite == IsFiniteSet(bindings) /\ IsFiniteSet(unacked)
           Inside == \A q \in Queues : requeued[q] \subseteq 1..routed[q]
           Uncounted == \A q \in Queues : consumer[q] = 0 => unackedCount[q] = 0
<1> USE DEF routing, qos, copyVars
<1>0. Finite /\ Inside /\ Uncounted /\ CopyType /\ QosType
  BY DEF RecordsInv, BrokerTypeOK
<1>1. SUFFICES Finite' /\ Inside' /\ Uncounted'
  BY DEF RecordsInv
<1>2. CASE UNCHANGED <<bindings, unacked, requeued, routed, consumer, unackedCount>>
  BY <1>0, <1>2
<1>3. CASE Connect \/ ScanEnd \/ UNCHANGED brokerVars
  BY <1>2, <1>3 DEF Connect, ScanEnd, brokerVars
<1>4. CASE Disconnect
  BY <1>0, <1>4, FS_EmptySet DEF Disconnect
<1>5. ASSUME NEW e, NEW t, DeclareExchange(e, t) PROVE Finite' /\ Inside' /\ Uncounted'
  BY <1>2, <1>5 DEF DeclareExchange
<1>6. ASSUME NEW q, DeclareQueue(q) PROVE Finite' /\ Inside' /\ Uncounted'
  BY <1>2, <1>6 DEF DeclareQueue
<1>7. ASSUME NEW b, BindQueue(b) PROVE Finite' /\ Inside' /\ Uncounted'
  BY <1>0, <1>7, FS_AddElement, ZenonT(60) DEF BindQueue
<1>8. ASSUME NEW b, UnbindQueue(b) PROVE Finite' /\ Inside' /\ Uncounted'
  <2>1. bindings' \subseteq bindings
    BY <1>8 DEF UnbindQueue
  <2> QED BY <1>0, <1>8, <2>1, FS_Subset DEF UnbindQueue
<1>9. ASSUME NEW e, NEW k, Publish(e, k) PROVE Finite' /\ Inside' /\ Uncounted'
  <2>1. ASSUME NEW q \in Queues PROVE requeued'[q] \subseteq 1..routed'[q]
    <3>1. CopiesFor(e, k, q) \in Nat /\ routed[q] \in Nat
      BY <1>0, CopiesForNat DEF CopyType
    <3>2. routed'[q] = routed[q] + CopiesFor(e, k, q) /\ requeued'[q] = requeued[q]
      BY <1>9 DEF Publish
    <3> QED BY <1>0, <3>1, <3>2
  <2> QED BY <1>0, <1>9, <2>1 DEF Publish
<1>10. ASSUME NEW q \in Queues, NEW p, Consume(q, p) PROVE Finite' /\ Inside' /\ Uncounted'
  BY <1>0, <1>10 DEF Consume, QosType
<1>11. ASSUME NEW q \in Queues, CancelConsume(q) PROVE Finite' /\ Inside' /\ Uncounted'
  BY <1>0, <1>11 DEF CancelConsume, QosType
<1>12. ASSUME NEW tag, NEW multiple, Ack(tag, multiple) PROVE Finite' /\ Inside' /\ Uncounted'
  <2>1. unacked' \subseteq unacked
    BY <1>12 DEF Ack
  <2>2. Uncounted'
    BY <1>0, <1>12 DEF Ack, Uncount
  <2> QED BY <1>0, <1>12, <2>1, <2>2, FS_Subset DEF Ack
<1>13. ASSUME NEW tag, NEW multiple, NackRequeue(tag, multiple)
       PROVE  Finite' /\ Inside' /\ Uncounted'
  <2>1. unacked' \subseteq unacked
    BY <1>13 DEF NackRequeue
  <2>2. Uncounted'
    BY <1>0, <1>13 DEF NackRequeue, Uncount
  <2>3. ASSUME NEW q \in Queues PROVE requeued'[q] \subseteq 1..routed'[q]
    <3>1. CopiesOf(Settled(tag, multiple), q) \subseteq CopiesOf(unacked, q)
      BY DEF CopiesOf, Of, Settled
    <3>2. CopiesOf(unacked, q) \subseteq 1..routed[q]
      BY DEF Conserved
    <3>3. requeued'[q] = requeued[q] \cup CopiesOf(Settled(tag, multiple), q) /\ routed'[q] = routed[q]
      BY <1>13 DEF NackRequeue
    <3> QED BY <1>0, <3>1, <3>2, <3>3
  <2> QED BY <1>0, <1>13, <2>1, <2>2, <2>3, FS_Subset DEF NackRequeue
<1>14. ASSUME NEW q \in Queues, NEW rest, NEW limit, NEW to, Pops(q, rest, limit, to)
       PROVE  Finite' /\ Inside' /\ Uncounted'
  <2>1. Finite'
    BY <1>0, <1>14, FS_AddElement DEF Pops, Deliver
  <2>2. Uncounted'
    BY <1>0, <1>14 DEF Pops, Deliver, QosType
  <2> QED BY <1>0, <1>14, <2>1, <2>2 DEF Pops, Deliver
<1> QED
  BY BrokerSteps, <1>3, <1>4, <1>5, <1>6, <1>7, <1>8, <1>9, <1>10, <1>11, <1>12, <1>13, <1>14

(* A queue stays in the order of publication behind what came back.        *)
LEMMA QueueOrderStep ==
    ASSUME BrokerTypeOK, RecordsInv, \A q \in Queues : Conserved(q), QueueOrder,
           [BrokerNext]_brokerVars
    PROVE  QueueOrder'
<1> DEFINE Ordered(s, R) == \A i, j \in 1..Len(s) : i < j =>
                               s[i] \in R \/ (s[j] \notin R /\ s[i] < s[j])
<1> SUFFICES ASSUME NEW r \in Queues PROVE Ordered(queue'[r], requeued'[r])
  BY DEF QueueOrder
<1> DEFINE Goal == Ordered(queue'[r], requeued'[r])
<1> USE DEF routing, qos, copyVars
<1>0. /\ Ordered(queue[r], requeued[r]) /\ CopyType /\ DeliveryType /\ Conserved(r)
      /\ queue[r] \in Seq(1..MaxCopies) /\ routed[r] \in Nat /\ requeued[r] \subseteq 1..routed[r]
      /\ MaxCopies \in Nat
  BY BoundsAssumption DEF BrokerTypeOK, CopyType, QueueOrder, RecordsInv
<1>1. ASSUME UNCHANGED <<queue, requeued>> PROVE Goal
  BY <1>0, <1>1
<1>2. ASSUME Connect \/ ScanEnd \/ UNCHANGED brokerVars PROVE Goal
  BY <1>1, <1>2 DEF Connect, ScanEnd, brokerVars
<1>3. ASSUME Disconnect PROVE Goal
  <2>1. queue'[r] = <<>>
    BY <1>3 DEF Disconnect
  <2> QED BY <2>1
<1>4. ASSUME NEW e, NEW t, DeclareExchange(e, t) PROVE Goal
  BY <1>1, <1>4 DEF DeclareExchange
<1>5. ASSUME NEW q, DeclareQueue(q) \/ CancelConsume(q) PROVE Goal
  BY <1>1, <1>5 DEF DeclareQueue, CancelConsume
<1>6. ASSUME NEW b, BindQueue(b) \/ UnbindQueue(b) PROVE Goal
  BY <1>1, <1>6 DEF BindQueue, UnbindQueue
<1>7. ASSUME NEW e, NEW k, Publish(e, k) PROVE Goal
  <2> DEFINE n == CopiesFor(e, k, r)
             t == [i \in 1..n |-> routed[r] + i]
             s == queue[r]
  <2>1. n \in Nat /\ routed[r] + n <= MaxCopies
    BY <1>7, CopiesForNat DEF Publish, RecordsInv
  <2>2. queue'[r] = s \o t /\ requeued'[r] = requeued[r]
    BY <1>0, <1>7 DEF Publish, CopyType
  <2>3. t \in Seq(1..MaxCopies) /\ Len(t) = n
    <3>1. \A i \in 1..n : routed[r] + i \in 1..MaxCopies
      BY <1>0, <2>1
    <3>2. t \in [1..n -> 1..MaxCopies]
      BY <3>1
    <3> QED BY <2>1, <3>2, SeqOfFunction
  <2>4. \A i \in 1..Len(s) : s[i] \in 1..routed[r]
    BY <1>0 DEF Conserved, Elems
  <2>5. \A i \in 1..n : t[i] = routed[r] + i
    OBVIOUS
  <2> HIDE DEF n, t, s
  <2>6. /\ Len(s \o t) = Len(s) + n /\ Len(s) \in Nat
        /\ \A i \in 1..Len(s) : (s \o t)[i] = s[i]
        /\ \A i \in 1..Len(s \o t) : i \notin 1..Len(s) =>
              i - Len(s) \in 1..n /\ (s \o t)[i] = t[i - Len(s)]
    <3>1. s \in Seq(1..MaxCopies)
      BY <1>0 DEF s
    <3>0. t \in Seq(1..MaxCopies)
      BY <2>3
    <3>2. /\ Len(s \o t) = Len(s) + Len(t) /\ Len(s) \in Nat
          /\ \A i \in 1..Len(s) : (s \o t)[i] = s[i]
          /\ \A i \in 1..Len(s \o t) : i \notin 1..Len(s) =>
                i - Len(s) \in 1..Len(t) /\ (s \o t)[i] = t[i - Len(s)]
      BY <3>0, <3>1, ConcatIndex
    <3>3. Len(t) = n
      BY <2>3
    <3> QED BY <3>2, <3>3
  <2>7. \A i \in 1..Len(s \o t) : i \notin 1..Len(s) =>
              (s \o t)[i] = routed[r] + (i - Len(s)) /\ (s \o t)[i] > routed[r]
    BY <1>0, <2>1, <2>5, <2>6
  <2> SUFFICES ASSUME NEW i \in 1..Len(s \o t), NEW j \in 1..Len(s \o t), i < j
               PROVE  \/ (s \o t)[i] \in requeued[r]
                      \/ (s \o t)[j] \notin requeued[r] /\ (s \o t)[i] < (s \o t)[j]
    BY <2>2
  <2>8. CASE j \in 1..Len(s)
    BY <1>0, <2>6, <2>8 DEF s
  <2>9. CASE j \notin 1..Len(s)
    <3>1. (s \o t)[j] > routed[r] /\ (s \o t)[j] \notin requeued[r]
      BY <1>0, <2>7, <2>9
    <3>2. (s \o t)[i] < (s \o t)[j]
      BY <1>0, <2>1, <2>4, <2>6, <2>7, <2>9, SMTT(60)
    <3> QED BY <3>1, <3>2
  <2> QED BY <2>8, <2>9
<1>8. ASSUME NEW q, NEW p, Consume(q, p) PROVE Goal
  BY <1>1, <1>8 DEF Consume
<1>9. ASSUME NEW tag, NEW multiple, Ack(tag, multiple) PROVE Goal
  BY <1>1, <1>9 DEF Ack
<1>10. ASSUME NEW tag, NEW multiple, NackRequeue(tag, multiple) PROVE Goal
  <2> DEFINE S == Settled(tag, multiple)
             C == CopiesOf(S, r)
             s == queue[r]
  <2>1. PICK front : /\ \A q \in Queues : front[q] \in Listings(CopiesOf(S, q))
                     /\ queue' = [q \in Queues |-> front[q] \o queue[q]]
    BY <1>10 DEF NackRequeue
  <2>2. requeued'[r] = requeued[r] \cup C
    BY <1>10 DEF NackRequeue
  <2>3. C \subseteq CopiesOf(unacked, r)
    BY DEF CopiesOf, Of, Settled
  <2>4. C \subseteq 1..MaxCopies /\ IsFiniteSet(C)
    <3>1. CopiesOf(unacked, r) \subseteq 1..MaxCopies
      BY <1>0 DEF DeliveryType, Delivery, CopiesOf, Of
    <3>2. IsFiniteSet(1..MaxCopies)
      BY <1>0, FS_Interval
    <3> QED BY <2>3, <3>1, <3>2, FS_Subset
  <2>5. \A i \in 1..Len(s) : s[i] \notin C
    BY <1>0, <2>3 DEF Conserved, Elems
  <2> DEFINE f == front[r]
  <2>6. f \in Listings(C) /\ queue'[r] = f \o s
    BY <2>1
  <2> HIDE DEF C, f, s, S
  <2>7. f \in Seq(C) /\ Elems(f) = C
    BY <2>4, <2>6, ListingFacts
  <2>8. /\ Len(f \o s) = Len(f) + Len(s) /\ Len(f) \in Nat /\ Len(s) \in Nat
        /\ \A i \in 1..Len(f) : (f \o s)[i] = f[i] /\ f[i] \in C
        /\ \A i \in 1..Len(f \o s) : i \notin 1..Len(f) =>
              i - Len(f) \in 1..Len(s) /\ (f \o s)[i] = s[i - Len(f)]
    <3>1. f \in Seq(1..MaxCopies)
      BY <2>4, <2>7, SeqWidens
    <3>2. s \in Seq(1..MaxCopies)
      BY <1>0 DEF s
    <3>3. \A i \in 1..Len(f) : f[i] \in C
      BY <2>7 DEF Elems
    <3> QED BY <3>1, <3>2, <3>3, ConcatIndex
  <2> SUFFICES ASSUME NEW i \in 1..Len(f \o s), NEW j \in 1..Len(f \o s), i < j
               PROVE  \/ (f \o s)[i] \in requeued[r] \cup C
                      \/ (f \o s)[j] \notin requeued[r] \cup C /\ (f \o s)[i] < (f \o s)[j]
    BY <2>2, <2>6
  <2>9. CASE i \in 1..Len(f)
    BY <2>8, <2>9
  <2>10. CASE i \notin 1..Len(f)
    <3>1. j \notin 1..Len(f)
      BY <2>8, <2>10
    <3>2. /\ i - Len(f) \in 1..Len(s) /\ j - Len(f) \in 1..Len(s) /\ i - Len(f) < j - Len(f)
          /\ (f \o s)[i] = s[i - Len(f)] /\ (f \o s)[j] = s[j - Len(f)]
      BY <2>8, <2>10, <3>1
    <3> QED BY <1>0, <2>5, <3>2 DEF s
  <2> QED BY <2>9, <2>10
<1>11. ASSUME NEW q \in Queues, NEW rest, NEW limit, NEW to, Pops(q, rest, limit, to)
       PROVE  Goal
  <2>1. requeued'[r] = requeued[r] /\ queue[q] # <<>> /\ queue' = [queue EXCEPT ![q] = Tail(@)]
    BY <1>11 DEF Pops, Deliver
  <2>2. CASE r = q
    <3> DEFINE s == queue[r]
    <3>1. s # <<>> /\ queue'[r] = Tail(s)
      BY <1>0, <2>1, <2>2 DEF CopyType
    <3>2. /\ Len(s) \in Nat \ {0} /\ Len(Tail(s)) = Len(s) - 1
          /\ \A i \in 1..Len(Tail(s)) : Tail(s)[i] = s[i + 1] /\ i + 1 \in 1..Len(s)
      BY <1>0, <3>1
    <3>3. Ordered(s, requeued[r])
      BY <1>0
    <3> HIDE DEF s
    <3>4. ASSUME NEW i \in 1..Len(Tail(s)), NEW j \in 1..Len(Tail(s)), i < j
          PROVE  \/ Tail(s)[i] \in requeued[r]
                 \/ (Tail(s)[j] \notin requeued[r] /\ Tail(s)[i] < Tail(s)[j])
      <4>1. /\ Tail(s)[i] = s[i + 1] /\ Tail(s)[j] = s[j + 1] /\ i + 1 < j + 1
            /\ i + 1 \in 1..Len(s) /\ j + 1 \in 1..Len(s)
        BY <3>2, <3>4
      <4> QED BY <3>3, <4>1
    <3> QED BY <2>1, <3>1, <3>4
  <2>3. CASE r # q
    BY <1>0, <2>1, <2>3 DEF CopyType
  <2> QED BY <2>2, <2>3
<1> QED
  BY BrokerSteps, <1>2, <1>3, <1>4, <1>5, <1>6, <1>7, <1>8, <1>9, <1>10, <1>11

-----------------------------------------------------------------------------
(* boundQueues holds the queues that some binding to the exchange names.   *)
LEMMA BoundQueuesStep ==
    ASSUME BrokerTypeOK, BoundQueuesAgree, [BrokerNext]_brokerVars
    PROVE  BoundQueuesAgree'
<1> DEFINE Named(B, x) == {y.queue : y \in {y \in B : y.exchange = x}}
<1> USE DEF routing, qos, copyVars
<1>0. RoutingType /\ \A x \in Exchanges : boundQs[x] = Named(bindings, x)
  BY DEF BrokerTypeOK, BoundQueuesAgree
<1>1. CASE UNCHANGED <<boundQs, bindings>>
  BY <1>0, <1>1 DEF BoundQueuesAgree
<1>2. CASE Connect \/ ScanEnd \/ UNCHANGED brokerVars
  BY <1>1, <1>2 DEF Connect, ScanEnd, brokerVars
<1>3. CASE Disconnect
  BY <1>3 DEF Disconnect, BoundQueuesAgree
<1>4. ASSUME NEW e, NEW t, DeclareExchange(e, t) PROVE BoundQueuesAgree'
  BY <1>1, <1>4 DEF DeclareExchange
<1>5. ASSUME NEW q, DeclareQueue(q) \/ CancelConsume(q) PROVE BoundQueuesAgree'
  BY <1>1, <1>5 DEF DeclareQueue, CancelConsume
<1>6. ASSUME NEW b \in Binding, BindQueue(b) PROVE BoundQueuesAgree'
  <2>1. PICK i : bindings' = bindings \cup {[place |-> i, queue |-> b.queue,
                                             exchange |-> b.exchange, key |-> b.key]}
    BY <1>6 DEF BindQueue
  <2> DEFINE y == [place |-> i, queue |-> b.queue, exchange |-> b.exchange, key |-> b.key]
  <2>2. y.queue = b.queue /\ y.exchange = b.exchange /\ bindings' = bindings \cup {y}
    BY <2>1
  <2>3. boundQs' = [boundQs EXCEPT ![b.exchange] = @ \cup {b.queue}]
    BY <1>6 DEF BindQueue
  <2> HIDE DEF y
  <2>4. ASSUME NEW x \in Exchanges PROVE boundQs'[x] = Named(bindings', x)
    <3>1. CASE x = b.exchange
      <4>1. boundQs'[x] = boundQs[x] \cup {b.queue}
        BY <1>0, <2>3, <3>1 DEF RoutingType
      <4>2. Named(bindings', x) = Named(bindings, x) \cup {b.queue}
        BY <2>2, <3>1
      <4> QED BY <1>0, <4>1, <4>2
    <3>2. CASE x # b.exchange
      <4>1. boundQs'[x] = boundQs[x]
        BY <1>0, <2>3, <3>2 DEF RoutingType
      <4>2. Named(bindings', x) = Named(bindings, x)
        BY <2>2, <3>2
      <4> QED BY <1>0, <4>1, <4>2
    <3> QED BY <3>1, <3>2
  <2> QED BY <2>4 DEF BoundQueuesAgree
<1>7. ASSUME NEW b \in Binding, UnbindQueue(b) PROVE BoundQueuesAgree'
  <2> DEFINE other == \E x \in bindings' : x.exchange = b.exchange /\ x.queue = b.queue
  <2>1. /\ bindings' = {x \in bindings : ~SameBinding(x, b)}
        /\ boundQs' = [boundQs EXCEPT ![b.exchange] = IF other THEN @ ELSE @ \ {b.queue}]
    BY <1>7 DEF UnbindQueue
  <2>2. \A y \in bindings : y.exchange = b.exchange /\ y.queue # b.queue => y \in bindings'
    BY <2>1 DEF SameBinding
  <2>3. \A y \in bindings : y.exchange # b.exchange => y \in bindings'
    BY <2>1 DEF SameBinding
  <2>4. bindings' \subseteq bindings
    BY <2>1
  <2>5. ASSUME NEW x \in Exchanges PROVE boundQs'[x] = Named(bindings', x)
    <3>1. CASE x = b.exchange /\ other
      <4>1. boundQs'[x] = boundQs[x]
        BY <1>0, <2>1, <3>1 DEF RoutingType
      <4>2. Named(bindings', x) = Named(bindings, x)
        BY <2>2, <2>4, <3>1
      <4> QED BY <1>0, <4>1, <4>2
    <3>2. CASE x = b.exchange /\ ~other
      <4>1. boundQs'[x] = boundQs[x] \ {b.queue}
        BY <1>0, <2>1, <3>2 DEF RoutingType
      <4>2. Named(bindings', x) = Named(bindings, x) \ {b.queue}
        BY <2>2, <2>4, <3>2
      <4> QED BY <1>0, <4>1, <4>2
    <3>3. CASE x # b.exchange
      <4>1. boundQs'[x] = boundQs[x]
        BY <1>0, <2>1, <3>3 DEF RoutingType
      <4>2. Named(bindings', x) = Named(bindings, x)
        BY <2>3, <2>4, <3>3
      <4> QED BY <1>0, <4>1, <4>2
    <3> QED BY <3>1, <3>2, <3>3
  <2> QED BY <2>5 DEF BoundQueuesAgree
<1>8. ASSUME NEW e, NEW k, Publish(e, k) PROVE BoundQueuesAgree'
  BY <1>1, <1>8 DEF Publish
<1>9. ASSUME NEW q, NEW p, Consume(q, p) PROVE BoundQueuesAgree'
  BY <1>1, <1>9 DEF Consume
<1>10. ASSUME NEW tag, NEW multiple, Ack(tag, multiple) \/ NackRequeue(tag, multiple)
       PROVE  BoundQueuesAgree'
  BY <1>1, <1>10 DEF Ack, NackRequeue
<1>11. ASSUME NEW q, NEW rest, NEW limit, NEW to, Pops(q, rest, limit, to) PROVE BoundQueuesAgree'
  BY <1>1, <1>11 DEF Pops, Deliver
<1> QED
  BY BrokerSteps, <1>2, <1>3, <1>4, <1>5, <1>6, <1>7, <1>8, <1>9, <1>10, <1>11

(* A count goes up with a delivery and down with every settlement.         *)
LEMMA NoPhantomStep ==
    ASSUME BrokerTypeOK, RecordsInv, \A q \in Queues : Conserved(q), NoPhantomUnacked,
           [BrokerNext]_brokerVars
    PROVE  NoPhantomUnacked'
<1> SUFFICES ASSUME NEW r \in Queues PROVE unackedCount'[r] <= Cardinality(Of(unacked', r))
  BY DEF NoPhantomUnacked, Of
<1> DEFINE Goal == unackedCount'[r] <= Cardinality(Of(unacked', r))
<1> USE DEF routing, qos, copyVars
<1>0. /\ unackedCount[r] <= Cardinality(Of(unacked, r)) /\ unackedCount \in [Queues -> Nat]
      /\ consumer[r] = 0 => unackedCount[r] = 0
      /\ IsFiniteSet(unacked) /\ Conserved(r)
  BY DEF NoPhantomUnacked, BrokerTypeOK, QosType, RecordsInv
<1>1. IsFiniteSet(Of(unacked, r)) /\ Cardinality(Of(unacked, r)) \in Nat
  <2>1. Of(unacked, r) \subseteq unacked
    BY DEF Of
  <2> QED BY <1>0, <2>1, FS_Subset, FS_CardinalityType
<1>2. ASSUME UNCHANGED <<unackedCount, unacked>> PROVE Goal
  BY <1>0, <1>2
<1>3. ASSUME Connect \/ ScanEnd \/ UNCHANGED brokerVars PROVE Goal
  BY <1>2, <1>3 DEF Connect, ScanEnd, brokerVars
<1>4. ASSUME Disconnect PROVE Goal
  <2>1. unackedCount'[r] = 0 /\ Of(unacked', r) = {}
    BY <1>4 DEF Disconnect, Of
  <2> QED BY <2>1, FS_EmptySet
<1>5. ASSUME NEW e, NEW t, DeclareExchange(e, t) PROVE Goal
  BY <1>2, <1>5 DEF DeclareExchange
<1>6. ASSUME NEW q, DeclareQueue(q) PROVE Goal
  BY <1>2, <1>6 DEF DeclareQueue
<1>7. ASSUME NEW b, BindQueue(b) \/ UnbindQueue(b) PROVE Goal
  BY <1>2, <1>7 DEF BindQueue, UnbindQueue
<1>8. ASSUME NEW e, NEW k, Publish(e, k) PROVE Goal
  BY <1>2, <1>8 DEF Publish
<1>9. ASSUME NEW q \in Queues, NEW p, Consume(q, p) PROVE Goal
  BY <1>0, <1>1, <1>9 DEF Consume
<1>10. ASSUME NEW q \in Queues, CancelConsume(q) PROVE Goal
  BY <1>0, <1>1, <1>10 DEF CancelConsume
<1>11. ASSUME NEW tag, NEW multiple, Ack(tag, multiple) \/ NackRequeue(tag, multiple) PROVE Goal
  <2> DEFINE S == Settled(tag, multiple)
  <2>1. S \subseteq unacked
    BY DEF Settled
  <2>2. unacked' = unacked \ S /\ Uncount(S)
    BY <1>11 DEF Ack, NackRequeue
  <2> HIDE DEF S
  <2>3. Of(unacked', r) = Of(unacked, r) \ Of(S, r) /\ Of(unacked, r) \cap Of(S, r) = Of(S, r)
    BY <2>1, <2>2 DEF Of
  <2>4. Cardinality(Of(unacked', r)) = Cardinality(Of(unacked, r)) - Cardinality(Of(S, r))
    BY <1>1, <2>3, FS_Difference, ZenonT(60)
  <2>5. Cardinality(Of(S, r)) \in Nat /\ Cardinality(Of(S, r)) <= Cardinality(Of(unacked, r))
    <3>1. Of(S, r) \subseteq Of(unacked, r)
      BY <2>1 DEF Of
    <3> QED BY <1>1, <3>1, FS_Subset, FS_CardinalityType
  <2>6. unackedCount'[r] = LET left == unackedCount[r] - Cardinality(Of(S, r))
                           IN  IF consumer[r] = 0 THEN unackedCount[r]
                               ELSE IF left > 0 THEN left ELSE 0
    BY <2>2 DEF Uncount
  <2> QED BY <1>0, <1>1, <2>4, <2>5, <2>6
<1>12. ASSUME NEW q \in Queues, NEW rest, NEW limit, NEW to, Pops(q, rest, limit, to) PROVE Goal
  <2> DEFINE u == [tag |-> nextTag, queue |-> q, copy |-> Head(queue[q]), to |-> to]
  <2>1. /\ unacked' = unacked \cup {u} /\ queue[q] # <<>>
        /\ unackedCount' = [unackedCount EXCEPT ![q] = @ + 1]
    BY <1>12 DEF Pops, Deliver
  <2>2. u.queue = q /\ u.copy = Head(queue[q])
    OBVIOUS
  <2> HIDE DEF u
  <2>3. CASE r = q
    <3>1. Head(queue[r]) \in Elems(queue[r])
      BY <1>0, <2>1, <2>3, TailFacts DEF Conserved, BrokerTypeOK, CopyType
    <3>2. u \notin Of(unacked, r)
      BY <1>0, <2>2, <2>3, <3>1 DEF Conserved, CopiesOf
    <3>3. Of(unacked', r) = Of(unacked, r) \cup {u}
      BY <2>1, <2>2, <2>3 DEF Of
    <3>4. Cardinality(Of(unacked', r)) = Cardinality(Of(unacked, r)) + 1
      BY <1>1, <3>2, <3>3, FS_AddElement
    <3> QED BY <1>0, <1>1, <2>1, <2>3, <3>4
  <2>4. CASE r # q
    <3>1. Of(unacked', r) = Of(unacked, r)
      BY <2>1, <2>2, <2>4 DEF Of
    <3> QED BY <1>0, <2>1, <2>4, <3>1
  <2> QED BY <2>3, <2>4
<1> QED
  BY BrokerSteps, <1>3, <1>4, <1>5, <1>6, <1>7, <1>8, <1>9, <1>10, <1>11, <1>12

(* The inductive invariant of the broker.                                  *)
BrokerInv == BrokerSound /\ RecordsInv

LEMMA BrokerStarts == BrokerInit => BrokerInv
<1> SUFFICES ASSUME BrokerInit PROVE BrokerInv
  OBVIOUS
<1> USE BoundsAssumption DEF BrokerInit
<1>1. RoutingType
  BY DEF RoutingType
<1>2. CopyType
  BY DEF CopyType
<1>3. QosType
  BY DEF QosType
<1>4. DeliveryType /\ ScanType
  BY DEF DeliveryType, ScanType
<1>5. \A q \in Queues : Of(unacked, q) = {} /\ CopiesOf(unacked, q) = {}
  BY DEF Of, CopiesOf
<1>6. Conservation
  BY <1>5, ConservationSplits DEF Conserved, Elems, Once
<1>7. QueueOrder /\ BoundQueuesAgree
  BY DEF QueueOrder, BoundQueuesAgree
<1>8. NoPhantomUnacked
  <2>1. Cardinality({}) = 0
    BY FS_EmptySet
  <2>2. SUFFICES ASSUME NEW q \in Queues
                 PROVE  unackedCount[q] <= Cardinality(Of(unacked, q))
    BY DEF NoPhantomUnacked
  <2>3. Of(unacked, q) = {} /\ unackedCount[q] = 0
    BY <1>5
  <2>4. Cardinality(Of(unacked, q)) = 0
    BY <2>1, <2>3, Zenon
  <2> HIDE DEF BrokerInit
  <2> QED
    BY <2>3, <2>4
<1>9. RecordsInv
  BY FS_EmptySet DEF RecordsInv
<1> QED
  BY <1>1, <1>2, <1>3, <1>4, <1>6, <1>7, <1>8, <1>9 DEF BrokerInv, BrokerSound, BrokerTypeOK

(* For any exchanges, queues, keys and limits, however bindings, consumers *)
(* and acknowledgements of any kind meet the scans of dispatchLoop(): no   *)
(* copy of a message is lost, doubled or overtaken, boundQueues agrees     *)
(* with m_bindings, and no consumer is held back by a delivery that nobody *)
(* can settle (inmemory_amqp_backend.cpp).                                 *)
THEOREM BrokerCorrect == BrokerSpec => []BrokerSound
<1>1. BrokerInit => BrokerInv
  BY BrokerStarts
<1>2. BrokerInv /\ [BrokerNext]_brokerVars => BrokerInv'
  <2> SUFFICES ASSUME BrokerInv, [BrokerNext]_brokerVars PROVE BrokerInv'
    OBVIOUS
  <2>1. BrokerTypeOK /\ RecordsInv /\ \A q \in Queues : Conserved(q)
    BY ConservationSplits DEF BrokerInv, BrokerSound
  <2>2. QueueOrder /\ BoundQueuesAgree /\ NoPhantomUnacked
    BY DEF BrokerInv, BrokerSound
  <2>3. BrokerTypeOK' /\ RecordsInv'
    BY <2>1, BrokerTypeStep, RecordsStep
  <2>4. Conservation'
    <3>1. \A q \in Queues : Conserved(q)'
      BY <2>1, ConservationStep
    <3> QED BY <3>1 DEF Conservation, Conserved, Elems, Once, Waiting
  <2>5. QueueOrder'
    BY <2>1, <2>2, QueueOrderStep
  <2>6. BoundQueuesAgree' /\ NoPhantomUnacked'
    BY <2>1, <2>2, BoundQueuesStep, NoPhantomStep
  <2> QED BY <2>3, <2>4, <2>5, <2>6 DEF BrokerInv, BrokerSound
<1> QED
  BY <1>1, <1>2, PTL DEF BrokerSpec, BrokerInv

-----------------------------------------------------------------------------
(* matchTopicPattern().  What the loop has passed of the pattern covers    *)
(* what it has passed of the key.                                          *)
CoversWord(at, i) ==
    IF pattern[i] = Hash THEN at[i - 1] <= at[i]
    ELSE at[i] = at[i - 1] + 1 /\ pattern[i] \in {Star, key[at[i]]}
Covers(at, n) ==
    /\ at \in [0..n -> 0..Len(key)] /\ at[0] = 0
    /\ \A i \in 1..n : CoversWord(at, i)

EarlyHash == \E i \in 1..(Len(pattern) - 1) : pattern[i] = Hash

TopicTypeOK ==
    /\ pattern \in Seq(Words \cup {Star, Hash}) /\ key \in Seq(Words)
    /\ pi \in 0..Len(pattern) /\ ki \in 0..Len(key) /\ result \in {"open", "yes", "no"}
InStep == EarlyHash \/ (pi = ki /\ \A i \in 1..pi : pattern[i] # Hash)
TopicInv ==
    /\ TopicTypeOK /\ InStep
    /\ \E at : Covers(at, pi) /\ at[pi] = ki
    /\ result = "yes" => Matches(pattern, key)
    /\ result = "no" /\ key # << >> => EarlyHash \/ ~ Matches(pattern, key)

LEMMA MatchesIs ==
    Matches(pattern, key) <=> \E at : Covers(at, Len(pattern)) /\ at[Len(pattern)] = Len(key)
  BY DEF Matches, Covers, CoversWord

LEMMA KeysAre ==
    ASSUME TopicTypeOK
    PROVE  /\ Len(pattern) \in Nat /\ Len(key) \in Nat
           /\ \A i \in 1..Len(pattern) : pattern[i] \in Words \cup {Star, Hash}
           /\ \A i \in 1..Len(key) : key[i] \in Words /\ key[i] # Hash
           /\ pi \in Nat /\ ki \in Nat
  BY WordsAssumption DEF TopicTypeOK

(* What is covered is extended by one word of the pattern.                 *)
LEMMA CoversMore ==
    ASSUME NEW n \in Nat, NEW at, Covers(at, n), NEW e \in 0..Len(key),
           IF pattern[n + 1] = Hash THEN at[n] <= e
           ELSE e = at[n] + 1 /\ pattern[n + 1] \in {Star, key[e]}
    PROVE  \E f : Covers(f, n + 1) /\ f[n + 1] = e
  <1> DEFINE f == [i \in 0..(n + 1) |-> IF i = n + 1 THEN e ELSE at[i]]
  <1>0. at \in [0..n -> 0..Len(key)] /\ at[0] = 0 /\ \A i \in 1..n : CoversWord(at, i)
    BY DEF Covers
  <1>1. \A i : i \in 0..(n + 1) <=> (i \in 0..n \/ i = n + 1)
    OBVIOUS
  <1>2. n + 1 \notin 0..n /\ 0 \in 0..n /\ n \in 0..n /\ (n + 1) - 1 = n /\ n + 1 \in 0..(n + 1)
    OBVIOUS
  <1>3. f[n + 1] = e /\ \A i \in 0..n : f[i] = at[i]
    BY <1>1, <1>2
  <1>4. f \in [0..(n + 1) -> 0..Len(key)]
    BY <1>0, <1>1
  <1>5. \A i : i \in 1..(n + 1) <=> (i \in 1..n \/ i = n + 1)
    OBVIOUS
  <1> HIDE DEF f
  <1>6. CoversWord(f, n + 1)
    BY <1>2, <1>3 DEF CoversWord
  <1>7. ASSUME NEW i \in 1..n PROVE CoversWord(f, i)
    <2>1. i \in 0..n /\ i - 1 \in 0..n
      OBVIOUS
    <2>2. f[i] = at[i] /\ f[i - 1] = at[i - 1]
      BY <1>3, <2>1
    <2> QED BY <1>0, <2>2 DEF CoversWord
  <1>8. f[0] = 0
    BY <1>0, <1>2, <1>3
  <1> QED BY <1>3, <1>4, <1>5, <1>6, <1>7, <1>8 DEF Covers

(* Words other than '#' take one word each.                                *)
LEMMA OneEach ==
    ASSUME NEW m \in Nat, NEW n \in 0..m, NEW at, Covers(at, m), \A i \in 1..n : pattern[i] # Hash
    PROVE  at[n] = n
  <1> DEFINE T == {i \in 0..n : at[i] = i}
  <1>0. n \in Nat /\ at \in [0..m -> 0..Len(key)] /\ at[0] = 0 /\ \A i \in 1..m : CoversWord(at, i)
    BY DEF Covers
  <1>1. 0 \in T
    BY <1>0
  <1>2. ASSUME NEW i \in 0..(n - 1), i \in T PROVE i + 1 \in T
    <2>1. i + 1 \in 1..n /\ i + 1 \in 1..m /\ (i + 1) - 1 = i /\ i + 1 \in 0..n
      BY <1>0
    <2>2. at[i + 1] = at[i] + 1
      BY <1>0, <2>1 DEF CoversWord
    <2>3. at[i] = i
      BY <1>2
    <2> QED BY <2>1, <2>2, <2>3
  <1> HIDE DEF T
  <1>3. \A i \in 0..n : i \in T
    BY <1>0, <1>1, <1>2, InductionUpTo
  <1>4. n \in T
    BY <1>0, <1>3
  <1> QED BY <1>4 DEF T

LEMMA TopicStarts == TopicInit => TopicInv
  <1> SUFFICES ASSUME TopicInit PROVE TopicInv
    OBVIOUS
  <1>1. PICK m \in 0..MaxWords : pattern \in [1..m -> Words \cup {Star, Hash}]
    BY DEF TopicInit, Split
  <1>2. PICK n \in 0..MaxWords : key \in [1..n -> Words]
    BY DEF TopicInit, Split
  <1>3. m \in Nat /\ n \in Nat
    BY MaxWordsAssumption
  <1>4. pattern \in Seq(Words \cup {Star, Hash}) /\ key \in Seq(Words)
    BY <1>1, <1>2, <1>3
  <1>5. pi = 0 /\ ki = 0 /\ result = "open"
    BY DEF TopicInit
  <1>6. TopicTypeOK
    BY <1>4, <1>5 DEF TopicTypeOK
  <1>7. InStep
    BY <1>5 DEF InStep
  <1>8. Covers([i \in 0..0 |-> 0], pi) /\ [i \in 0..0 |-> 0][pi] = ki
    <2>1. Len(key) \in Nat /\ 0 \in 0..Len(key)
      BY <1>6, KeysAre
    <2> QED BY <1>5, <2>1 DEF Covers
  <1> QED BY <1>5, <1>6, <1>7, <1>8 DEF TopicInv

(* An answer is given, or the loop moves on.                               *)
LEMMA TopicReturns ==
    ASSUME TopicInv, NEW yes \in BOOLEAN, Return(yes), yes => Matches(pattern, key),
           ~ yes /\ key # << >> => EarlyHash \/ ~ Matches(pattern, key)
    PROVE  TopicInv'
  <1>1. pattern' = pattern /\ key' = key /\ pi' = pi /\ ki' = ki /\ result' = IF yes THEN "yes" ELSE "no"
    BY DEF Return, args
  <1>2. /\ TopicTypeOK /\ InStep
        /\ \E at : Covers(at, pi) /\ at[pi] = ki
    BY DEF TopicInv
  <1>3. TopicTypeOK'
    BY <1>1, <1>2 DEF TopicTypeOK
  <1>4. InStep' /\ EarlyHash' = EarlyHash
    BY <1>1, <1>2 DEF InStep, EarlyHash
  <1>5. (\E at : Covers(at, pi) /\ at[pi] = ki)'
    BY <1>1, <1>2 DEF Covers, CoversWord
  <1>6. Matches(pattern, key)' <=> Matches(pattern, key)
    BY <1>1 DEF Matches
  <1>7. result' = "yes" => yes
    BY <1>1
  <1>8. result' = "no" => ~ yes
    BY <1>1
  <1> QED BY <1>1, <1>3, <1>4, <1>5, <1>6, <1>7, <1>8 DEF TopicInv

LEMMA TopicMoves ==
    ASSUME TopicInv, UNCHANGED <<args, result>>, result = "open",
           pi' \in 0..Len(pattern), ki' \in 0..Len(key),
           EarlyHash \/ (pi' = ki' /\ \A i \in 1..pi' : pattern[i] # Hash),
           \E at : Covers(at, pi') /\ at[pi'] = ki'
    PROVE  TopicInv'
  <1>1. pattern' = pattern /\ key' = key /\ result' = "open"
    BY DEF args
  <1>2. TopicTypeOK'
    BY <1>1 DEF TopicInv, TopicTypeOK
  <1>3. InStep'
    BY <1>1 DEF InStep, EarlyHash
  <1>4. (\E at : Covers(at, pi) /\ at[pi] = ki)'
    <2>1. \A at : Covers(at, pi)' <=> Covers(at, pi')
      BY <1>1 DEF Covers, CoversWord
    <2> QED BY <2>1
  <1> QED BY <1>1, <1>2, <1>3, <1>4 DEF TopicInv

LEMMA TopicStays == ASSUME TopicInv, [TopicNext]_topicVars PROVE TopicInv'
  <1>0. /\ TopicTypeOK /\ InStep
        /\ result = "yes" => Matches(pattern, key)
        /\ result = "no" /\ key # << >> => EarlyHash \/ ~ Matches(pattern, key)
    BY DEF TopicInv
  <1>1. /\ Len(pattern) \in Nat /\ Len(key) \in Nat
        /\ \A i \in 1..Len(pattern) : pattern[i] \in Words \cup {Star, Hash}
        /\ \A i \in 1..Len(key) : key[i] \in Words /\ key[i] # Hash
        /\ pi \in 0..Len(pattern) /\ ki \in 0..Len(key) /\ pi \in Nat /\ ki \in Nat
    BY <1>0, KeysAre DEF TopicTypeOK
  <1>2. PICK at : Covers(at, pi) /\ at[pi] = ki
    BY DEF TopicInv
  <1>3. CASE UNCHANGED topicVars
    <2>1. pattern' = pattern /\ key' = key /\ pi' = pi /\ ki' = ki /\ result' = result
      BY <1>3 DEF topicVars, args
    <2>2. TopicTypeOK' /\ InStep' /\ (EarlyHash' <=> EarlyHash)
      BY <1>0, <2>1 DEF TopicTypeOK, InStep, EarlyHash
    <2>3. Covers(at, pi)' /\ (at[pi] = ki)'
      BY <1>2, <2>1 DEF Covers, CoversWord
    <2>4. Matches(pattern, key)' <=> Matches(pattern, key)
      BY <2>1 DEF Matches
    <2> QED BY <1>0, <2>1, <2>2, <2>3, <2>4 DEF TopicInv
  <1>4. CASE Shortcut
    <2>1. (pattern = key) \in BOOLEAN /\ Return(pattern = key)
      BY <1>4 DEF Shortcut
    <2>2. ASSUME pattern = key PROVE Matches(pattern, key)
      <3> DEFINE f == [i \in 0..Len(pattern) |-> i]
      <3>1. f \in [0..Len(pattern) -> 0..Len(key)] /\ f[0] = 0 /\ f[Len(pattern)] = Len(key)
        BY <1>1, <2>2
      <3>2. ASSUME NEW i \in 1..Len(pattern) PROVE CoversWord(f, i)
        <4>1. i \in 0..Len(pattern) /\ i - 1 \in 0..Len(pattern) /\ i = (i - 1) + 1
          BY <1>1
        <4>2. f[i] = i /\ f[i - 1] = i - 1
          BY <4>1
        <4>3. key[i] = pattern[i] /\ pattern[i] # Hash
          BY <1>1, <2>2
        <4> HIDE DEF f
        <4> QED BY <4>1, <4>2, <4>3 DEF CoversWord
      <3> HIDE DEF f
      <3> QED BY <3>1, <3>2, MatchesIs DEF Covers
    <2>3. ASSUME pattern # key, key # << >> PROVE ~ Matches(pattern, key)
      <3>1. pattern = << >>
        BY <1>4, <2>3 DEF Shortcut, Trivial
      <3>2. Len(pattern) = 0 /\ Len(key) # 0
        BY <1>0, <2>3, <3>1 DEF TopicTypeOK
      <3>3. ASSUME NEW f, Covers(f, Len(pattern)), f[Len(pattern)] = Len(key) PROVE FALSE
        BY <3>2, <3>3 DEF Covers
      <3> QED BY <3>3, MatchesIs
    <2> QED BY <2>1, <2>2, <2>3, TopicReturns
  <1>5. ASSUME InLoop
        PROVE  /\ result = "open" /\ pi + 1 \in 1..Len(pattern) /\ ki + 1 \in 1..Len(key)
               /\ pi + 1 \in 0..Len(pattern) /\ ki + 1 \in 0..Len(key) /\ P = pattern[pi + 1]
    BY <1>1, <1>5 DEF InLoop, P
  <1>6. CASE HashLast
    <2>0. Return(TRUE) /\ InLoop /\ P = Hash /\ pi = Len(pattern) - 1
      BY <1>6 DEF HashLast
    <2>a. pi + 1 = Len(pattern)
      BY <1>1, <2>0
    <2>1. Return(TRUE) /\ InLoop /\ P = Hash /\ pi + 1 = Len(pattern)
      BY <2>0, <2>a, Zenon
    <2>2. Len(key) \in 0..Len(key) /\ at[pi] <= Len(key) /\ pattern[pi + 1] = Hash
      BY <1>1, <1>2, <1>5, <2>1
    <2>3. \E f : Covers(f, pi + 1) /\ f[pi + 1] = Len(key)
      BY <1>1, <1>2, <2>2, CoversMore
    <2>4. Matches(pattern, key)
      BY <2>1, <2>3, MatchesIs
    <2> QED BY <2>1, <2>4, TopicReturns
  <1>7. CASE HashFind
    <2>1. /\ InLoop /\ P = Hash /\ pi < Len(pattern) - 1 /\ UNCHANGED <<args, result>> /\ pi' = pi + 1
      BY <1>7 DEF HashFind
    <2>2. PICK k \in Later : ki' = k + 1
      BY <1>7 DEF HashFind
    <2>3. k \in ki..(Len(key) - 1)
      BY DEF Later
    <2>4. ki' \in 0..Len(key) /\ at[pi] <= ki' /\ pattern[pi + 1] = Hash
      BY <1>1, <1>2, <1>5, <2>1, <2>2, <2>3
    <2>5. \E f : Covers(f, pi + 1) /\ f[pi + 1] = ki'
      BY <1>1, <1>2, <2>4, CoversMore
    <2>6. EarlyHash
      <3>1. pi + 1 \in 1..(Len(pattern) - 1)
        BY <1>1, <2>1
      <3> QED BY <2>4, <3>1 DEF EarlyHash
    <2>7. pi' \in 0..Len(pattern)
      BY <1>5, <2>1
    <2>8. \E f : Covers(f, pi') /\ f[pi'] = ki'
      BY <2>1, <2>5
    <2> QED BY <1>5, <2>1, <2>4, <2>6, <2>7, <2>8, TopicMoves
  <1>8. CASE HashMiss
    <2>1. /\ InLoop /\ P = Hash /\ pi < Len(pattern) - 1 /\ Return(FALSE)
      BY <1>8 DEF HashMiss
    <2>2. pi + 1 \in 1..(Len(pattern) - 1) /\ pattern[pi + 1] = Hash
      BY <1>1, <1>5, <2>1
    <2>3. EarlyHash
      BY <2>2 DEF EarlyHash
    <2> QED BY <2>1, <2>3, TopicReturns
  <1>9. CASE OneWord
    <2>1. /\ InLoop /\ P # Hash /\ (P = Star \/ P = key[ki + 1])
          /\ pi' = pi + 1 /\ ki' = ki + 1 /\ UNCHANGED <<args, result>>
      BY <1>9 DEF OneWord
    <2>2. /\ pattern[pi + 1] # Hash /\ pattern[pi + 1] \in {Star, key[ki + 1]} /\ ki + 1 = at[pi] + 1
          /\ ki + 1 \in 0..Len(key)
      BY <1>2, <1>5, <2>1
    <2>3. \E f : Covers(f, pi + 1) /\ f[pi + 1] = ki + 1
      BY <1>1, <1>2, <2>2, CoversMore
    <2>4. EarlyHash \/ (pi' = ki' /\ \A i \in 1..pi' : pattern[i] # Hash)
      <3>1. \A i \in 1..(pi + 1) : i \in 1..pi \/ i = pi + 1
        BY <1>1
      <3> QED BY <1>0, <2>1, <2>2, <3>1 DEF InStep
    <2>5. pi' \in 0..Len(pattern) /\ ki' \in 0..Len(key)
      BY <1>5, <2>1
    <2>6. \E f : Covers(f, pi') /\ f[pi'] = ki'
      BY <2>1, <2>3
    <2> QED BY <1>5, <2>1, <2>4, <2>5, <2>6, TopicMoves
  <1>10. ASSUME ~ EarlyHash, pi < Len(pattern), pattern[pi + 1] # Hash,
                NEW f, Covers(f, Len(pattern))
         PROVE  f[pi + 1] = pi + 1 /\ pi = ki /\ CoversWord(f, pi + 1) /\ f[pi + 1] \in 0..Len(key)
    <2>1. pi = ki /\ \A i \in 1..pi : pattern[i] # Hash
      BY <1>0, <1>10 DEF InStep
    <2>2. pi + 1 \in 0..Len(pattern) /\ pi + 1 \in 1..Len(pattern) /\ \A i \in 1..(pi + 1) : i \in 1..pi \/ i = pi + 1
      BY <1>1, <1>10
    <2>3. \A i \in 1..(pi + 1) : pattern[i] # Hash
      BY <1>10, <2>1, <2>2
    <2>4. f[pi + 1] = pi + 1
      BY <1>1, <1>10, <2>2, <2>3, OneEach
    <2> QED BY <1>10, <2>1, <2>2, <2>4 DEF Covers
  <1>11. CASE Mismatch
    <2>1. InLoop /\ P \notin {Hash, Star, key[ki + 1]} /\ Return(FALSE)
      BY <1>11 DEF Mismatch
    <2>2. ASSUME ~ EarlyHash, Matches(pattern, key) PROVE FALSE
      <3>1. PICK f : Covers(f, Len(pattern))
        BY <2>2, MatchesIs
      <3>2. pattern[pi + 1] \notin {Hash, Star, key[ki + 1]} /\ pi < Len(pattern)
        BY <1>5, <2>1 DEF InLoop
      <3>3. f[pi + 1] = pi + 1 /\ pi = ki /\ CoversWord(f, pi + 1)
        BY <1>10, <2>2, <3>1, <3>2
      <3> QED BY <3>2, <3>3 DEF CoversWord
    <2> QED BY <2>1, <2>2, TopicReturns
  <1>12. CASE AfterLoop
    <2> DEFINE end == IF pi < Len(pattern) /\ pattern[pi + 1] = Hash THEN pi + 1 ELSE pi
               yes == end = Len(pattern) /\ ki = Len(key)
    <2>1. result = "open" /\ ~ Trivial /\ ~ InLoop /\ Return(yes) /\ yes \in BOOLEAN
      BY <1>12 DEF AfterLoop
    <2>2. ~ (pi < Len(pattern) /\ ki < Len(key))
      BY <2>1 DEF InLoop
    <2>3. ASSUME yes PROVE Matches(pattern, key)
      <3>1. CASE pi < Len(pattern) /\ pattern[pi + 1] = Hash
        <4>1. pi + 1 = Len(pattern) /\ ki = Len(key) /\ at[pi] <= Len(key) /\ Len(key) \in 0..Len(key)
          BY <1>1, <1>2, <2>3, <3>1
        <4>2. \E f : Covers(f, pi + 1) /\ f[pi + 1] = Len(key)
          BY <1>1, <1>2, <3>1, <4>1, CoversMore
        <4> QED BY <4>1, <4>2, MatchesIs
      <3>2. CASE ~ (pi < Len(pattern) /\ pattern[pi + 1] = Hash)
        <4>1. pi = Len(pattern) /\ ki = Len(key)
          BY <2>3, <3>2
        <4> QED BY <1>2, <4>1, MatchesIs
      <3> QED BY <3>1, <3>2
    <2>4. ASSUME ~ yes, ~ EarlyHash, Matches(pattern, key) PROVE FALSE
      <3>1. PICK f : Covers(f, Len(pattern)) /\ f[Len(pattern)] = Len(key)
        BY <2>4, MatchesIs
      <3>2. CASE pi < Len(pattern)
        <4>1. ki = Len(key)
          BY <1>1, <2>2, <3>2
        <4>2. pattern[pi + 1] # Hash
          <5> SUFFICES ASSUME pattern[pi + 1] = Hash PROVE FALSE
            OBVIOUS
          <5>1. pi + 1 # Len(pattern)
            BY <2>4, <3>2, <4>1
          <5>2. pi + 1 \in 1..(Len(pattern) - 1)
            BY <1>1, <3>2, <5>1
          <5> QED BY <2>4, <5>2 DEF EarlyHash
        <4>3. f[pi + 1] = pi + 1 /\ pi = ki /\ f[pi + 1] \in 0..Len(key)
          BY <1>10, <2>4, <3>1, <3>2, <4>2
        <4> QED BY <1>1, <4>1, <4>3
      <3>3. CASE ~ (pi < Len(pattern))
        <4>1. pi = Len(pattern) /\ ki # Len(key)
          BY <1>1, <2>4, <3>3
        <4>2. pi = ki /\ \A i \in 1..pi : pattern[i] # Hash
          BY <1>0, <2>4 DEF InStep
        <4>3. f[pi] = pi
          BY <1>1, <3>1, <4>1, <4>2, OneEach
        <4> QED BY <3>1, <4>1, <4>2, <4>3
      <3> QED BY <3>2, <3>3
    <2> HIDE DEF yes
    <2> QED BY <2>1, <2>3, <2>4, TopicReturns
  <1> QED BY <1>3, <1>4, <1>6, <1>7, <1>8, <1>9, <1>11, <1>12 DEF TopicNext

(* The word after a '#' that the loop is past was found, and then matched  *)
(* again.                                                                  *)
Doubled(i) == \E k \in 1..(Len(key) - 1) : key[k] = pattern[i + 1] /\ key[k + 1] = pattern[i + 1]
HashesPast(n) == \A i \in 1..n : pattern[i] = Hash => Doubled(i)
HashInv ==
    /\ HashesPast(pi - 1)
    /\ pi >= 1 /\ pi < Len(pattern) /\ pattern[pi] = Hash => ki >= 1 /\ key[ki] = pattern[pi + 1]
    /\ result = "yes" => HashesPast(Len(pattern) - 1)

LEMMA HashStarts == TopicInit => HashInv
  BY DEF TopicInit, HashInv, HashesPast

(* An answer is given.                                                     *)
LEMMA HashReturns ==
    ASSUME TopicInv, HashInv, NEW yes \in BOOLEAN, Return(yes), yes => HashesPast(Len(pattern) - 1)
    PROVE  HashInv'
  <1>1. pattern' = pattern /\ key' = key /\ pi' = pi /\ ki' = ki
    BY DEF Return, args
  <1>2. result' = "yes" => yes
    BY DEF Return
  <1>3. \A n : HashesPast(n)' <=> HashesPast(n)
    BY <1>1 DEF HashesPast, Doubled
  <1>4. HashesPast(pi - 1)'
    BY <1>1, <1>3 DEF HashInv
  <1>5. (result = "yes" => HashesPast(Len(pattern) - 1))'
    BY <1>1, <1>2, <1>3
  <1>6. (pi >= 1 /\ pi < Len(pattern) /\ pattern[pi] = Hash => ki >= 1 /\ key[ki] = pattern[pi + 1])'
    BY <1>1 DEF HashInv
  <1> QED BY <1>4, <1>5, <1>6 DEF HashInv

LEMMA HashStays == ASSUME TopicInv, HashInv, [TopicNext]_topicVars PROVE HashInv'
  <1>0. /\ TopicTypeOK
        /\ HashesPast(pi - 1)
        /\ pi >= 1 /\ pi < Len(pattern) /\ pattern[pi] = Hash => ki >= 1 /\ key[ki] = pattern[pi + 1]
        /\ result = "yes" => HashesPast(Len(pattern) - 1)
    BY DEF TopicInv, HashInv
  <1>1. /\ Len(pattern) \in Nat /\ Len(key) \in Nat
        /\ \A i \in 1..Len(key) : key[i] \in Words /\ key[i] # Hash /\ key[i] # Star
        /\ pi \in 0..Len(pattern) /\ ki \in 0..Len(key) /\ pi \in Nat /\ ki \in Nat
    BY <1>0, KeysAre, WordsAssumption DEF TopicTypeOK
  <1>2. ASSUME pi < Len(pattern), pattern[pi + 1] = Hash PROVE HashesPast(pi)
    <2>1. ASSUME pi >= 1, pattern[pi] = Hash PROVE FALSE
      <3>1. ki \in 1..Len(key) /\ key[ki] = Hash
        BY <1>0, <1>1, <1>2, <2>1
      <3> QED BY <1>1, <3>1
    <2>2. \A i \in 1..pi : i \in 1..(pi - 1) \/ (i = pi /\ pi >= 1)
      BY <1>1
    <2> QED BY <1>0, <2>1, <2>2 DEF HashesPast
  <1>3. CASE UNCHANGED topicVars
    <2>1. pattern' = pattern /\ key' = key /\ pi' = pi /\ ki' = ki /\ result' = result
      BY <1>3 DEF topicVars, args
    <2>2. \A n : HashesPast(n)' <=> HashesPast(n)
      BY <2>1 DEF HashesPast, Doubled
    <2> QED BY <1>0, <2>1, <2>2 DEF HashInv
  <1>4. CASE Shortcut
    <2>1. (pattern = key) \in BOOLEAN /\ Return(pattern = key)
      BY <1>4 DEF Shortcut
    <2>2. ASSUME pattern = key PROVE HashesPast(Len(pattern) - 1)
      <3>1. \A i \in 1..(Len(pattern) - 1) : pattern[i] # Hash
        BY <1>1, <2>2
      <3> QED BY <3>1 DEF HashesPast
    <2> QED BY <2>1, <2>2, HashReturns
  <1>5. CASE HashLast
    <2>1. InLoop /\ P = Hash /\ pi = Len(pattern) - 1 /\ Return(TRUE)
      BY <1>5 DEF HashLast
    <2>2. pi < Len(pattern) /\ pattern[pi + 1] = Hash
      BY <2>1 DEF InLoop, P
    <2>3. HashesPast(Len(pattern) - 1)
      BY <1>2, <2>1, <2>2
    <2> QED BY <2>1, <2>3, HashReturns
  <1>6. CASE HashFind
    <2>1. /\ InLoop /\ P = Hash /\ pi < Len(pattern) - 1 /\ pi' = pi + 1
          /\ pattern' = pattern /\ key' = key /\ result' = result
      BY <1>6 DEF HashFind, args
    <2>2. PICK k \in Later : ki' = k + 1
      BY <1>6 DEF HashFind
    <2>3. k \in ki..(Len(key) - 1) /\ key[k + 1] = pattern[pi + 2]
      BY DEF Later
    <2>4. pi < Len(pattern) /\ pattern[pi + 1] = Hash /\ result = "open"
      BY <2>1 DEF InLoop, P
    <2>5. HashesPast(pi)
      BY <1>2, <2>4
    <2>6. \A n : HashesPast(n)' <=> HashesPast(n)
      BY <2>1 DEF HashesPast, Doubled
    <2>7. HashesPast(pi' - 1)
      <3>1. pi' - 1 = pi
        BY <1>1, <2>1
      <3> QED BY <2>5, <3>1
    <2>8. ki' >= 1 /\ key'[ki'] = pattern'[pi' + 1]
      <3>1. pi' + 1 = pi + 2 /\ ki' = k + 1 /\ k + 1 >= 1
        BY <1>1, <2>1, <2>2, <2>3
      <3> QED BY <2>1, <2>3, <3>1
    <2>9. result' # "yes"
      BY <2>1, <2>4
    <2>10. HashesPast(pi - 1)'
      BY <2>6, <2>7 DEF HashesPast, Doubled
    <2> QED BY <2>8, <2>9, <2>10 DEF HashInv
  <1>7. CASE HashMiss
    <2>1. Return(FALSE)
      BY <1>7 DEF HashMiss
    <2> QED BY <2>1, HashReturns
  <1>8. CASE OneWord
    <2>1. /\ InLoop /\ P # Hash /\ (P = Star \/ P = key[ki + 1])
          /\ pi' = pi + 1 /\ ki' = ki + 1 /\ pattern' = pattern /\ key' = key /\ result' = result
      BY <1>8 DEF OneWord, args
    <2>2. /\ pi < Len(pattern) /\ ki < Len(key) /\ pattern[pi + 1] # Hash /\ result = "open"
          /\ (pattern[pi + 1] = Star \/ pattern[pi + 1] = key[ki + 1])
      BY <2>1 DEF InLoop, P
    <2>3. ASSUME pi >= 1, pattern[pi] = Hash PROVE Doubled(pi)
      <3>1. ki \in 1..(Len(key) - 1) /\ key[ki] = pattern[pi + 1]
        BY <1>0, <1>1, <2>2, <2>3
      <3>2. ki \in 1..Len(key)
        BY <1>1, <3>1
      <3>3. key[ki + 1] = pattern[pi + 1]
        BY <1>1, <2>2, <3>1, <3>2
      <3> QED BY <3>1, <3>3 DEF Doubled
    <2>4. HashesPast(pi)
      <3>1. \A i \in 1..pi : i \in 1..(pi - 1) \/ (i = pi /\ pi >= 1)
        BY <1>1
      <3> QED BY <1>0, <2>3, <3>1 DEF HashesPast
    <2>5. HashesPast(pi - 1)'
      <3>1. pi' - 1 = pi
        BY <1>1, <2>1
      <3> QED BY <2>1, <2>4, <3>1 DEF HashesPast, Doubled
    <2>6. pattern'[pi'] # Hash /\ result' # "yes"
      BY <2>1, <2>2
    <2> QED BY <2>5, <2>6 DEF HashInv
  <1>9. CASE Mismatch
    <2>1. Return(FALSE)
      BY <1>9 DEF Mismatch
    <2> QED BY <2>1, HashReturns
  <1>10. CASE AfterLoop
    <2> DEFINE end == IF pi < Len(pattern) /\ pattern[pi + 1] = Hash THEN pi + 1 ELSE pi
               yes == end = Len(pattern) /\ ki = Len(key)
    <2>1. Return(yes) /\ yes \in BOOLEAN
      BY <1>10 DEF AfterLoop
    <2>2. ASSUME yes PROVE HashesPast(Len(pattern) - 1)
      <3>1. CASE pi < Len(pattern) /\ pattern[pi + 1] = Hash
        <4>1. Len(pattern) - 1 = pi
          BY <1>1, <2>2, <3>1
        <4> QED BY <1>2, <3>1, <4>1
      <3>2. CASE ~ (pi < Len(pattern) /\ pattern[pi + 1] = Hash)
        <4>1. pi = Len(pattern)
          BY <2>2, <3>2
        <4> QED BY <1>0, <4>1
      <3> QED BY <3>1, <3>2
    <2> HIDE DEF yes
    <2> QED BY <2>1, <2>2, HashReturns
  <1> QED BY <1>3, <1>4, <1>5, <1>6, <1>7, <1>8, <1>9, <1>10 DEF TopicNext

LEMMA HashAnswers == HashInv => EarlyHashNarrows
  BY DEF HashInv, HashesPast, Doubled, EarlyHashNarrows

LEMMA TopicAnswers == TopicInv => NoFalseMatch /\ ExactForTrailingHash
  <1> SUFFICES ASSUME TopicInv PROVE NoFalseMatch /\ ExactForTrailingHash
    OBVIOUS
  <1>1. (result = "yes" => Matches(pattern, key)) /\ (result = "no" /\ key # << >> => EarlyHash \/ ~ Matches(pattern, key))
    BY DEF TopicInv
  <1>2. result \in {"open", "yes", "no"}
    BY DEF TopicInv, TopicTypeOK
  <1> QED BY <1>1, <1>2 DEF NoFalseMatch, ExactForTrailingHash, EarlyHash

-----------------------------------------------------------------------------
(* The channel.  Tags grow, and a cancel that the broker has answered is   *)
(* of a consumer the broker does not know any more.                        *)
OpKinds == {"ask", "cancel", "declare", "bind"}
PendingOp == [op : OpKinds, queue : ChQueues, tag : Nat, topic : ChTopics \cup {NoQueue},
              answer : {"none", "ok", "error"}]
OpOK(p, last, reg) ==
    p.op = "cancel" => /\ p.tag <= last[p.queue]
                       /\ p.answer = "ok" => <<p.queue, p.tag>> \notin reg
PendingsOK(ops, last, reg) ==
    ops \in Seq(PendingOp) /\ \A i \in 1..Len(ops) : OpOK(ops[i], last, reg)
TagsOK(cons, last, reg) ==
    /\ cons \in [ChQueues -> Nat] /\ last \in [ChQueues -> Nat]
    /\ \A q \in ChQueues : /\ cons[q] <= last[q]
                           /\ <<q, last[q]>> \in reg => cons[q] = last[q]
TagsInv ==
    /\ TagsOK(consumers, lastTag, registered) /\ PendingsOK(pendingOps, lastTag, registered)
    /\ subscriptions \in [ChTopics -> ChQueues \cup {NoQueue}]

LEMMA FrontIs ==
    ASSUME NEW S, NEW s \in Seq(S), s # << >>
    PROVE  /\ Len(s) \in 1..Len(s) /\ Len(s) \in Nat
           /\ Front(s) \in Seq(S) /\ Len(Front(s)) = Len(s) - 1
           /\ \A i \in 1..(Len(s) - 1) : Front(s)[i] = s[i] /\ i \in 1..Len(s)
  <1>1. Len(s) \in Nat /\ Len(s) # 0
    OBVIOUS
  <1> DEFINE n == Len(s) - 1
  <1>2. n \in Nat /\ n <= Len(s) /\ Len(s) \in 1..Len(s) /\ \A i \in 1..n : i \in 1..Len(s)
    BY <1>1
  <1>3. Front(s) = SubSeq(s, 1, n)
    BY DEF Front
  <1> HIDE DEF n
  <1>4. SubSeq(s, 1, n) \in Seq(S) /\ Len(SubSeq(s, 1, n)) = n /\ \A i \in 1..n : SubSeq(s, 1, n)[i] = s[i]
    BY <1>2
  <1> QED BY <1>1, <1>2, <1>3, <1>4 DEF n

LEMMA PendingsFront ==
    ASSUME NEW ops, NEW last, NEW reg, PendingsOK(ops, last, reg), ops # << >>
    PROVE  /\ PendingsOK(Front(ops), last, reg)
           /\ ops[Len(ops)] \in PendingOp /\ OpOK(ops[Len(ops)], last, reg)
  BY FrontIs DEF PendingsOK

LEMMA PendingsAppend ==
    ASSUME NEW ops, NEW last, NEW reg, PendingsOK(ops, last, reg), NEW p \in PendingOp, OpOK(p, last, reg)
    PROVE  PendingsOK(Append(ops, p), last, reg)
  <1> DEFINE s == Append(ops, p)
             n == Len(ops)
  <1>1. ops \in Seq(PendingOp) /\ n \in Nat
    BY DEF PendingsOK
  <1>2. s \in Seq(PendingOp) /\ Len(s) = n + 1 /\ s[n + 1] = p /\ \A i \in 1..n : s[i] = ops[i]
    BY <1>1
  <1>3. \A i \in 1..(n + 1) : i \in 1..n \/ i = n + 1
    BY <1>1
  <1> HIDE DEF s
  <1>4. \A i \in 1..(n + 1) : OpOK(s[i], last, reg)
    BY <1>2, <1>3 DEF PendingsOK
  <1>5. PendingsOK(s, last, reg)
    BY <1>2, <1>4 DEF PendingsOK
  <1> QED BY <1>5 DEF s

(* More tags, and registered only with them.                               *)
LEMMA PendingsLater ==
    ASSUME NEW ops, NEW last \in [ChQueues -> Nat], NEW reg, PendingsOK(ops, last, reg),
           NEW last2 \in [ChQueues -> Nat], NEW reg2,
           \A q \in ChQueues : last[q] <= last2[q],
           \A q \in ChQueues, t \in Nat : <<q, t>> \in reg2 => <<q, t>> \in reg \/ t > last[q]
    PROVE  PendingsOK(ops, last2, reg2)
  <1>1. ops \in Seq(PendingOp)
    BY DEF PendingsOK
  <1>2. ASSUME NEW i \in 1..Len(ops) PROVE OpOK(ops[i], last2, reg2)
    <2> DEFINE p == ops[i]
    <2>1. OpOK(p, last, reg) /\ p \in PendingOp
      BY <1>1 DEF PendingsOK
    <2>2. p.queue \in ChQueues /\ p.tag \in Nat
      BY <2>1 DEF PendingOp, OpKinds
    <2> HIDE DEF p
    <2>3. last[p.queue] \in Nat /\ last2[p.queue] \in Nat /\ last[p.queue] <= last2[p.queue]
      BY <2>2
    <2>4. ASSUME p.op = "cancel" PROVE p.tag <= last2[p.queue]
      <3>1. p.tag <= last[p.queue]
        BY <2>1, <2>4 DEF OpOK
      <3> QED BY <2>2, <2>3, <3>1
    <2>5. ASSUME p.op = "cancel", p.answer = "ok" PROVE <<p.queue, p.tag>> \notin reg2
      <3>1. <<p.queue, p.tag>> \notin reg /\ p.tag <= last[p.queue]
        BY <2>1, <2>5 DEF OpOK
      <3>2. ~ (p.tag > last[p.queue])
        BY <2>2, <2>3, <3>1
      <3> QED BY <2>2, <3>1, <3>2
    <2>6. OpOK(p, last2, reg2)
      BY <2>4, <2>5 DEF OpOK
    <2> QED BY <2>6 DEF p
  <1> QED BY <1>1, <1>2 DEF PendingsOK

LEMMA Registers ==
    ASSUME TagsOK(consumers, lastTag, registered), NEW q \in ChQueues, Register(q)
    PROVE  /\ TagsOK(consumers', lastTag', registered')
           /\ \A ops : PendingsOK(ops, lastTag, registered) => PendingsOK(ops, lastTag', registered')
  <1> DEFINE n == lastTag[q] + 1
  <1>1. /\ consumers \in [ChQueues -> Nat] /\ lastTag \in [ChQueues -> Nat]
        /\ \A r \in ChQueues : /\ consumers[r] <= lastTag[r]
                               /\ <<r, lastTag[r]>> \in registered => consumers[r] = lastTag[r]
    BY DEF TagsOK
  <1>2. n \in Nat /\ n > lastTag[q] /\ lastTag[q] \in Nat
    BY <1>1
  <1>3. /\ lastTag' = [lastTag EXCEPT ![q] = n] /\ consumers' = [consumers EXCEPT ![q] = n]
        /\ registered' = registered \cup {<<q, n>>}
    BY DEF Register
  <1> HIDE DEF n
  <1>4. /\ lastTag' \in [ChQueues -> Nat] /\ consumers' \in [ChQueues -> Nat]
        /\ lastTag'[q] = n /\ consumers'[q] = n
        /\ \A r \in ChQueues : r # q => lastTag'[r] = lastTag[r] /\ consumers'[r] = consumers[r]
    BY <1>1, <1>2, <1>3
  <1>5. \A r, t : <<r, t>> \in registered' <=> (<<r, t>> \in registered \/ (r = q /\ t = n))
    BY <1>3
  <1>6. ASSUME NEW r \in ChQueues
        PROVE  consumers'[r] <= lastTag'[r] /\ (<<r, lastTag'[r]>> \in registered' => consumers'[r] = lastTag'[r])
    <2>1. CASE r = q
      BY <1>2, <1>4, <2>1
    <2>2. CASE r # q
      BY <1>1, <1>4, <1>5, <2>2
    <2> QED BY <2>1, <2>2
  <1>7. TagsOK(consumers', lastTag', registered')
    BY <1>4, <1>6 DEF TagsOK
  <1>8. \A r \in ChQueues : lastTag[r] <= lastTag'[r]
    <2> SUFFICES ASSUME NEW r \in ChQueues PROVE lastTag[r] <= lastTag'[r]
      OBVIOUS
    <2>1. CASE r = q
      BY <1>2, <1>4, <2>1
    <2>2. CASE r # q
      BY <1>1, <1>4, <2>2
    <2> QED BY <2>1, <2>2
  <1>9. \A r \in ChQueues, t \in Nat : <<r, t>> \in registered' => <<r, t>> \in registered \/ t > lastTag[r]
    BY <1>2, <1>5
  <1>10. \A ops : PendingsOK(ops, lastTag, registered) => PendingsOK(ops, lastTag', registered')
    BY <1>1, <1>4, <1>8, <1>9, PendingsLater
  <1> QED BY <1>7, <1>10

(* Fewer are registered.                                                   *)
LEMMA Fewer ==
    ASSUME NEW cons, NEW last, NEW reg, TagsOK(cons, last, reg), NEW reg2 \in SUBSET reg
    PROVE  /\ TagsOK(cons, last, reg2)
           /\ \A ops : PendingsOK(ops, last, reg) => PendingsOK(ops, last, reg2)
  <1>1. TagsOK(cons, last, reg2)
    BY DEF TagsOK
  <1>2. last \in [ChQueues -> Nat] /\ \A q \in ChQueues : last[q] <= last[q]
    BY DEF TagsOK
  <1> QED BY <1>1, <1>2, PendingsLater

LEMMA TagsStart == ChannelInit => TagsInv
  BY DEF ChannelInit, TagsInv, TagsOK, PendingsOK

LEMMA AnswerStays ==
    ASSUME TagsInv, NEW i \in DOMAIN pendingOps, NEW a \in {"ok", "error"}, BrokerAnswers(i, a)
    PROVE  TagsInv'
  <1> DEFINE p == pendingOps[i]
             b == pendingOps'[i]
             reg == registered'
  <1>1. /\ TagsOK(consumers, lastTag, registered) /\ PendingsOK(pendingOps, lastTag, registered)
        /\ pendingOps \in Seq(PendingOp) /\ i \in 1..Len(pendingOps) /\ Len(pendingOps) \in Nat
    BY DEF TagsInv, PendingsOK
  <1>2. /\ pendingOps' = [pendingOps EXCEPT ![i].answer = a]
        /\ registered' = IF p.op = "cancel" /\ a = "ok" THEN registered \ {<<p.queue, p.tag>>} ELSE registered
        /\ UNCHANGED <<consumers, lastTag, subscriptions>>
    BY DEF BrokerAnswers, consumerVars
  <1>3. reg \in SUBSET registered
    BY <1>2
  <1>4. TagsOK(consumers, lastTag, reg) /\ PendingsOK(pendingOps, lastTag, reg)
    BY <1>1, <1>3, Fewer
  <1>5. p \in PendingOp
    BY <1>1
  <1>6. b = [p EXCEPT !.answer = a] /\ \A j \in 1..Len(pendingOps) : j # i => pendingOps'[j] = pendingOps[j]
    BY <1>1, <1>2
  <1>7. /\ b \in PendingOp /\ b.op = p.op /\ b.queue = p.queue /\ b.tag = p.tag /\ b.answer = a
    <2> HIDE DEF p, b
    <2>1. b = [p EXCEPT !.answer = a]
      BY <1>6
    <2>2. p \in PendingOp
      BY <1>5
    <2> QED BY <2>1, <2>2 DEF PendingOp, OpKinds
  <1>8. pendingOps' \in Seq(PendingOp) /\ Len(pendingOps') = Len(pendingOps)
    <2>1. \A j \in 1..Len(pendingOps) : pendingOps'[j] \in PendingOp
      BY <1>1, <1>6, <1>7
    <2>2. DOMAIN pendingOps' = 1..Len(pendingOps)
      BY <1>1, <1>2
    <2>3. pendingOps' = [j \in 1..Len(pendingOps) |-> pendingOps'[j]]
      <3> DEFINE c == [p EXCEPT !.answer = a]
                 old == pendingOps
                 new == pendingOps'
      <3>1. new = [old EXCEPT ![i] = c]
        BY <1>2
      <3>2. DOMAIN old = 1..Len(old)
        BY <1>1
      <3> HIDE DEF c, old, new
      <3>3. new = [j \in DOMAIN old |-> new[j]]
        BY <3>1
      <3> QED BY <3>2, <3>3 DEF old, new
    <2> QED BY <1>1, <2>1, <2>2, <2>3
  <1>9. OpOK(b, lastTag, reg)
    <2>1. OpOK(p, lastTag, reg)
      BY <1>1, <1>4 DEF PendingsOK
    <2>2. p.op = "cancel" /\ a = "ok" => <<p.queue, p.tag>> \notin reg
      BY <1>2
    <2> HIDE DEF b, p, reg
    <2> QED BY <1>7, <2>1, <2>2 DEF OpOK
  <1>10. \A j \in 1..Len(pendingOps) : OpOK(pendingOps'[j], lastTag, reg)
    BY <1>4, <1>6, <1>9 DEF PendingsOK
  <1>11. PendingsOK(pendingOps', lastTag, reg)
    BY <1>8, <1>10 DEF PendingsOK
  <1> QED BY <1>2, <1>4, <1>11 DEF TagsInv, TagsOK, PendingsOK, OpOK, PendingOp

LEMMA TagsArePrimed ==
    TagsInv' <=> /\ TagsOK(consumers', lastTag', registered') /\ PendingsOK(pendingOps', lastTag', registered')
                 /\ subscriptions' \in [ChTopics -> ChQueues \cup {NoQueue}]
  BY DEF TagsInv, TagsOK, PendingsOK, OpOK, PendingOp

LEMMA SuccessStays == ASSUME TagsInv, OpSucceeds PROVE TagsInv'
  <1> DEFINE p == Innermost
             rest == Front(pendingOps)
  <1>1. /\ TagsOK(consumers, lastTag, registered) /\ PendingsOK(pendingOps, lastTag, registered)
        /\ subscriptions \in [ChTopics -> ChQueues \cup {NoQueue}]
    BY DEF TagsInv
  <1>2. pendingOps # << >> /\ p.answer = "ok"
    BY DEF OpSucceeds
  <1>3. PendingsOK(rest, lastTag, registered) /\ p \in PendingOp /\ OpOK(p, lastTag, registered)
    BY <1>1, <1>2, PendingsFront DEF Innermost
  <1>4. /\ p.queue \in ChQueues /\ p.tag \in Nat /\ p.topic \in ChTopics \cup {NoQueue}
        /\ p = [op |-> p.op, queue |-> p.queue, tag |-> p.tag, topic |-> p.topic, answer |-> p.answer]
    BY <1>3 DEF PendingOp, OpKinds
  <1>5. \/ pendingOps' = rest /\ UNCHANGED <<tagVars, subscriptions>>
        \/ /\ p.op = "cancel" /\ pendingOps' = rest
           /\ consumers' = Erased(p) /\ subscriptions' = Forgotten(p)
           /\ UNCHANGED <<registered, lastTag>>
        \/ /\ p.op = "declare" /\ pendingOps' = Append(rest, [p EXCEPT !.op = "bind", !.answer = "none"])
           /\ UNCHANGED <<tagVars, subscriptions>>
        \/ /\ p.op = "bind" /\ pendingOps' = rest /\ Register(p.queue)
           /\ subscriptions' = [subscriptions EXCEPT ![p.topic] = p.queue]
    BY DEF OpSucceeds
  <1> HIDE DEF p, rest
  <1>6. CASE pendingOps' = rest /\ UNCHANGED <<tagVars, subscriptions>>
    BY <1>1, <1>3, <1>6, TagsArePrimed DEF tagVars
  <1>7. CASE /\ p.op = "cancel" /\ pendingOps' = rest
             /\ consumers' = Erased(p) /\ subscriptions' = Forgotten(p)
             /\ UNCHANGED <<registered, lastTag>>
    <2>1. <<p.queue, p.tag>> \notin registered
      BY <1>2, <1>3, <1>7 DEF OpOK, p
    <2>2. subscriptions' \in [ChTopics -> ChQueues \cup {NoQueue}]
      BY <1>1, <1>7 DEF Forgotten
    <2>3. TagsOK(consumers', lastTag, registered)
      <3>1. /\ consumers \in [ChQueues -> Nat] /\ lastTag \in [ChQueues -> Nat]
            /\ \A q \in ChQueues : /\ consumers[q] <= lastTag[q]
                                   /\ <<q, lastTag[q]>> \in registered => consumers[q] = lastTag[q]
        BY <1>1 DEF TagsOK
      <3>2. CASE consumers[p.queue] = p.tag
        <4>1. consumers' = [consumers EXCEPT ![p.queue] = 0]
          BY <1>7, <3>2 DEF Erased
        <4>2. /\ consumers' \in [ChQueues -> Nat] /\ consumers'[p.queue] = 0
              /\ \A q \in ChQueues : q # p.queue => consumers'[q] = consumers[q]
          BY <1>4, <3>1, <4>1
        <4>3. <<p.queue, lastTag[p.queue]>> \notin registered
          BY <1>4, <2>1, <3>1, <3>2
        <4>4. 0 <= lastTag[p.queue]
          BY <1>4, <3>1
        <4>5. ASSUME NEW q \in ChQueues
              PROVE consumers'[q] <= lastTag[q] /\ (<<q, lastTag[q]>> \in registered => consumers'[q] = lastTag[q])
          <5>1. CASE q = p.queue
            BY <4>2, <4>3, <4>4, <5>1
          <5>2. CASE q # p.queue
            BY <3>1, <4>2, <5>2
          <5> QED BY <5>1, <5>2
        <4> QED BY <3>1, <4>2, <4>5 DEF TagsOK
      <3>3. CASE consumers[p.queue] # p.tag
        BY <1>1, <1>7, <3>3 DEF Erased
      <3> QED BY <3>2, <3>3
    <2> QED BY <1>3, <1>7, <2>2, <2>3, TagsArePrimed
  <1>8. CASE /\ p.op = "declare" /\ pendingOps' = Append(rest, [p EXCEPT !.op = "bind", !.answer = "none"])
             /\ UNCHANGED <<tagVars, subscriptions>>
    <2> DEFINE b == [p EXCEPT !.op = "bind", !.answer = "none"]
               c == [p EXCEPT !.op = "bind"]
    <2>0. p \in PendingOp
      BY <1>3
    <2>1. c \in PendingOp /\ c.op = "bind"
      BY <2>0 DEF PendingOp, OpKinds
    <2>x. b = [c EXCEPT !.answer = "none"]
      OBVIOUS
    <2> HIDE DEF c, b
    <2>2. b \in PendingOp /\ b.op = "bind"
      BY <2>1, <2>x DEF PendingOp, OpKinds
    <2>3. OpOK(b, lastTag, registered)
      BY <2>2 DEF OpOK
    <2>4. pendingOps' = Append(rest, b)
      BY <1>8 DEF b
    <2>5. PendingsOK(pendingOps', lastTag, registered)
      BY <1>3, <2>2, <2>3, <2>4, PendingsAppend
    <2> QED BY <1>1, <1>8, <2>5, TagsArePrimed DEF tagVars
  <1>9. CASE /\ p.op = "bind" /\ pendingOps' = rest /\ Register(p.queue)
             /\ subscriptions' = [subscriptions EXCEPT ![p.topic] = p.queue]
    <2>1. TagsOK(consumers', lastTag', registered') /\ PendingsOK(rest, lastTag', registered')
      BY <1>1, <1>3, <1>4, <1>9, Registers
    <2>2. subscriptions' \in [ChTopics -> ChQueues \cup {NoQueue}]
      BY <1>1, <1>4, <1>9
    <2> QED BY <1>9, <2>1, <2>2, TagsArePrimed
  <1> QED BY <1>5, <1>6, <1>7, <1>8, <1>9

(* An operation starts to wait.                                            *)
LEMMA WaitStays ==
    ASSUME TagsInv, NEW op \in OpKinds, NEW q \in ChQueues, NEW tag \in Nat, NEW topic \in ChTopics \cup {NoQueue},
           tag <= lastTag[q], pendingOps' = Wait(op, q, tag, topic), UNCHANGED <<tagVars, subscriptions>>
    PROVE  TagsInv'
  <1> DEFINE b == [op |-> op, queue |-> q, tag |-> tag, topic |-> topic, answer |-> "none"]
  <1>1. b \in PendingOp /\ b.tag = tag /\ b.queue = q /\ b.answer = "none" /\ pendingOps' = Append(pendingOps, b)
    BY DEF PendingOp, Wait
  <1> HIDE DEF b
  <1>2. OpOK(b, lastTag, registered)
    BY <1>1 DEF OpOK
  <1>3. PendingsOK(pendingOps', lastTag, registered)
    BY <1>1, <1>2, PendingsAppend DEF TagsInv
  <1> QED BY <1>3, TagsArePrimed DEF TagsInv, tagVars

LEMMA TagsStay == ASSUME TagsInv, [ChannelNext]_channelVars PROVE TagsInv'
  <1>0. /\ TagsOK(consumers, lastTag, registered) /\ PendingsOK(pendingOps, lastTag, registered)
        /\ subscriptions \in [ChTopics -> ChQueues \cup {NoQueue}]
    BY DEF TagsInv
  <1>b. /\ consumers \in [ChQueues -> Nat] /\ lastTag \in [ChQueues -> Nat]
        /\ \A q \in ChQueues : consumers[q] <= lastTag[q]
    BY <1>0 DEF TagsOK
  <1>a. /\ consumers \in [ChQueues -> Nat] /\ lastTag \in [ChQueues -> Nat] /\ 0 \in Nat
        /\ \A q \in ChQueues : consumers[q] <= lastTag[q] /\ consumers[q] \in Nat /\ lastTag[q] \in Nat /\ 0 <= lastTag[q]
    BY <1>b
  <1>1. ASSUME UNCHANGED <<tagVars, pendingOps, subscriptions>> PROVE TagsInv'
    BY <1>0, <1>1, TagsArePrimed DEF tagVars
  <1>2. CASE UNCHANGED channelVars
    BY <1>1, <1>2 DEF channelVars, tagVars
  <1>3. ASSUME NEW q \in ChQueues, Ask(q) PROVE TagsInv'
    <2>1. pendingOps' = Wait("ask", q, 0, NoQueue) /\ UNCHANGED <<tagVars, subscriptions>>
      BY <1>3 DEF Ask, consumerVars
    <2> QED BY <1>a, <2>1, WaitStays DEF OpKinds
  <1>4. ASSUME NEW q \in ChQueues, ChConsume(q) PROVE TagsInv'
    <2>1. Register(q) /\ pendingOps' = pendingOps /\ subscriptions' = subscriptions
      BY <1>4 DEF ChConsume, consumerVars
    <2>2. TagsOK(consumers', lastTag', registered') /\ PendingsOK(pendingOps, lastTag', registered')
      BY <1>0, <2>1, Registers
    <2> QED BY <1>0, <2>1, <2>2, TagsArePrimed
  <1>5. ASSUME NEW q \in ChQueues, ChCancelConsume(q) PROVE TagsInv'
    <2>1. pendingOps' = Wait("cancel", q, consumers[q], NoQueue) /\ UNCHANGED <<tagVars, subscriptions>>
      BY <1>5 DEF ChCancelConsume, consumerVars
    <2> QED BY <1>a, <2>1, WaitStays DEF OpKinds
  <1>6. ASSUME NEW t \in ChTopics, UnsubscribeTopic(t) PROVE TagsInv'
    <2> DEFINE q == subscriptions[t]
    <2>1. q # NoQueue /\ UNCHANGED tagVars
      BY <1>6 DEF UnsubscribeTopic
    <2>2. q \in ChQueues
      BY <1>0, <2>1
    <2>3. \/ subscriptions' = [subscriptions EXCEPT ![t] = NoQueue] /\ UNCHANGED pendingOps
          \/ UNCHANGED <<pendingOps, subscriptions>>
          \/ pendingOps' = Wait("cancel", q, consumers[q], t) /\ UNCHANGED subscriptions
      BY <1>6 DEF UnsubscribeTopic, ConsumerCall
    <2> HIDE DEF q
    <2>4. CASE subscriptions' = [subscriptions EXCEPT ![t] = NoQueue] /\ UNCHANGED pendingOps
      <3>1. subscriptions' \in [ChTopics -> ChQueues \cup {NoQueue}]
        BY <1>0, <2>4
      <3> QED BY <1>0, <2>1, <2>4, <3>1, TagsArePrimed DEF tagVars
    <2>5. CASE UNCHANGED <<pendingOps, subscriptions>>
      BY <1>1, <2>1, <2>5
    <2>6. CASE pendingOps' = Wait("cancel", q, consumers[q], t) /\ UNCHANGED subscriptions
      BY <1>a, <2>1, <2>2, <2>6, WaitStays DEF OpKinds
    <2> QED BY <2>3, <2>4, <2>5, <2>6
  <1>7. ASSUME NEW t \in ChTopics, NEW q \in ChQueues, SubscribeTopic(t, q) PROVE TagsInv'
    <2>1. UNCHANGED <<tagVars, subscriptions>>
      BY <1>7 DEF SubscribeTopic, consumerVars
    <2>2. pendingOps' = Wait("declare", q, 0, t) \/ UNCHANGED pendingOps
      BY <1>7 DEF SubscribeTopic, ConsumerCall
    <2> QED BY <1>a, <1>1, <2>1, <2>2, WaitStays DEF OpKinds
  <1>8. CASE OpFails
    <2>1. /\ pendingOps # << >> /\ pendingOps' = Front(pendingOps) /\ UNCHANGED tagVars
          /\ subscriptions' = Forgotten(Innermost)
      BY <1>8 DEF OpFails
    <2>2. PendingsOK(pendingOps', lastTag, registered)
      BY <1>0, <2>1, PendingsFront
    <2>3. subscriptions' \in [ChTopics -> ChQueues \cup {NoQueue}]
      BY <1>0, <2>1 DEF Forgotten
    <2> QED BY <1>0, <2>1, <2>2, <2>3, TagsArePrimed DEF tagVars
  <1>9. CASE LateAnswer \/ StartConsumer \/ StopConsumer
    <2>1. UNCHANGED <<tagVars, pendingOps, subscriptions>>
      BY <1>9 DEF LateAnswer, StartConsumer, StopConsumer, consumerVars
    <2> QED BY <1>1, <2>1
  <1>10. CASE CloseChannel
    <2>1. /\ registered' = {} /\ consumers' = [q \in ChQueues |-> 0]
          /\ UNCHANGED <<lastTag, pendingOps, subscriptions>>
      BY <1>10 DEF CloseChannel
    <2>2. PendingsOK(pendingOps, lastTag, {})
      BY <1>0, Fewer
    <2>3. TagsOK(consumers', lastTag, {})
      BY <1>a, <2>1 DEF TagsOK
    <2> QED BY <1>0, <2>1, <2>2, <2>3, TagsArePrimed
  <1>11. ASSUME NEW m, Send(m) PROVE TagsInv'
    BY <1>1, <1>11 DEF Send, consumerVars
  <1>12. ASSUME NEW w, OnReceived(w) PROVE TagsInv'
    BY <1>1, <1>12 DEF OnReceived, consumerVars
  <1>13. ASSUME NEW S, NEW r, Settle(S, r) PROVE TagsInv'
    BY <1>1, <1>13 DEF Settle, consumerVars
  <1> QED BY <1>2, <1>3, <1>4, <1>5, <1>6, <1>7, <1>8, <1>9, <1>10, <1>11, <1>12, <1>13,
             AnswerStays, SuccessStays DEF ChannelNext

(* What is at the broker is what a producer sent, converted.               *)
OnTheWay(w) == \E s \in sent : w = <<s[1], ToAmqpMessage(s[2])>>
Faithful(h) == \E s \in sent :
                   s[1] = h[1] /\ h[2].priority = s[2].priority /\ (h[2].mode = 2 <=> s[2].mode = 2)
MessagesInv ==
    /\ \A s \in sent : s[2] \in Payloads
    /\ \A w \in wire \cup unsettled : OnTheWay(w)
    /\ \A h \in handed : Faithful(h)

LEMMA MessagesStart == ChannelInit => MessagesInv
  BY DEF ChannelInit, MessagesInv

LEMMA MessagesStay == ASSUME MessagesInv, [ChannelNext]_channelVars PROVE MessagesInv'
  <1>0. /\ \A s \in sent : s[2] \in Payloads
        /\ \A w \in wire \cup unsettled : OnTheWay(w)
        /\ \A h \in handed : Faithful(h)
    BY DEF MessagesInv
  <1>1. ASSUME sent' = sent, wire' \cup unsettled' \subseteq wire \cup unsettled,
               \A h \in handed' : h \in handed \/ Faithful(h)
        PROVE  MessagesInv'
    <2>1. \A w : OnTheWay(w)' <=> OnTheWay(w)
      BY <1>1 DEF OnTheWay, ToAmqpMessage
    <2>2. \A h : Faithful(h)' <=> Faithful(h)
      BY <1>1 DEF Faithful
    <2> QED BY <1>0, <1>1, <2>1, <2>2 DEF MessagesInv
  <1>2. ASSUME UNCHANGED messageVars PROVE MessagesInv'
    BY <1>1, <1>2 DEF messageVars
  <1>3. CASE UNCHANGED channelVars
    BY <1>2, <1>3 DEF channelVars, messageVars
  <1>4. ASSUME NEW q, Ask(q) \/ ChConsume(q) \/ ChCancelConsume(q) PROVE MessagesInv'
    BY <1>2, <1>4 DEF Ask, ChConsume, ChCancelConsume
  <1>5. ASSUME NEW t, UnsubscribeTopic(t) PROVE MessagesInv'
    BY <1>2, <1>5 DEF UnsubscribeTopic
  <1>6. ASSUME NEW t, NEW q, SubscribeTopic(t, q) PROVE MessagesInv'
    BY <1>2, <1>6 DEF SubscribeTopic
  <1>7. ASSUME NEW i, NEW a, BrokerAnswers(i, a) PROVE MessagesInv'
    BY <1>2, <1>7 DEF BrokerAnswers
  <1>8. CASE OpSucceeds \/ OpFails \/ LateAnswer \/ StartConsumer \/ StopConsumer
    BY <1>2, <1>8 DEF OpSucceeds, OpFails, LateAnswer, StartConsumer, StopConsumer
  <1>9. CASE CloseChannel
    BY <1>0, <1>1, <1>9 DEF CloseChannel
  <1>10. ASSUME NEW m \in Payloads, Send(m) PROVE MessagesInv'
    <2> DEFINE n == Cardinality(sent) + 1
    <2>1. /\ sent' = sent \cup {<<n, m>>} /\ wire' = wire \cup {<<n, ToAmqpMessage(m)>>}
          /\ UNCHANGED <<unsettled, handed>>
      BY <1>10 DEF Send
    <2> HIDE DEF n
    <2>a. \A w : OnTheWay(w)' <=> \E s \in sent' : w = <<s[1], ToAmqpMessage(s[2])>>
      BY DEF OnTheWay, ToAmqpMessage
    <2>b. \E s \in sent' : <<n, ToAmqpMessage(m)>> = <<s[1], ToAmqpMessage(s[2])>>
      <3>1. <<n, m>> \in sent' /\ <<n, m>>[1] = n /\ <<n, m>>[2] = m
        BY <2>1
      <3> QED BY <3>1
    <2>2. \A w : OnTheWay(w) => OnTheWay(w)'
      BY <2>1, <2>a DEF OnTheWay
    <2>3. \A h : Faithful(h) => Faithful(h)'
      BY <2>1 DEF Faithful
    <2>4. \A s \in sent' : s[2] \in Payloads
      BY <1>0, <2>1
    <2>5. \A w \in wire' \cup unsettled' : OnTheWay(w)'
      <3>1. \A w \in wire' \cup unsettled' : w \in wire \cup unsettled \/ w = <<n, ToAmqpMessage(m)>>
        BY <2>1
      <3> QED BY <1>0, <2>2, <2>a, <2>b, <3>1
    <2>6. \A h \in handed' : Faithful(h)'
      BY <1>0, <2>1, <2>3
    <2> QED BY <2>4, <2>5, <2>6 DEF MessagesInv
  <1>11. ASSUME NEW w \in wire, OnReceived(w) PROVE MessagesInv'
    <2>1. /\ wire' = wire \ {w} /\ unsettled' = unsettled \cup {w} /\ sent' = sent
          /\ \A h \in handed' : h \in handed \/ h = <<w[1], FromAmqpMessage(w[2])>>
      BY <1>11 DEF OnReceived
    <2>2. PICK s \in sent : w = <<s[1], ToAmqpMessage(s[2])>>
      BY <1>0 DEF OnTheWay
    <2>3. w[1] = s[1] /\ w[2] = ToAmqpMessage(s[2])
      BY <2>2
    <2>4. s[2].priority \in 0..255
      BY <1>0, PayloadsAssumption
    <2>5. s[2].priority % 256 = s[2].priority
      BY <2>4
    <2>6. w[2].priority = s[2].priority /\ w[2].persistent = (s[2].mode = 2)
      BY <2>3, <2>5 DEF ToAmqpMessage
    <2> DEFINE h == <<w[1], FromAmqpMessage(w[2])>>
    <2>7. h[1] = s[1] /\ h[2].priority = s[2].priority /\ h[2].mode = IF s[2].mode = 2 THEN 2 ELSE 1
      BY <2>3, <2>6 DEF FromAmqpMessage
    <2> HIDE DEF h
    <2>8. Faithful(h)
      BY <2>7 DEF Faithful
    <2>9. wire' \cup unsettled' \subseteq wire \cup unsettled
      BY <2>1
    <2> QED BY <1>1, <2>1, <2>8, <2>9 DEF h
  <1>12. ASSUME NEW S, NEW r, Settle(S, r) PROVE MessagesInv'
    <2>1. /\ wire' \cup unsettled' \subseteq wire \cup unsettled /\ handed' = handed /\ sent' = sent
      BY <1>12 DEF Settle
    <2> QED BY <1>1, <2>1
  <1> QED BY <1>3, <1>4, <1>5, <1>6, <1>7, <1>8, <1>9, <1>10, <1>11, <1>12 DEF ChannelNext

LEMMA ChannelKnows == TagsInv /\ MessagesInv => ConsumersKnown
  BY DEF TagsInv, TagsOK, MessagesInv, Faithful, ConsumersKnown

-----------------------------------------------------------------------------
messagingVars == <<subject, brokerVars, consumingVars, topicVars, linkVars, channelVars>>
RoutingInv == TopicInv /\ HashInv /\ TagsInv /\ MessagesInv

(* A step of the whole is a step of at most one of them.                   *)
LEMMA RoutingParts ==
    ASSUME [Next]_messagingVars PROVE [TopicNext]_topicVars /\ [ChannelNext]_channelVars
  BY DEF Next, messagingVars

(***************************************************************************)
(* For words, patterns and keys of any number: a binding key that          *)
(* matchTopicPattern() lets pass does match, its answer is exact while '#' *)
(* is last, and a '#' before another word lets nothing pass that does not  *)
(* have that word twice in a row.  And however waits are nested, time out, *)
(* are answered or are cut off: the consumer the broker registered last is *)
(* the one m_consumers names, and what a callback gets was sent.           *)
(***************************************************************************)
THEOREM RoutingCorrect == Spec => []RoutingSound
  <1>1. Init => RoutingInv
    BY TopicStarts, HashStarts, TagsStart, MessagesStart DEF Init, RoutingInv
  <1>2. RoutingInv /\ [Next]_messagingVars => RoutingInv'
    <2> SUFFICES ASSUME RoutingInv, [Next]_messagingVars PROVE RoutingInv'
      OBVIOUS
    <2>1. [TopicNext]_topicVars /\ [ChannelNext]_channelVars
      BY RoutingParts
    <2>2. TopicInv /\ HashInv /\ TagsInv /\ MessagesInv
      BY DEF RoutingInv
    <2>3. TopicInv' /\ HashInv' /\ TagsInv' /\ MessagesInv'
      BY <2>1, <2>2, TopicStays, HashStays, TagsStay, MessagesStay
    <2> QED BY <2>3 DEF RoutingInv
  <1>3. RoutingInv => RoutingSound
    BY TopicAnswers, HashAnswers, ChannelKnows DEF RoutingInv, RoutingSound
  <1> QED BY <1>1, <1>2, <1>3, PTL DEF Spec, messagingVars

=============================================================================
