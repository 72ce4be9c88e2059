--------------------------- MODULE ServiceProofs ---------------------------
(***************************************************************************)
(* Proofs about the services: the two servers and the health checks, woven *)
(* and remote calls, credentials, and database connections.                *)
(***************************************************************************)
EXTENDS Integers, Servers, WovenAndRemoteCalls, Credentials, Database, TLAPS, FiniteSetTheorems

(* Every step of HttpServer that changes what is accepted changes it by    *)
(* one socket, or closes all.                                              *)
LEMMA AcceptedFinite == IsFiniteSet(Accepted) /\ Cardinality(Accepted) \in Nat
  <1>1. Accepted \subseteq Sockets
    BY DEF Accepted
  <1> QED BY <1>1, SocketsAssumption, FS_Subset, FS_CardinalityType

(* A socket that has not been accepted has not been answered either, so    *)
(* that no answer is left over at an address that is used again.           *)
HttpInv ==
    /\ ConnectionsAccounted
    /\ answered \in [Sockets -> Nat]
    /\ \A s \in Sockets : conn[s] \in {"none", "pending"} => answered[s] = 0

USE DEF ConnStates

LEMMA HttpInvInit == ServerInit => HttpInv
  <1> SUFFICES ASSUME ServerInit PROVE HttpInv
    OBVIOUS
  <1>1. Accepted = {} /\ DOMAIN buffers = {}
    BY DEF ServerInit, Accepted
  <1>2. Cardinality(Accepted) = 0
    BY <1>1, FS_EmptySet
  <1> QED BY <1>1, <1>2, SocketsAssumption DEF ServerInit, HttpInv, ConnectionsAccounted

(* What is neither accepted nor given up leaves the count alone.           *)
LEMMA SameAccepted ==
    ASSUME HttpInv, NEW s \in Sockets, NEW p \in ConnStates,
           conn' = [conn EXCEPT ![s] = p], p \in {"open", "closing"} <=> s \in Accepted
    PROVE  conn' \in [Sockets -> ConnStates] /\ Accepted' = Accepted
  BY DEF HttpInv, ConnectionsAccounted, Accepted

LEMMA IncomingKeeps ==
    ASSUME HttpInv, NEW s \in Sockets, NEW r \in Inquiries, Incoming(s, r)
    PROVE  HttpInv'
  <1>1. conn' \in [Sockets -> ConnStates] /\ Accepted' = Accepted /\ s \notin Accepted
    BY SameAccepted DEF Incoming, Accepted
  <1>2. \A t \in Accepted : inquiry'[t] = inquiry[t]
    BY <1>1 DEF Incoming
  <1>3. \A t \in Sockets : conn'[t] \in {"none", "pending"} => answered'[t] = 0
    BY DEF Incoming, HttpInv, ConnectionsAccounted
  <1> QED BY <1>1, <1>2, <1>3 DEF Incoming, HttpInv, ConnectionsAccounted

LEMMA NewConnectionKeeps ==
    ASSUME HttpInv, NEW s \in Sockets, OnNewConnection(s)
    PROVE  HttpInv'
  <1> DEFINE full == shuttingDown \/ (MaxConnections > 0 /\ current >= MaxConnections)
  <1> USE DEF HttpInv, ConnectionsAccounted
  <1>0. s \notin Accepted /\ answered[s] = 0
    BY DEF OnNewConnection, Accepted
  <1>1. CASE full
    <2>1. conn' \in [Sockets -> ConnStates] /\ Accepted' = Accepted
      BY <1>0, <1>1, SameAccepted DEF OnNewConnection
    <2>2. \A t \in Sockets : t # s => answered'[t] = answered[t] /\ conn'[t] = conn[t]
      BY <1>1 DEF OnNewConnection
    <2>3. answered' \in [Sockets -> Nat] /\ conn'[s] = "refused"
      BY <1>1 DEF OnNewConnection
    <2>4. \A t \in Sockets : conn'[t] \in {"none", "pending"} => answered'[t] = 0
      BY <2>2, <2>3
    <2>5. \A t \in Accepted' : answered'[t] = answered[t]
      BY <1>0, <2>1, <2>2 DEF Accepted
    <2> QED BY <1>1, <2>1, <2>3, <2>4, <2>5 DEF OnNewConnection
  <1>2. CASE ~full
    <2>1. conn' = [conn EXCEPT ![s] = "open"] /\ current' = current + 1 /\ answered' = answered
      BY <1>2 DEF OnNewConnection
    <2>2. conn' \in [Sockets -> ConnStates] /\ Accepted' = Accepted \cup {s}
      BY <2>1 DEF Accepted
    <2>3. Cardinality(Accepted') = Cardinality(Accepted) + 1
      BY <1>0, <2>2, AcceptedFinite, FS_AddElement
    <2>4. current' = Cardinality(Accepted)'
      BY <2>1, <2>3
    <2>5. MaxConnections > 0 => current' <= MaxConnections
      BY <1>2, <2>1, AcceptedFinite, SocketsAssumption
    <2>6. \A t \in Sockets : conn'[t] \in {"none", "pending"} => answered'[t] = 0
      BY <2>1
    <2>7. \A t \in Accepted' : answered'[t] = 200 => t \in Accepted
      BY <1>0, <2>1, <2>2
    <2> QED BY <2>1, <2>2, <2>4, <2>5, <2>6, <2>7 DEF OnNewConnection
  <1> QED BY <1>1, <1>2

(* Only a handler says 200, and only behind a chain that let the request   *)
(* pass.                                                                   *)
LEMMA OkIsFromHandler ==
    ASSUME NEW mws, NEW r, 200 \in Statuses(mws, r)
    PROVE  \A i \in DOMAIN mws : Before(mws[i], r) = 0
  <1> DEFINE stops == {i \in DOMAIN mws : Before(mws[i], r) # 0}
  <1>1. \A mw : Before(mw, r) # 200
    BY DEF Before
  <1>2. stops = {}
    BY <1>1 DEF Statuses
  <1> QED BY <1>2

LEMMA StatusIsNat ==
    ASSUME NEW mws, NEW r, NEW st \in Statuses(mws, r)
    PROVE  st \in Nat
  <1>1. \A mw : Before(mw, r) \in Nat
    BY DEF Before
  <1> QED BY <1>1 DEF Statuses, HandlerStatus

LEMMA ResponseKeeps ==
    ASSUME HttpInv, NEW s \in Accepted, NEW status \in Nat, SendResponse(s, status),
           status = 200 => \A i \in DOMAIN chain : Before(chain[i], inquiry[s]) = 0,
           DOMAIN buffers' \subseteq DOMAIN buffers,
           UNCHANGED <<chain, inquiry, current>>
    PROVE  HttpInv'
  <1> USE DEF HttpInv, ConnectionsAccounted
  <1>0. s \in Sockets
    BY DEF Accepted
  <1>1. conn' \in [Sockets -> ConnStates] /\ Accepted' = Accepted
    BY <1>0, SameAccepted DEF SendResponse
  <1>2. answered' \in [Sockets -> Nat] /\ answered'[s] = status
    BY <1>0 DEF SendResponse
  <1>3. \A t \in Sockets : t # s => answered'[t] = answered[t] /\ conn'[t] = conn[t]
    BY <1>0 DEF SendResponse
  <1>4. conn'[s] = "closing"
    BY <1>0 DEF SendResponse
  <1>5. \A t \in Sockets : conn'[t] \in {"none", "pending"} => answered'[t] = 0
    BY <1>3, <1>4
  <1>6. \A t \in Accepted' : answered'[t] = 200 =>
            \A i \in DOMAIN chain : Before(chain[i], inquiry[t]) = 0
    BY <1>1, <1>2, <1>3 DEF Accepted
  <1> QED BY <1>1, <1>2, <1>5, <1>6

LEMMA ReadyReadKeeps ==
    ASSUME HttpInv, NEW s \in Sockets, OnReadyRead(s)
    PROVE  HttpInv'
  <1> DEFINE got == IF s \in DOMAIN buffers THEN buffers[s] + 1 ELSE 1
             parsed == ParseRequest(inquiry[s], got)
  <1>0. s \in Accepted /\ UNCHANGED <<chain, inquiry, current>>
    BY DEF OnReadyRead
  <1>1. CASE SendResponse(s, 413) /\ buffers' = Without(buffers, s)
    BY <1>0, <1>1, ResponseKeeps DEF Without
  <1>2. CASE SendResponse(s, 400) /\ buffers' = Without(buffers, s)
    BY <1>0, <1>2, ResponseKeeps DEF Without
  <1>3. ASSUME NEW st \in Statuses(chain, inquiry[s]), SendResponse(s, st), buffers' = Without(buffers, s)
        PROVE  HttpInv'
    BY <1>0, <1>3, ResponseKeeps, OkIsFromHandler, StatusIsNat DEF Without
  <1>4. CASE /\ buffers' = [x \in DOMAIN buffers \cup {s} |-> IF x = s THEN got ELSE buffers[x]]
             /\ UNCHANGED <<conn, answered>>
    <2>1. Accepted' = Accepted
      BY <1>4 DEF Accepted
    <2> QED BY <1>0, <1>4, <2>1 DEF HttpInv, ConnectionsAccounted
  <1>5. \/ SendResponse(s, 413) /\ buffers' = Without(buffers, s)
        \/ SendResponse(s, 400) /\ buffers' = Without(buffers, s)
        \/ /\ \E st \in Statuses(chain, inquiry[s]) : SendResponse(s, st)
           /\ buffers' = Without(buffers, s)
        \/ /\ buffers' = [x \in DOMAIN buffers \cup {s} |-> IF x = s THEN got ELSE buffers[x]]
           /\ UNCHANGED <<conn, answered>>
    BY Zenon DEF OnReadyRead
  <1> QED BY <1>1, <1>2, <1>3, <1>4, <1>5

LEMMA DisconnectedKeeps ==
    ASSUME HttpInv, NEW s \in Sockets, OnDisconnected(s)
    PROVE  HttpInv'
  <1> USE DEF HttpInv, ConnectionsAccounted
  <1>1. s \in Accepted /\ conn' \in [Sockets -> ConnStates] /\ Accepted' = Accepted \ {s}
    BY DEF OnDisconnected, Accepted
  <1>2. Cardinality(Accepted') = Cardinality(Accepted) - 1
    BY <1>1, AcceptedFinite, FS_RemoveElement
  <1>3. current' = Cardinality(Accepted)'
    BY <1>2 DEF OnDisconnected
  <1>4. MaxConnections > 0 => current' <= MaxConnections
    BY <1>2, <1>3, AcceptedFinite, SocketsAssumption
  <1>5. DOMAIN buffers' = DOMAIN buffers \ {s}
    BY DEF OnDisconnected, Without
  <1>6. answered' = [answered EXCEPT ![s] = 0] /\ conn' = [conn EXCEPT ![s] = "none"] /\ UNCHANGED <<chain, inquiry>>
    BY DEF OnDisconnected
  <1>7. answered' \in [Sockets -> Nat] /\ \A t \in Sockets : conn'[t] \in {"none", "pending"} => answered'[t] = 0
    BY <1>6
  <1>8. \A t \in Accepted' : answered'[t] = answered[t]
    BY <1>1, <1>6 DEF Accepted
  <1> QED BY <1>1, <1>3, <1>4, <1>5, <1>6, <1>7, <1>8

LEMMA RefusedGoneKeeps ==
    ASSUME HttpInv, NEW s \in Sockets, RefusedGone(s)
    PROVE  HttpInv'
  <1> USE DEF HttpInv, ConnectionsAccounted
  <1>1. conn' \in [Sockets -> ConnStates] /\ Accepted' = Accepted /\ s \notin Accepted
    BY SameAccepted DEF RefusedGone, Accepted
  <1>2. answered' \in [Sockets -> Nat] /\ \A t \in Sockets : conn'[t] \in {"none", "pending"} => answered'[t] = 0
    BY DEF RefusedGone
  <1>3. \A t \in Accepted' : answered'[t] = answered[t]
    BY <1>1 DEF RefusedGone, Accepted
  <1> QED BY <1>1, <1>2, <1>3 DEF RefusedGone

LEMMA CloseAllKeeps ==
    ASSUME HttpInv, CloseAll
    PROVE  HttpInv'
  <1>1. conn' \in [Sockets -> ConnStates] /\ Accepted' = {} /\ DOMAIN buffers' = {}
    BY DEF CloseAll, Accepted
  <1>2. Cardinality(Accepted)' = 0
    BY <1>1, FS_EmptySet
  <1>3. current' = 0
    BY AcceptedFinite DEF CloseAll, HttpInv, ConnectionsAccounted
  <1> QED BY <1>1, <1>2, <1>3, SocketsAssumption DEF CloseAll, HttpInv, ConnectionsAccounted

LEMMA HttpInvStep == HttpInv /\ [ServerNext]_httpServerVars => HttpInv'
  <1> SUFFICES ASSUME HttpInv, [ServerNext]_httpServerVars PROVE HttpInv'
    OBVIOUS
  <1>1. CASE Listen \/ UNCHANGED httpServerVars
    <2>1. Accepted' = Accepted
      BY <1>1 DEF Listen, httpServerVars, Accepted
    <2> QED BY <1>1, <2>1 DEF Listen, httpServerVars, HttpInv, ConnectionsAccounted
  <1>2. CASE Close \/ Shutdown
    BY <1>2, CloseAllKeeps DEF Close, Shutdown
  <1>3. ASSUME NEW s \in Sockets, NEW r \in Inquiries, Incoming(s, r) PROVE HttpInv'
    BY <1>3, IncomingKeeps
  <1>4. ASSUME NEW s \in Sockets,
               OnNewConnection(s) \/ OnReadyRead(s) \/ OnDisconnected(s)
               \/ RefusedGone(s) \/ OnTimeout(s) \/ HandlerShutsDown(s)
        PROVE  HttpInv'
    BY <1>4, NewConnectionKeeps, ReadyReadKeeps, DisconnectedKeeps, RefusedGoneKeeps, CloseAllKeeps
       DEF OnTimeout, HandlerShutsDown, Shutdown
  <1> QED BY <1>1, <1>2, <1>3, <1>4 DEF ServerNext

-----------------------------------------------------------------------------
(* An open session is listed, has sent no Close frame and is not closing;  *)
(* nor has a connection sent one before it is a session.                   *)
WsInv ==
    /\ phase \in [Sessions -> {"none", "handshake", "session", "deleted"}]
    /\ closeFrames \in [Sessions -> Nat]
    /\ sessions \subseteq Sessions
    /\ SessionsSound
    /\ \A s \in opened : s \notin closing /\ phase[s] = "session" /\ closeFrames[s] = 0
    /\ \A s \in Sessions : phase[s] = "handshake" => closeFrames[s] = 0

LEMMA CloseTheseKeeps ==
    ASSUME WsInv, NEW ss, CloseThese(ss), UNCHANGED phase,
           \/ UNCHANGED sessions
           \/ sessions' = {} /\ ss = sessions
    PROVE  WsInv'
  <1> USE DEF WsInv, SessionsSound
  <1> DEFINE now == (ss \cap opened) \ closing
  <1>1. now = ss \cap opened
    OBVIOUS
  <1>2. /\ opened' = opened \ ss /\ closing' = closing \cup (ss \cap opened)
        /\ closeFrames' = CloseFramesAfter(ss \cap opened)
    BY <1>1 DEF CloseThese
  <1>3. closeFrames' \in [Sessions -> Nat]
    BY <1>2 DEF CloseFramesAfter
  <1>4. \A s \in Sessions : s \notin ss \cap opened => closeFrames'[s] = closeFrames[s]
    BY <1>2 DEF CloseFramesAfter
  <1>5. \A s \in Sessions : s \in ss \cap opened => closeFrames'[s] <= 1
    BY <1>2 DEF CloseFramesAfter
  <1>6. \A s \in Sessions : closeFrames'[s] <= 1
    BY <1>4, <1>5
  <1>7. opened' \subseteq sessions'
    BY <1>2
  <1>8. \A s \in opened' : s \notin closing' /\ phase'[s] = "session" /\ closeFrames'[s] = 0
    BY <1>2, <1>4
  <1>9. \A s \in Sessions : phase'[s] = "handshake" => closeFrames'[s] = 0
    BY <1>4
  <1> QED BY <1>3, <1>6, <1>7, <1>8, <1>9

LEMMA WsInvInit == WsInit => WsInv
  BY DEF WsInit, WsInv, SessionsSound

LEMMA WsInvStep == WsInv /\ [WsNext]_wsVars => WsInv'
  <1> SUFFICES ASSUME WsInv, [WsNext]_wsVars PROVE WsInv'
    OBVIOUS
  <1> USE DEF WsInv, SessionsSound
  <1>1. CASE WsListen \/ UNCHANGED wsVars
    BY <1>1 DEF WsListen, wsVars
  <1>2. CASE WsClose
    BY <1>2, CloseTheseKeeps DEF WsClose
  <1>3. ASSUME NEW s \in Sessions, WsNewConnection(s) PROVE WsInv'
    BY <1>3 DEF WsNewConnection
  <1>4. ASSUME NEW s \in Sessions, UpgradeRefused(s) PROVE WsInv'
    BY <1>4 DEF UpgradeRefused
  <1>5. ASSUME NEW s \in Sessions, Upgraded(s) PROVE WsInv'
    BY <1>5 DEF Upgraded
  <1>6. ASSUME NEW s \in Sessions, SessionClose(s) PROVE WsInv'
    BY <1>6, CloseTheseKeeps DEF SessionClose
  <1>7. ASSUME NEW s \in Sessions, CloseReceived(s) PROVE WsInv'
    BY <1>7 DEF CloseReceived, CloseFramesAfter
  <1>8. ASSUME NEW s \in Sessions, SessionDown(s) PROVE WsInv'
    BY <1>8 DEF SessionDown
  <1>9. ASSUME NEW s \in Sessions, SessionDestroyed(s) PROVE WsInv'
    BY <1>9 DEF SessionDestroyed
  <1> QED BY <1>1, <1>2, <1>3, <1>4, <1>5, <1>6, <1>7, <1>8, <1>9 DEF WsNext

-----------------------------------------------------------------------------
(* A check under way has asked all of its snapshot but toAsk.              *)
HealthInv ==
    /\ ReportComplete
    /\ toAsk \subseteq snapshot
    /\ scope = "none" => toAsk = {}
    /\ scope # "none" => report = "none" /\ DOMAIN details = snapshot \ toAsk

LEMMA HealthInvInit == HealthInit => HealthInv
  BY DEF HealthInit, HealthInv, ReportComplete

LEMMA HealthInvStep == HealthInv /\ [HealthNext]_healthVars => HealthInv'
  <1> SUFFICES ASSUME HealthInv, [HealthNext]_healthVars PROVE HealthInv'
    OBVIOUS
  <1> USE DEF HealthInv, ReportComplete
  <1>1. CASE UNCHANGED <<scope, toAsk, details, report, snapshot>>
    BY <1>1
  <1>2. ASSUME NEW i \in Indicators, AskIndicator(i) PROVE HealthInv'
    <2>1. scope # "none" /\ scope' = scope /\ report' = "none" /\ snapshot' = snapshot
      BY <1>2 DEF AskIndicator
    <2>2. DOMAIN details' = DOMAIN details \cup {i} /\ toAsk' = toAsk \ {i} /\ i \in toAsk
      BY <1>2 DEF AskIndicator
    <2> QED BY <2>1, <2>2
  <1>3. ASSUME NEW sc \in {"readiness", "liveness"}, CheckBegins(sc) PROVE HealthInv'
    BY <1>3 DEF CheckBegins
  <1>4. CASE CheckEnds
    <2>1. DOMAIN details = snapshot /\ report' = Overall(details) /\ UNCHANGED <<details, snapshot, toAsk>>
      BY <1>4 DEF CheckEnds
    <2>2. Overall(details) = "UP" => \A i \in DOMAIN details : details[i] # "DOWN"
      BY DEF Overall
    <2>3. Overall(details) = "DOWN" => \E i \in DOMAIN details : details[i] = "DOWN"
      BY DEF Overall
    <2> QED BY <1>4, <2>1, <2>2, <2>3 DEF CheckEnds
  <1>5. \/ UNCHANGED <<scope, toAsk, details, report, snapshot>>
        \/ \E i \in Indicators : AskIndicator(i)
        \/ \E sc \in {"readiness", "liveness"} : CheckBegins(sc)
        \/ CheckEnds
    BY DEF HealthNext, healthVars, AddIndicator, RemoveIndicator, HealthChanges
  <1> QED BY <1>1, <1>2, <1>3, <1>4, <1>5

(* For any number of sockets, sessions and indicators and every limit:     *)
(* HttpServer's m_currentConnections is the number of its sockets and      *)
(* within the limit, and a handler's 200 means its chain let the request   *)
(* pass (http_server.cpp:278, :448); broadcast() meets sessions that exist *)
(* (websocket_server.cpp:387); a health report leaves nothing out.         *)
THEOREM ServersCorrect == ServerSpec /\ WsSpec /\ HealthSpec => []ServersSound
  <1>1. HttpInv /\ WsInv /\ HealthInv => ServersSound
    BY DEF HttpInv, WsInv, HealthInv, ServersSound
  <1> QED
    BY <1>1, HttpInvInit, HttpInvStep, WsInvInit, WsInvStep, HealthInvInit, HealthInvStep, PTL
    DEF ServerSpec, WsSpec, HealthSpec

-----------------------------------------------------------------------------
(* What the i-th entry of the log has to be, and how much of it there is   *)
(* at each stage of weave().                                               *)
Kinds == {"before", "returned", "threw", "after", "none"}
Advice == {<<k, matched[i]>> : k \in Kinds, i \in 1..Len(matched)}
Expected(i) ==
    LET n == Len(matched)
    IN  IF i <= n THEN <<"before", matched[i]>>
        ELSE IF i <= n + n THEN <<outcome, matched[i - n]>> ELSE <<"after", matched[i - (n + n)]>>
Offset(stage) ==
    IF stage = "before" THEN 0
    ELSE IF stage = "result" THEN Len(matched) ELSE Len(matched) + Len(matched)

LogInv ==
    /\ log \in Seq(Advice) /\ outcome \in {"none", "returned", "threw"}
    /\ position \in 1..(Len(matched) + 1)
    /\ advising = "idle" => log = << >>
    /\ advising \in {"before", "result", "after"} => Len(log) = Offset(advising) + position - 1
    /\ advising = "done" /\ ~escaped => Len(log) = Offset("after") + Len(matched)
    /\ advising # "done" \/ ~escaped => \A i \in 1..Len(log) : log[i] = Expected(i)
    /\ advising \in {"idle", "before", "result", "after", "done"}

LEMMA LogInvInit == WeaverInit => LogInv
  BY DEF WeaverInit, LogInv, Advice

LEMMA AdviseKeeps ==
    ASSUME LogInv, NEW stage \in {"before", "result", "after"}, NEW kind \in Kinds,
           Advise(stage, kind), position <= Len(matched) => Expected(Offset(stage) + position) = <<kind, matched[position]>>
    PROVE  LogInv'
  <1> DEFINE e == <<kind, matched[position]>>
  <1>0. Len(matched) \in Nat /\ Len(log) \in Nat /\ position \in Nat \ {0} /\ position <= Len(matched)
    BY DEF LogInv, Advise
  <1>1. e \in Advice
    BY <1>0 DEF Advice
  <1> HIDE DEF e
  <1>2. log' = Append(log, e) /\ UNCHANGED <<matched, outcome>> /\ advising = stage
    BY DEF Advise, e
  <1>3. log' \in Seq(Advice) /\ Len(log') = Len(log) + 1 /\ log'[Len(log) + 1] = e
        /\ \A i \in 1..Len(log) : log'[i] = log[i]
    BY <1>1, <1>2 DEF LogInv
  <1>4. Advice' = Advice /\ \A i : Expected(i)' = Expected(i)
    BY <1>2 DEF Advice, Expected
  <1>5. Len(log) + 1 = Offset(stage) + position /\ Offset(stage) \in Nat /\ Offset(stage)' = Offset(stage)
    BY <1>0, <1>2 DEF LogInv, Offset
  <1>6. \A i \in 1..Len(log') : log'[i] = Expected(i)'
    BY <1>0, <1>2, <1>3, <1>4, <1>5 DEF LogInv, e
  <1>7. CASE position' = position + 1 /\ UNCHANGED <<advising, escaped>>
    BY <1>0, <1>2, <1>3, <1>4, <1>5, <1>6, <1>7 DEF LogInv
  <1>8. CASE advising' = "done" /\ escaped' = TRUE /\ UNCHANGED position
    BY <1>0, <1>2, <1>3, <1>4, <1>8 DEF LogInv
  <1> QED BY <1>7, <1>8 DEF Advise

LEMMA LogInvStep == LogInv /\ [WeaverNext]_weaverVars => LogInv'
  <1> SUFFICES ASSUME LogInv, [WeaverNext]_weaverVars PROVE LogInv'
    OBVIOUS
  <1>0. Len(matched) \in Nat /\ position \in Nat \ {0} /\ Len(log) \in Nat
    BY DEF LogInv
  <1>1. CASE UNCHANGED callVars
    <2>1. Advice' = Advice /\ \A i : Expected(i)' = Expected(i) /\ Offset(i)' = Offset(i)
      BY <1>1 DEF callVars, Advice, Expected, Offset
    <2>2. UNCHANGED <<log, outcome, position, matched, advising, escaped>>
      BY <1>1 DEF callVars
    <2> QED BY <2>1, <2>2 DEF LogInv
  <1>2. CASE WeaveBegins
    <2>1. log' = << >> /\ position' = 1 /\ advising' = "before" /\ outcome' = outcome
      BY <1>2 DEF WeaveBegins, LogInv
    <2>2. Len(matched') \in Nat
      BY <1>2 DEF WeaveBegins
    <2> QED BY <2>1, <2>2 DEF LogInv, Offset, Advice
  <1>3. CASE AdviseBefore
    BY <1>0, <1>3, AdviseKeeps DEF AdviseBefore, Expected, Offset, Kinds
  <1>4. CASE RunTarget
    <2>1. /\ UNCHANGED <<matched, log, escaped>> /\ position' = 1
          /\ advising = "before" /\ advising' = "result" /\ outcome' \in {"returned", "threw"}
          /\ position = Len(matched) + 1
      BY <1>0, <1>4 DEF RunTarget, LogInv
    <2>2. Len(log) = Len(matched) /\ Advice' = Advice /\ Offset("result")' = Len(matched)
      BY <1>0, <2>1 DEF LogInv, Offset, Advice
    <2>3. \A i \in 1..Len(log) : Expected(i)' = Expected(i)
      BY <1>0, <2>1, <2>2 DEF Expected
    <2> QED BY <1>0, <2>1, <2>2, <2>3 DEF LogInv
  <1>5. CASE AdviseResult
    <2>1. Expected(Len(matched) + position) = <<outcome, matched[position]>> \/ position > Len(matched)
      BY <1>0 DEF Expected
    <2> QED BY <1>0, <1>5, <2>1, AdviseKeeps DEF AdviseResult, Offset, Kinds, LogInv
  <1>6. CASE AfterBegins
    <2>1. /\ UNCHANGED <<matched, log, escaped, outcome>> /\ position' = 1
          /\ advising = "result" /\ advising' = "after" /\ position = Len(matched) + 1
      BY <1>0, <1>6 DEF AfterBegins, LogInv
    <2>2. /\ Len(log) = Len(matched) + Len(matched) /\ Advice' = Advice
          /\ Offset("after")' = Len(matched) + Len(matched) /\ \A i : Expected(i)' = Expected(i)
      BY <1>0, <2>1 DEF LogInv, Offset, Advice, Expected
    <2> QED BY <1>0, <2>1, <2>2 DEF LogInv
  <1>7. CASE AdviseAfter
    <2>1. Expected(Len(matched) + Len(matched) + position) = <<"after", matched[position]>>
      BY <1>0 DEF Expected
    <2> QED BY <1>0, <1>7, <2>1, AdviseKeeps DEF AdviseAfter, Offset, Kinds
  <1>8. CASE WeaveEnds
    <2>1. /\ UNCHANGED <<matched, log, escaped, outcome, position>>
          /\ advising = "after" /\ advising' = "done" /\ position = Len(matched) + 1
      BY <1>0, <1>8 DEF WeaveEnds, LogInv
    <2>2. /\ Len(log) = Len(matched) + Len(matched) + Len(matched) /\ Advice' = Advice
          /\ Offset("after")' = Len(matched) + Len(matched) /\ \A i : Expected(i)' = Expected(i)
      BY <1>0, <2>1 DEF LogInv, Offset, Advice, Expected
    <2> QED BY <1>0, <2>1, <2>2 DEF LogInv
  <1>9. UNCHANGED callVars \/ WeaveBegins \/ AdviseBefore \/ RunTarget \/ AdviseResult
        \/ AfterBegins \/ AdviseAfter \/ WeaveEnds
    BY DEF WeaverNext, weaverVars, callVars, RegisterAspect, UnregisterAspect, ClearAspects
  <1> QED BY <1>1, <1>2, <1>3, <1>4, <1>5, <1>6, <1>7, <1>8, <1>9

(* What stands where in two sequences put together.                        *)
PutTogether(S, a, b, t) ==
    /\ t \in Seq(S) /\ Len(t) = Len(a) + Len(b)
    /\ \A i \in 1..Len(a) : t[i] = a[i]
    /\ \A i \in 1..Len(b) : t[Len(a) + i] = b[i]

LEMMA TwoParts ==
    ASSUME NEW S, NEW a \in Seq(S), NEW b \in Seq(S)
    PROVE  a \o b \in Seq(S) /\ PutTogether(S, a, b, a \o b)
  <1>1. a \o b \in Seq(S)
    OBVIOUS
  <1>2. Len(a \o b) = Len(a) + Len(b)
    OBVIOUS
  <1>3. ASSUME NEW i \in 1..Len(a) PROVE (a \o b)[i] = a[i]
    OBVIOUS
  <1>4. ASSUME NEW i \in 1..Len(b) PROVE (a \o b)[Len(a) + i] = b[i]
    OBVIOUS
  <1> QED BY <1>1, <1>2, <1>3, <1>4 DEF PutTogether

(* A log is put together of three parts of the same length.                *)
LEMMA ThreeParts ==
    ASSUME NEW n \in Nat, NEW a \in Seq(Advice), NEW b \in Seq(Advice), NEW c \in Seq(Advice),
           NEW s \in Seq(Advice), Len(a) = n, Len(b) = n, Len(c) = n, Len(s) = n + n + n,
           \A i \in 1..n : s[i] = a[i] /\ s[n + i] = b[i] /\ s[n + n + i] = c[i]
    PROVE  s = a \o b \o c
  <1> DEFINE u == a \o b
             t == u \o c
  <1>a. u \in Seq(Advice) /\ PutTogether(Advice, a, b, u)
    BY TwoParts, Zenon
  <1> HIDE DEF u
  <1>b. PutTogether(Advice, u, c, t)
    BY <1>a, TwoParts, Zenon
  <1> HIDE DEF t
  <1>1. Len(u) = n + n /\ t \in Seq(Advice) /\ Len(t) = n + n + n
    BY <1>a, <1>b DEF PutTogether
  <1>2. \A i \in 1..n : t[i] = a[i] /\ t[n + i] = b[i] /\ t[n + n + i] = c[i]
    <2>1. \A i \in 1..n : i \in 1..(n + n) /\ n + i \in 1..(n + n)
      OBVIOUS
    <2>2. \A i \in 1..n : u[i] = a[i] /\ u[n + i] = b[i]
      BY <1>a DEF PutTogether
    <2>3. /\ \A i \in 1..(n + n) : t[i] = u[i]
          /\ \A i \in 1..n : t[n + n + i] = c[i]
      BY <1>1, <1>b DEF PutTogether
    <2> QED BY <2>1, <2>2, <2>3
  <1>3. ASSUME NEW i \in 1..(n + n + n) PROVE s[i] = t[i]
    <2>1. CASE i \in 1..n
      BY <1>2, <2>1
    <2>2. CASE i \in (n + 1)..(n + n)
      <3>1. i - n \in 1..n /\ n + (i - n) = i
        BY <2>2
      <3> QED BY <1>2, <3>1
    <2>3. CASE i \in (n + n + 1)..(n + n + n)
      <3>1. i - (n + n) \in 1..n /\ n + n + (i - (n + n)) = i
        BY <2>3
      <3> QED BY <1>2, <3>1
    <2> QED BY <2>1, <2>2, <2>3
  <1>4. s = t
    BY <1>1, <1>3
  <1> QED BY <1>4 DEF t, u

LEMMA LogIsComplete == LogInv => AdviceComplete
  <1> SUFFICES ASSUME LogInv, advising = "done", ~escaped
               PROVE  LET n == Len(matched)
                          stage(kind) == [i \in 1..n |-> <<kind, matched[i]>>]
                      IN  log = stage("before") \o stage(outcome) \o stage("after")
    BY DEF AdviceComplete, LogInv, Stages
  <1> DEFINE n == Len(matched)
             stage(kind) == [i \in 1..n |-> <<kind, matched[i]>>]
  <1>0. n \in Nat
    OBVIOUS
  <1>1. \A kind \in Kinds : stage(kind) \in Seq(Advice) /\ Len(stage(kind)) = n
    BY <1>0 DEF Advice
  <1>2. outcome \in Kinds /\ "before" \in Kinds /\ "after" \in Kinds
    BY DEF LogInv, Kinds
  <1>3. Len(log) = n + n + n /\ log \in Seq(Advice) /\ \A i \in 1..Len(log) : log[i] = Expected(i)
    BY DEF LogInv, Offset
  <1>4. \A i \in 1..n : /\ Expected(i) = <<"before", matched[i]>>
                        /\ Expected(n + i) = <<outcome, matched[i]>>
                        /\ Expected(n + n + i) = <<"after", matched[i]>>
    BY <1>0 DEF Expected
  <1>5. \A i \in 1..n : i \in 1..(n + n + n) /\ n + i \in 1..(n + n + n) /\ n + n + i \in 1..(n + n + n)
    BY <1>0
  <1>6. \A i \in 1..n : /\ log[i] = stage("before")[i] /\ log[n + i] = stage(outcome)[i]
                        /\ log[n + n + i] = stage("after")[i]
    BY <1>3, <1>4, <1>5
  <1> HIDE DEF stage, n
  <1>7. /\ stage("before") \in Seq(Advice) /\ stage(outcome) \in Seq(Advice) /\ stage("after") \in Seq(Advice)
        /\ Len(stage("before")) = n /\ Len(stage(outcome)) = n /\ Len(stage("after")) = n
    BY <1>1, <1>2
  <1>8. log \in Seq(Advice) /\ Len(log) = n + n + n
    BY <1>3
  <1>9. log = stage("before") \o stage(outcome) \o stage("after")
    BY <1>0, <1>6, <1>7, <1>8, ThreeParts, ZenonT(60)
  <1> QED BY <1>9 DEF stage, n

-----------------------------------------------------------------------------
(* The next value of a counter modulo L is one more, or 0.                 *)
LEMMA NextMultiple ==
    ASSUME NEW L \in Nat, NEW p \in Int, NEW q \in Int, p < q
    PROVE  L * p + L <= L * q
  <1>1. q - p - 1 \in Nat
    OBVIOUS
  <1>2. L * (q - p - 1) \in Nat
    BY <1>1
  <1>3. L * (q - p - 1) = L * q - L * p - L
    OBVIOUS
  <1>4. L * q \in Int /\ L * p \in Int
    OBVIOUS
  <1> QED BY <1>2, <1>3, <1>4

LEMMA NextRemainder ==
    ASSUME NEW c \in Nat, NEW L \in Nat \ {0}
    PROVE  (c + 1) % L = (IF (c % L) + 1 = L THEN 0 ELSE (c % L) + 1)
  <1> DEFINE q == c \div L
             r == c % L
             p == (c + 1) \div L
             s == (c + 1) % L
  <1>1. /\ q \in Int /\ p \in Int /\ r \in 0..(L - 1) /\ s \in 0..(L - 1)
        /\ c = L * q + r /\ c + 1 = L * p + s
    OBVIOUS
  <1> HIDE DEF q, r, p, s
  <1>2. L * q \in Int /\ L * p \in Int /\ L * (q + 1) = L * q + L
    BY <1>1
  <1>3. CASE p = q
    BY <1>1, <1>2, <1>3 DEF r, s
  <1>4. CASE p < q
    <2>1. L * p + L <= L * q
      BY <1>1, <1>4, NextMultiple
    <2> QED BY <1>1, <1>2, <2>1
  <1>5. CASE p = q + 1
    <2>1. s = r + 1 - L
      BY <1>1, <1>2, <1>5
    <2> QED BY <1>1, <2>1 DEF r, s
  <1>6. CASE p > q + 1
    <2>1. L * (q + 1) + L <= L * p
      BY <1>1, <1>6, NextMultiple
    <2> QED BY <1>1, <1>2, <2>1
  <1> QED BY <1>1, <1>3, <1>4, <1>5, <1>6

(* Since the list changed, when the counter pointed at s, every position   *)
(* was selected q times, those from s up to the counter once more.         *)
InArc(x, s, r) == IF s <= r THEN s <= x /\ x < r ELSE x < r \/ s <= x
Spread(p, L, q, s, r) == \A n \in 1..L : p[n] = (IF InArc(n - 1, s, r) THEN q + 1 ELSE q)

SpreadInv ==
    /\ listed \in Seq(Instances) /\ counter \in Nat
    /\ picks \in [1..Len(listed) -> Nat]
    /\ Len(listed) # 0 =>
         \E q \in Nat, s \in 0..(Len(listed) - 1) :
            Spread(picks, Len(listed), q, s, counter % Len(listed))

LEMMA SpreadIsEven == SpreadInv => EvenSpread
  <1> SUFFICES ASSUME SpreadInv, NEW i \in 1..Len(listed), NEW j \in 1..Len(listed)
               PROVE  picks[i] <= picks[j] + 1
    BY DEF SpreadInv, EvenSpread
  <1>1. PICK q \in Nat, s \in 0..(Len(listed) - 1) :
           Spread(picks, Len(listed), q, s, counter % Len(listed))
    BY DEF SpreadInv
  <1>2. \A n \in 1..Len(listed) : picks[n] = q \/ picks[n] = q + 1
    BY <1>1 DEF Spread
  <1> QED BY <1>2

LEMMA SpreadInvInit == RpcInit => SpreadInv
  BY DEF RpcInit, SpreadInv

(* A list that changed has been selected from nowhere.                     *)
LEMMA SpreadAnew ==
    ASSUME SpreadInv, listed' \in Seq(Instances), picks' = NoPicks(listed'), UNCHANGED counter
    PROVE  SpreadInv'
  <1> DEFINE L == Len(listed')
  <1>1. L \in Nat /\ picks' = [i \in 1..L |-> 0] /\ counter \in Nat
    BY DEF NoPicks, SpreadInv
  <1>2. ASSUME L # 0
        PROVE  \E q \in Nat, s \in 0..(L - 1) : Spread(picks', L, q, s, counter' % L)
    <2>1. counter % L \in 0..(L - 1)
      BY <1>1, <1>2
    <2>2. Spread(picks', L, 0, counter % L, counter % L)
      BY <1>1, <2>1 DEF Spread, InArc
    <2> QED BY <2>1, <2>2
  <1>3. picks' \in [1..L -> Nat] /\ counter' \in Nat
    BY <1>1
  <1> QED BY <1>1, <1>2, <1>3 DEF SpreadInv

LEMMA SelectKeeps ==
    ASSUME SpreadInv, Select
    PROVE  SpreadInv'
  <1> DEFINE L == Len(listed)
             r == counter % L
             t == (counter + 1) % L
  <1>0. L \in Nat \ {0} /\ counter \in Nat /\ UNCHANGED listed /\ picks \in [1..L -> Nat] /\ DOMAIN listed = 1..L
    BY DEF Select, SpreadInv
  <1>1. CASE ~roundRobin
    <2>1. picks' = picks /\ counter' = counter
      BY <1>1 DEF Select
    <2> QED BY <1>0, <2>1 DEF SpreadInv
  <1>2. CASE roundRobin
    <2>1. r \in 0..(L - 1) /\ t = (IF r + 1 = L THEN 0 ELSE r + 1)
      <3>1. \A K \in Nat \ {0} : (counter + 1) % K = (IF (counter % K) + 1 = K THEN 0 ELSE (counter % K) + 1)
        BY <1>0, NextRemainder
      <3>2. \A K \in Nat \ {0} : counter % K \in 0..(K - 1)
        BY <1>0
      <3> QED BY <1>0, <3>1, <3>2
    <2>2. counter' = counter + 1 /\ picks' = [picks EXCEPT ![r + 1] = @ + 1]
      BY <1>0, <1>2 DEF Select
    <2>3. PICK q \in Nat, s \in 0..(L - 1) : Spread(picks, L, q, s, r)
      BY <1>0 DEF SpreadInv
    <2> HIDE DEF L, r, t
    <2>4. \A n \in 1..L : picks'[n] = IF n = r + 1 THEN picks[n] + 1 ELSE picks[n]
      BY <1>0, <2>1, <2>2
    <2>5. \E qq \in Nat, ss \in 0..(L - 1) : Spread(picks', L, qq, ss, t)
      <3>1. CASE t = s
        <4>1. Spread(picks', L, q + 1, s, t)
          BY <1>0, <2>1, <2>3, <2>4, <3>1 DEF InArc, Spread
        <4> QED BY <4>1
      <3>2. CASE t # s
        <4>1. Spread(picks', L, q, s, t)
          BY <1>0, <2>1, <2>3, <2>4, <3>2 DEF InArc, Spread
        <4> QED BY <4>1
      <3> QED BY <3>1, <3>2
    <2>6. picks' \in [1..L -> Nat]
      BY <1>0, <2>1, <2>2
    <2> QED BY <1>0, <2>2, <2>5, <2>6 DEF SpreadInv, L, t
  <1> QED BY <1>1, <1>2

LEMMA SpreadInvStep == SpreadInv /\ [RegistryNext \/ TransportNext]_rpcVars => SpreadInv'
  <1> SUFFICES ASSUME SpreadInv, [RegistryNext \/ TransportNext]_rpcVars PROVE SpreadInv'
    OBVIOUS
  <1>1. CASE UNCHANGED <<listed, counter, picks>>
    BY <1>1 DEF SpreadInv
  <1>2. ASSUME NEW i \in Instances, RegisterInstance(i) PROVE SpreadInv'
    BY <1>2, SpreadAnew DEF RegisterInstance, SpreadInv
  <1>3. ASSUME NEW i \in Instances, UnregisterInstance(i) PROVE SpreadInv'
    <2> DEFINE first == CHOOSE n \in {m \in DOMAIN listed : listed[m] = i} :
                           \A m \in {k \in DOMAIN listed : listed[k] = i} : n <= m
    <2>1. /\ listed' = [n \in 1..(Len(listed) - 1) |-> listed[IF n < first THEN n ELSE n + 1]]
          /\ picks' = NoPicks(listed') /\ UNCHANGED counter
      BY <1>3, Zenon DEF UnregisterInstance
    <2>2. \E n \in DOMAIN listed : listed[n] = i
      BY <1>3 DEF UnregisterInstance
    <2> HIDE DEF first
    <2>3. Len(listed) \in Nat \ {0} /\ \A n \in 1..Len(listed) : listed[n] \in Instances
      BY <2>2 DEF SpreadInv
    <2>4. \A n \in 1..(Len(listed) - 1) : listed[IF n < first THEN n ELSE n + 1] \in Instances
      BY <2>3
    <2>5. listed' \in Seq(Instances)
      BY <2>1, <2>3, <2>4
    <2> QED BY <2>1, <2>5, SpreadAnew
  <1>4. CASE Select
    BY <1>4, SelectKeeps
  <1>5. \/ UNCHANGED <<listed, counter, picks>> \/ Select
        \/ \E i \in Instances : RegisterInstance(i) \/ UnregisterInstance(i)
    BY DEF RegistryNext, TransportNext, rpcVars, registryVars, SetMode, SetService, DispatchBegins, DispatchEnds,
           StartTransport, StopTransport, SendRequest, RequestReturns, ReplyFinished, ReplyTimeout
  <1> QED BY <1>1, <1>2, <1>3, <1>4, <1>5

(* For any aspects and instances: weave() that no advice cut short ran all *)
(* advice of its copy once and in order (aop.cpp:60, :107, :140); and the  *)
(* round robin of LoadBalancer::select() serves the positions of a list    *)
(* that stays as it is evenly, wherever the counter stands                 *)
(* (service_registry.cpp:44).                                              *)
THEOREM CallsCorrect == WeaverSpec /\ RpcSpec => []CallsSound
  <1>1. LogInv /\ SpreadInv => CallsSound
    BY LogIsComplete, SpreadIsEven DEF CallsSound
  <1> QED
    BY <1>1, LogInvInit, LogInvStep, SpreadInvInit, SpreadInvStep, PTL DEF WeaverSpec, RpcSpec

-----------------------------------------------------------------------------
(* AuthManager.  A call that runs alone, from a settled state or as one    *)
(* that settles it, has by each of its places written so much of the three *)
(* copies.                                                                 *)
Info == [user : Users \union {"none"}, token : Users \union {"none", "refreshed"}]
Ops == {"none", "login", "logout", "refresh", "shutdown", "init"}
Places == {"idle", "set", "session", "save", "put", "put2", "clear", "load", "end"}
Calls == [op : Ops, at : Places, info : Info, auth : BOOLEAN, alone : BOOLEAN]
Settling == {"login", "logout", "shutdown"}

Agreed(u, a, s, st) ==
    /\ a = (u.user # "none") /\ s = u.token /\ st = u
    /\ u.user = "none" <=> u.token = "none"

Progress(k, u, a, s, st) ==
    /\ k.op \in {"login", "refresh"} /\ k.at = "set" =>
         Agreed(u, a, s, st) /\ u.user # "none" /\ k.info.token = "refreshed"
    /\ k.op \in {"login", "refresh"} /\ k.at # "set" =>
         /\ u.user # "none" /\ u.token # "none" /\ a = TRUE
         /\ IF k.at = "session" THEN k.info.token = u.token ELSE s = u.token
         /\ k.at \in {"put", "put2"} => k.info = u /\ k.auth = TRUE
         /\ k.at = "put2" => st.token = u.token
    /\ k.op \in {"logout", "shutdown"} =>
         /\ u = NoUser /\ a = FALSE
         /\ k.at \in {"put", "put2"} => k.auth = FALSE
         /\ k.at \in {"put2", "clear"} => st.token = "none"
         /\ k.at = "clear" => st.user = "none"
    /\ k.op = "init" =>
         /\ Agreed(u, a, s, st)
         /\ k.at = "load" => k.info.token = st.token /\ st.token # "none"
         /\ k.at = "session" => k.info.token = u.token

AuthTypes ==
    /\ userInfo \in Info /\ stored \in Info /\ authenticated \in BOOLEAN /\ settled \in BOOLEAN
    /\ call \in [Callers -> Calls]

Alone(cl, st) ==
    /\ \A c, d \in Callers : c # d /\ cl[c] # Idle /\ cl[c].alone => cl[d] = Idle
    /\ st => \A c \in Callers : cl[c] # Idle => cl[c].alone

Resting(cl, st) == st /\ \A c \in Callers : cl[c] = Idle
Trusted(k, st) == k # Idle /\ k.alone /\ (st \/ k.op \in Settling)

AuthInv ==
    /\ AuthTypes
    /\ Alone(call, settled)
    /\ Resting(call, settled) => Agreed(userInfo, authenticated, session, stored)
    /\ \A c \in Callers :
         Trusted(call[c], settled) => Progress(call[c], userInfo, authenticated, session, stored)

LEMMA IdleTyped == NoUser \in Info /\ Idle \in Calls
  <1>1. NoUser \in Info
    BY DEF NoUser, Info
  <1>2. Idle \in Calls
    BY <1>1 DEF Idle, Calls, Ops, Places
  <1> QED BY <1>1, <1>2

LEMMA AuthInvInit == AuthInit => AuthInv
  <1> SUFFICES ASSUME AuthInit PROVE AuthInv
    OBVIOUS
  <1>2. AuthTypes
    BY IdleTyped DEF AuthInit, AuthTypes
  <1>3. \A c \in Callers : call[c] = Idle
    BY DEF AuthInit
  <1>4. Agreed(userInfo, authenticated, session, stored)
    BY DEF AuthInit, Agreed, NoUser
  <1> QED BY <1>2, <1>3, <1>4 DEF AuthInv, Alone, Trusted

(* A call that begins finds the state settled and at rest, or leaves it    *)
(* unsettled.                                                              *)
LEMMA BeginKeeps ==
    ASSUME AuthInv, NEW c \in Callers, NEW rec \in Calls, call[c] = Idle, rec.op # "none",
           Begin(c, rec)
    PROVE  /\ call' \in [Callers -> Calls] /\ settled' \in BOOLEAN
           /\ Alone(call', settled')
           /\ ~ Resting(call', settled')
           /\ \A d \in Callers : Trusted(call'[d], settled') =>
                /\ d = c /\ call'[c] = [rec EXCEPT !.alone = TRUE]
                /\ settled' => Agreed(userInfo, authenticated, session, stored)
                /\ settled' \/ rec.op \in Settling
  <1> DEFINE others == {d \in Callers \ {c} : call[d] # Idle}
  <1> USE DEF AuthInv, AuthTypes
  <1>1. /\ call'[c] = [rec EXCEPT !.alone = (others = {})]
        /\ \A d \in Callers \ {c} : call'[d] = IF d \in others THEN [call[d] EXCEPT !.alone = FALSE]
                                                 ELSE Idle
        /\ settled' = (settled /\ others = {})
        /\ call' = [d \in Callers |-> call'[d]]
    BY DEF Begin
  <1>2. \A k \in Calls :
          /\ [k EXCEPT !.alone = FALSE] \in Calls /\ [k EXCEPT !.alone = FALSE].alone = FALSE
          /\ [k EXCEPT !.alone = FALSE].op = k.op
    BY DEF Calls
  <1>3. /\ [rec EXCEPT !.alone = TRUE] \in Calls /\ [rec EXCEPT !.alone = TRUE].alone = TRUE
        /\ [rec EXCEPT !.alone = TRUE].op = rec.op
    BY DEF Calls
  <1>4. Idle.op = "none"
    BY DEF Idle
  <1>6. CASE others = {}
    <2>1. \A d \in Callers : d # c => call'[d] = Idle
      BY <1>1, <1>6
    <2>2. call'[c] = [rec EXCEPT !.alone = TRUE]
      BY <1>1, <1>6
    <2>3. settled' => Resting(call, settled)
      BY <1>1, <1>6 DEF Resting
    <2>4. settled' \in BOOLEAN /\ \A d \in Callers : call'[d] \in Calls
      BY <1>1, <1>3, <2>1, <2>2, IdleTyped, ZenonT(60)
    <2>9. call' \in [Callers -> Calls]
      BY <1>1, <2>4
    <2>5. call'[c] # Idle /\ call'[c].alone = TRUE
      BY <1>3, <1>4, <2>2
    <2>6. settled' => Agreed(userInfo, authenticated, session, stored)
      BY <2>3
    <2>7. \A d \in Callers : Trusted(call'[d], settled') => d = c /\ (settled' \/ rec.op \in Settling)
      BY <1>3, <2>1, <2>2 DEF Trusted
    <2>8. Alone(call', settled') /\ ~ Resting(call', settled')
      BY <2>1, <2>5 DEF Alone, Resting
    <2> QED BY <2>2, <2>4, <2>6, <2>7, <2>8, <2>9
  <1>7. CASE others # {}
    <2>1. ~ settled' /\ call'[c] = [rec EXCEPT !.alone = FALSE]
      BY <1>1, <1>7
    <2>2. call'[c].alone = FALSE /\ call'[c] # Idle /\ call'[c] \in Calls
      BY <1>2, <1>4, <2>1
    <2>3. ASSUME NEW d \in Callers
          PROVE  call'[d] \in Calls /\ (call'[d] # Idle => call'[d].alone = FALSE)
      <3>1. CASE d = c
        BY <3>1, <2>2
      <3>2. CASE d # c /\ d \in others
        <4>1. call'[d] = [call[d] EXCEPT !.alone = FALSE] /\ call[d] \in Calls
          BY <3>2, <1>1
        <4> QED BY <4>1, <1>2
      <3>3. CASE d # c /\ d \notin others
        BY <3>3, <1>1, IdleTyped
      <3> QED BY <3>1, <3>2, <3>3
    <2>4. call' \in [Callers -> Calls]
      BY <1>1, <2>3
    <2>5. settled' \in BOOLEAN
      BY <2>1, <1>1
    <2> QED BY <2>1, <2>2, <2>3, <2>4, <2>5 DEF Alone, Resting, Trusted
  <1> QED BY <1>6, <1>7

(* A call that goes on alone is the only one there is.                     *)
LEMMA MoveKeeps ==
    ASSUME AuthInv, NEW c \in Callers, NEW k \in Calls, call[c].op # "none",
           k.op = call[c].op, k.alone = call[c].alone,
           call' = [call EXCEPT ![c] = k], settled' = settled
    PROVE  /\ call' \in [Callers -> Calls] /\ settled' \in BOOLEAN
           /\ Alone(call', settled')
           /\ ~ Resting(call', settled')
           /\ \A d \in Callers : Trusted(call'[d], settled') =>
                d = c /\ call'[c] = k /\ Trusted(call[c], settled)
  <1> USE DEF AuthInv, AuthTypes
  <1>1. call[c] # Idle /\ k # Idle
    BY DEF Idle
  <1>2. \A d \in Callers : call'[d] = IF d = c THEN k ELSE call[d]
    OBVIOUS
  <1>3. Alone(call', settled') /\ ~ Resting(call', settled')
    BY <1>1, <1>2 DEF Alone, Resting
  <1>4. \A d \in Callers : d # c /\ Trusted(call'[d], settled') => FALSE
    BY <1>1, <1>2 DEF Alone, Trusted
  <1> QED BY <1>1, <1>2, <1>3, <1>4 DEF Trusted

(* When a call ends the state is settled only if the call was trusted.     *)
LEMMA FinishKeeps ==
    ASSUME AuthInv, NEW c \in Callers, call[c].op # "none", Finish(c)
    PROVE  /\ call' \in [Callers -> Calls] /\ settled' \in BOOLEAN
           /\ Alone(call', settled')
           /\ Resting(call', settled') => Trusted(call[c], settled)
           /\ \A d \in Callers : ~ Trusted(call'[d], settled')
  <1> USE DEF AuthInv, AuthTypes
  <1>1. call[c] # Idle
    BY DEF Idle
  <1>2. \A d \in Callers : call'[d] = IF d = c THEN Idle ELSE call[d]
    BY DEF Finish
  <1>3. settled' => (settled \/ (call[c].alone /\ call[c].op \in Settling))
    BY DEF Finish, Settling
  <1>4. call' \in [Callers -> Calls] /\ settled' \in BOOLEAN
    BY IdleTyped DEF Finish, Calls
  <1>5. settled' => Trusted(call[c], settled)
    BY <1>1, <1>3 DEF Alone, Trusted
  <1>6. \A d \in Callers : call'[d] # Idle => d # c /\ ~ call'[d].alone /\ ~ settled'
    BY <1>1, <1>2, <1>5 DEF Alone, Trusted
  <1> QED BY <1>4, <1>5, <1>6 DEF Alone, Resting, Trusted

LEMMA AuthInvStep == AuthInv /\ [AuthNext]_authVars => AuthInv'
  <1> SUFFICES ASSUME AuthInv, [AuthNext]_authVars
               PROVE  AuthInv'
    OBVIOUS
  <1> USE DEF AuthInv, AuthTypes
  <1>U. UNCHANGED authVars => AuthInv'
    <2> SUFFICES ASSUME UNCHANGED authVars PROVE AuthInv'
      OBVIOUS
    <2> QED BY DEF authVars, Alone, Resting, Trusted, Agreed, Progress
  <1>1. ASSUME NEW c \in Callers, NEW u \in Users, LoginCall(c, u) PROVE AuthInv'
    <2> DEFINE rec == [Idle EXCEPT !.op = "login", !.at = "session", !.info = [user |-> u, token |-> u]]
    <2>1. /\ [user |-> u, token |-> u] \in Info
          /\ userInfo' = [user |-> u, token |-> u] /\ authenticated' = TRUE
          /\ call[c] = Idle /\ Begin(c, rec)
          /\ session' = session /\ stored' = stored
      BY <1>1 DEF LoginCall, Info
    <2>2. rec \in Calls /\ rec.op = "login" /\ rec.at = "session" /\ rec.info = [user |-> u, token |-> u]
      BY <2>1, IdleTyped DEF Idle, Calls, Ops, Places
    <2>3. u # "none"
      BY UsersAssumption
    <2> HIDE DEF rec
    <2>4. Progress([rec EXCEPT !.alone = TRUE], userInfo', authenticated', session', stored')
      BY <2>1, <2>2, <2>3 DEF Progress, Calls
    <2>5. /\ call' \in [Callers -> Calls] /\ settled' \in BOOLEAN
          /\ Alone(call', settled') /\ ~ Resting(call', settled')
          /\ \A d \in Callers : Trusted(call'[d], settled') => d = c /\ call'[c] = [rec EXCEPT !.alone = TRUE]
      BY <2>1, <2>2, BeginKeeps
    <2> QED BY <2>1, <2>4, <2>5
  <1>2. ASSUME NEW c \in Callers, NEW o \in {"logout", "shutdown"}, LogoutCall(c, o) PROVE AuthInv'
    <2> DEFINE rec == [Idle EXCEPT !.op = o, !.at = "save"]
    <2>1. /\ userInfo' = NoUser /\ authenticated' = FALSE
          /\ call[c] = Idle /\ Begin(c, rec)
          /\ session' = session /\ stored' = stored
      BY <1>2 DEF LogoutCall
    <2>2. rec \in Calls /\ rec.op = o /\ rec.at = "save"
      BY IdleTyped DEF Idle, Calls, Ops, Places
    <2> HIDE DEF rec
    <2>4. Progress([rec EXCEPT !.alone = TRUE], userInfo', authenticated', session', stored')
      BY <2>1, <2>2 DEF Progress, Calls
    <2>5. /\ call' \in [Callers -> Calls] /\ settled' \in BOOLEAN
          /\ Alone(call', settled') /\ ~ Resting(call', settled')
          /\ \A d \in Callers : Trusted(call'[d], settled') => d = c /\ call'[c] = [rec EXCEPT !.alone = TRUE]
      BY <2>1, <2>2, BeginKeeps
    <2> QED BY <2>1, <2>4, <2>5, IdleTyped
  <1>3. ASSUME NEW c \in Callers, RefreshCall(c) PROVE AuthInv'
    <2> DEFINE rec == [Idle EXCEPT !.op = "refresh", !.at = "set", !.info.token = "refreshed"]
    <2>1. /\ userInfo' = userInfo /\ authenticated' = authenticated /\ userInfo.user # "none"
          /\ call[c] = Idle /\ Begin(c, rec)
          /\ session' = session /\ stored' = stored
      BY <1>3 DEF RefreshCall
    <2>2. rec \in Calls /\ rec.op = "refresh" /\ rec.at = "set" /\ rec.info.token = "refreshed"
      BY IdleTyped DEF Idle, Calls, Ops, Places, Info, NoUser
    <2> HIDE DEF rec
    <2>4. Agreed(userInfo, authenticated, session, stored) =>
            Progress([rec EXCEPT !.alone = TRUE], userInfo, authenticated, session, stored)
      BY <2>1, <2>2 DEF Progress, Calls
    <2>5. /\ call' \in [Callers -> Calls] /\ settled' \in BOOLEAN
          /\ Alone(call', settled') /\ ~ Resting(call', settled')
          /\ \A d \in Callers : Trusted(call'[d], settled') =>
               /\ d = c /\ call'[c] = [rec EXCEPT !.alone = TRUE]
               /\ Agreed(userInfo, authenticated, session, stored)
      BY <2>1, <2>2, BeginKeeps DEF Settling
    <2> QED BY <2>1, <2>4, <2>5
  <1>4. ASSUME NEW c \in Callers, InitCall(c) PROVE AuthInv'
    <2> DEFINE at == IF stored.token = "none" THEN "end" ELSE "load"
               rec == [Idle EXCEPT !.op = "init", !.info.token = stored.token, !.at = at]
    <2>1. /\ userInfo' = userInfo /\ authenticated' = authenticated
          /\ call[c] = Idle /\ Begin(c, rec)
          /\ session' = session /\ stored' = stored
      BY <1>4 DEF InitCall
    <2>2. /\ rec \in Calls /\ rec.op = "init" /\ rec.info.token = stored.token
          /\ rec.at = IF stored.token = "none" THEN "end" ELSE "load"
      BY IdleTyped DEF Idle, Calls, Ops, Places, Info, NoUser
    <2> HIDE DEF rec
    <2>4. Agreed(userInfo, authenticated, session, stored) =>
            Progress([rec EXCEPT !.alone = TRUE], userInfo, authenticated, session, stored)
      BY <2>1, <2>2 DEF Progress, Calls
    <2>5. /\ call' \in [Callers -> Calls] /\ settled' \in BOOLEAN
          /\ Alone(call', settled') /\ ~ Resting(call', settled')
          /\ \A d \in Callers : Trusted(call'[d], settled') =>
               /\ d = c /\ call'[c] = [rec EXCEPT !.alone = TRUE]
               /\ Agreed(userInfo, authenticated, session, stored)
      BY <2>1, <2>2, BeginKeeps DEF Settling
    <2> QED BY <2>1, <2>4, <2>5
  <1>5. ASSUME NEW c \in Callers, RefreshSet(c) PROVE AuthInv'
    <2> DEFINE k == [call[c] EXCEPT !.at = "session"]
    <2>1. /\ call[c].op \in {"refresh"} /\ call[c].at = "set" /\ call[c] \in Calls
          /\ call' = [call EXCEPT ![c] = k] /\ settled' = settled
          /\ userInfo' = [userInfo EXCEPT !.token = "refreshed"] /\ authenticated' = authenticated
          /\ session' = session /\ stored' = stored
      BY <1>5 DEF RefreshSet, At, MoveTo
    <2>2. k \in Calls /\ k.op = call[c].op /\ k.alone = call[c].alone /\ k.at = "session" /\ k.info = call[c].info
      BY <2>1 DEF Calls, Places
    <2> HIDE DEF k
    <2>3. userInfo' \in Info /\ stored' \in Info /\ authenticated' \in BOOLEAN
      BY <2>1 DEF Info, Calls
    <2>4. Trusted(call[c], settled) => Progress(call[c], userInfo, authenticated, session, stored)
      OBVIOUS
    <2>8. Trusted(call[c], settled) =>
            authenticated = TRUE /\ userInfo.user # "none" /\ k.info.token = "refreshed"
      BY <2>1, <2>2, <2>4 DEF Progress, Agreed
    <2>9. userInfo'.user = userInfo.user /\ userInfo'.token = "refreshed"
      BY <2>1, <2>2 DEF Info
    <2>5. Trusted(call[c], settled) => Progress(k, userInfo', authenticated', session', stored')
      BY <2>1, <2>2, <2>8, <2>9 DEF Progress
    <2>6. call[c].op # "none"
      BY <2>1
    <2>7. /\ call' \in [Callers -> Calls] /\ settled' \in BOOLEAN
          /\ Alone(call', settled') /\ ~ Resting(call', settled')
          /\ \A d \in Callers : Trusted(call'[d], settled') => d = c /\ call'[c] = k /\ Trusted(call[c], settled)
      BY <2>1, <2>2, <2>6, MoveKeeps
    <2> QED BY <2>3, <2>5, <2>7
  <1>6. ASSUME NEW c \in Callers, SessionSet(c) PROVE AuthInv'
    <2> DEFINE k == [call[c] EXCEPT !.at = IF call[c].op = "init" THEN "end" ELSE "save"]
    <2>1. /\ call[c].op \in {"login", "refresh", "init"} /\ call[c].at = "session" /\ call[c] \in Calls
          /\ call' = [call EXCEPT ![c] = k] /\ settled' = settled
          /\ userInfo' = userInfo /\ authenticated' = authenticated
          /\ session' = call[c].info.token /\ stored' = stored
      BY <1>6 DEF SessionSet, At, MoveTo
    <2>2. k \in Calls /\ k.op = call[c].op /\ k.alone = call[c].alone /\ k.at = (IF call[c].op = "init" THEN "end" ELSE "save")
      BY <2>1 DEF Calls, Places
    <2> HIDE DEF k
    <2>3. userInfo' \in Info /\ stored' \in Info /\ authenticated' \in BOOLEAN
      BY <2>1 DEF Info, Calls
    <2>4. Trusted(call[c], settled) => Progress(call[c], userInfo, authenticated, session, stored)
      OBVIOUS
    <2>5. Trusted(call[c], settled) => Progress(k, userInfo', authenticated', session', stored')
      BY <2>1, <2>2, <2>4 DEF Progress, Agreed, Info, Calls
    <2>6. call[c].op # "none"
      BY <2>1
    <2>7. /\ call' \in [Callers -> Calls] /\ settled' \in BOOLEAN
          /\ Alone(call', settled') /\ ~ Resting(call', settled')
          /\ \A d \in Callers : Trusted(call'[d], settled') => d = c /\ call'[c] = k /\ Trusted(call[c], settled)
      BY <2>1, <2>2, <2>6, MoveKeeps
    <2> QED BY <2>3, <2>5, <2>7
  <1>7. ASSUME NEW c \in Callers, SaveSnapshot(c) PROVE AuthInv'
    <2> DEFINE k == [call[c] EXCEPT !.at = "put", !.info = userInfo, !.auth = authenticated]
    <2>1. /\ call[c].op \in {"login", "logout", "refresh", "shutdown"} /\ call[c].at = "save" /\ call[c] \in Calls
          /\ call' = [call EXCEPT ![c] = k] /\ settled' = settled
          /\ userInfo' = userInfo /\ authenticated' = authenticated
          /\ session' = session /\ stored' = stored
      BY <1>7 DEF SaveSnapshot, At, MoveTo
    <2>2. k \in Calls /\ k.op = call[c].op /\ k.alone = call[c].alone /\ k.at = "put" /\ k.info = userInfo /\ k.auth = authenticated
      BY <2>1 DEF Calls, Places
    <2> HIDE DEF k
    <2>3. userInfo' \in Info /\ stored' \in Info /\ authenticated' \in BOOLEAN
      BY <2>1 DEF Info, Calls
    <2>4. Trusted(call[c], settled) => Progress(call[c], userInfo, authenticated, session, stored)
      OBVIOUS
    <2>5. Trusted(call[c], settled) => Progress(k, userInfo', authenticated', session', stored')
      BY <2>1, <2>2, <2>4 DEF Progress, Agreed, Info, Calls
    <2>6. call[c].op # "none"
      BY <2>1
    <2>7. /\ call' \in [Callers -> Calls] /\ settled' \in BOOLEAN
          /\ Alone(call', settled') /\ ~ Resting(call', settled')
          /\ \A d \in Callers : Trusted(call'[d], settled') => d = c /\ call'[c] = k /\ Trusted(call[c], settled)
      BY <2>1, <2>2, <2>6, MoveKeeps
    <2> QED BY <2>3, <2>5, <2>7
  <1>8. ASSUME NEW c \in Callers, SavePut(c) PROVE AuthInv'
    <2> DEFINE k == [call[c] EXCEPT !.at = "put2"]
    <2>1. /\ call[c].op \in {"login", "logout", "refresh", "shutdown"} /\ call[c].at = "put" /\ call[c] \in Calls
          /\ call' = [call EXCEPT ![c] = k] /\ settled' = settled
          /\ userInfo' = userInfo /\ authenticated' = authenticated
          /\ session' = session
          /\ stored' = [stored EXCEPT !.token = IF call[c].auth THEN call[c].info.token ELSE "none"]
      BY <1>8 DEF SavePut, At, MoveTo
    <2>2. k \in Calls /\ k.op = call[c].op /\ k.alone = call[c].alone /\ k.at = "put2" /\ k.info = call[c].info /\ k.auth = call[c].auth
      BY <2>1 DEF Calls, Places
    <2> HIDE DEF k
    <2>3. userInfo' \in Info /\ stored' \in Info /\ authenticated' \in BOOLEAN
      BY <2>1 DEF Info, Calls
    <2>4. Trusted(call[c], settled) => Progress(call[c], userInfo, authenticated, session, stored)
      OBVIOUS
    <2>5. Trusted(call[c], settled) => Progress(k, userInfo', authenticated', session', stored')
      BY <2>1, <2>2, <2>4 DEF Progress, Agreed, Info, Calls
    <2>6. call[c].op # "none"
      BY <2>1
    <2>7. /\ call' \in [Callers -> Calls] /\ settled' \in BOOLEAN
          /\ Alone(call', settled') /\ ~ Resting(call', settled')
          /\ \A d \in Callers : Trusted(call'[d], settled') => d = c /\ call'[c] = k /\ Trusted(call[c], settled)
      BY <2>1, <2>2, <2>6, MoveKeeps
    <2> QED BY <2>3, <2>5, <2>7
  <1>9. ASSUME NEW c \in Callers, LoadRest(c) PROVE AuthInv'
    <2> DEFINE k == [call[c] EXCEPT !.at = "session"]
    <2>1. /\ call[c].op \in {"init"} /\ call[c].at = "load" /\ call[c] \in Calls
          /\ call' = [call EXCEPT ![c] = k] /\ settled' = settled
          /\ userInfo' = [user |-> stored.user, token |-> call[c].info.token] /\ authenticated' = TRUE
          /\ session' = session /\ stored' = stored
      BY <1>9 DEF LoadRest, At, MoveTo
    <2>2. k \in Calls /\ k.op = call[c].op /\ k.alone = call[c].alone /\ k.at = "session" /\ k.info = call[c].info
      BY <2>1 DEF Calls, Places
    <2> HIDE DEF k
    <2>3. userInfo' \in Info /\ stored' \in Info /\ authenticated' \in BOOLEAN
      BY <2>1 DEF Info, Calls
    <2>4. Trusted(call[c], settled) => Progress(call[c], userInfo, authenticated, session, stored)
      OBVIOUS
    <2>8. Trusted(call[c], settled) =>
            /\ Agreed(userInfo, authenticated, session, stored)
            /\ call[c].info.token = stored.token /\ stored.token # "none"
      BY <2>1, <2>4 DEF Progress
    <2>9. Trusted(call[c], settled) => userInfo' = stored /\ authenticated = TRUE /\ stored = userInfo
      BY <2>1, <2>8 DEF Agreed, Info
    <2>5. Trusted(call[c], settled) => Progress(k, userInfo', authenticated', session', stored')
      BY <2>1, <2>2, <2>8, <2>9 DEF Progress
    <2>6. call[c].op # "none"
      BY <2>1
    <2>7. /\ call' \in [Callers -> Calls] /\ settled' \in BOOLEAN
          /\ Alone(call', settled') /\ ~ Resting(call', settled')
          /\ \A d \in Callers : Trusted(call'[d], settled') => d = c /\ call'[c] = k /\ Trusted(call[c], settled)
      BY <2>1, <2>2, <2>6, MoveKeeps
    <2> QED BY <2>3, <2>5, <2>7
  <1>10. ASSUME NEW c \in Callers, SavePutRest(c) PROVE AuthInv'
    <2>1. /\ call[c].op \in {"login", "logout", "refresh", "shutdown"} /\ call[c].at = "put2" /\ call[c] \in Calls
          /\ userInfo' = userInfo /\ authenticated' = authenticated /\ session' = session
          /\ stored' = [stored EXCEPT !.user = IF call[c].auth THEN call[c].info.user ELSE "none"]
      BY <1>10 DEF SavePutRest, At
    <2>2. userInfo' \in Info /\ stored' \in Info /\ authenticated' \in BOOLEAN
      BY <2>1 DEF Info, Calls
    <2>3. Trusted(call[c], settled) => Progress(call[c], userInfo, authenticated, session, stored)
      OBVIOUS
    <2>4. call[c].op # "none"
      BY <2>1
    <2>5. CASE call[c].op \in {"login", "refresh"}
      <3>1. Finish(c)
        BY <1>10, <2>5 DEF SavePutRest
      <3>2. Trusted(call[c], settled) => stored' = userInfo /\ userInfo.user # "none"
        BY <2>1, <2>3, <2>5 DEF Progress, Info
      <3>3. Trusted(call[c], settled) => Agreed(userInfo', authenticated', session', stored')
        BY <2>1, <2>3, <2>5, <3>2 DEF Progress, Agreed
      <3> QED BY <2>2, <2>4, <3>1, <3>3, FinishKeeps
    <2>6. CASE call[c].op \notin {"login", "refresh"}
      <3> DEFINE k == [call[c] EXCEPT !.at = "clear"]
      <3>1. call' = [call EXCEPT ![c] = k] /\ settled' = settled
        BY <1>10, <2>6 DEF SavePutRest, MoveTo
      <3>2. k \in Calls /\ k.op = call[c].op /\ k.alone = call[c].alone /\ k.at = "clear"
        BY <2>1 DEF Calls, Places
      <3> HIDE DEF k
      <3>3. Trusted(call[c], settled) => Progress(k, userInfo', authenticated', session', stored')
        BY <2>1, <2>3, <2>6, <3>2 DEF Progress, Info
      <3>4. /\ call' \in [Callers -> Calls] /\ settled' \in BOOLEAN
            /\ Alone(call', settled') /\ ~ Resting(call', settled')
            /\ \A d \in Callers : Trusted(call'[d], settled') => d = c /\ call'[c] = k /\ Trusted(call[c], settled)
        BY <2>4, <3>1, <3>2, MoveKeeps
      <3> QED BY <2>2, <3>3, <3>4
    <2> QED BY <2>5, <2>6
  <1>11. ASSUME NEW c \in Callers, SessionClear(c) PROVE AuthInv'
    <2>1. /\ call[c].op \in {"logout", "shutdown"} /\ call[c].at = "clear" /\ Finish(c)
          /\ userInfo' = userInfo /\ authenticated' = authenticated /\ session' = "none" /\ stored' = stored
      BY <1>11 DEF SessionClear, At
    <2>2. Trusted(call[c], settled) => Progress(call[c], userInfo, authenticated, session, stored)
      OBVIOUS
    <2>3. Trusted(call[c], settled) => Agreed(userInfo', authenticated', session', stored')
      BY <2>1, <2>2 DEF Progress, Agreed, Info, NoUser
    <2> QED BY <2>1, <2>3, FinishKeeps
  <1>12. ASSUME NEW c \in Callers, InitEnd(c) PROVE AuthInv'
    <2>1. /\ call[c].op = "init" /\ Finish(c)
          /\ userInfo' = userInfo /\ authenticated' = authenticated /\ session' = session /\ stored' = stored
      BY <1>12 DEF InitEnd, At
    <2>2. Trusted(call[c], settled) => Agreed(userInfo', authenticated', session', stored')
      BY <2>1 DEF Progress
    <2> QED BY <2>1, <2>2, FinishKeeps
  <1> QED BY <1>U, <1>1, <1>2, <1>3, <1>4, <1>5, <1>6, <1>7, <1>8, <1>9, <1>10, <1>11, <1>12 DEF AuthNext

(* Memory: what init() loads has a token.                                  *)
MemoryInv ==
    /\ MemoryAgrees
    /\ \A c \in Callers : call[c].at = "load" => call[c].info.token # "none"

LEMMA MemoryInvStep == AuthInv /\ MemoryInv /\ [AuthNext]_authVars => MemoryInv'
  <1> SUFFICES ASSUME AuthInv, MemoryInv, [AuthNext]_authVars PROVE MemoryInv'
    OBVIOUS
  <1>0. call \in [Callers -> Calls] /\ userInfo \in Info /\ authenticated \in BOOLEAN
    BY DEF AuthInv, AuthTypes
  <1>1. ASSUME NEW c \in Callers, NEW rec \in Calls, Begin(c, rec), rec.at = "load" => rec.info.token # "none",
               MemoryAgrees'
        PROVE  MemoryInv'
    <2>1. ASSUME NEW d \in Callers PROVE call'[d].at = "load" => call'[d].info.token # "none"
      <3>1. \A k \in Calls, b \in BOOLEAN :
              [k EXCEPT !.alone = b].at = k.at /\ [k EXCEPT !.alone = b].info = k.info
        BY DEF Calls
      <3>2. \/ \E b \in BOOLEAN : call'[d] = [rec EXCEPT !.alone = b]
            \/ call'[d] = [call[d] EXCEPT !.alone = FALSE] \/ call'[d] = call[d]
        BY <1>1 DEF Begin
      <3>3. ASSUME NEW b \in BOOLEAN, call'[d] = [rec EXCEPT !.alone = b]
            PROVE  call'[d].at = "load" => call'[d].info.token # "none"
        <4>1. call'[d].at = rec.at /\ call'[d].info = rec.info
          BY <3>1, <3>3
        <4> QED BY <1>1, <4>1
      <3>4. CASE call'[d] = [call[d] EXCEPT !.alone = FALSE]
        <4>1. call[d] \in Calls
          BY <1>0
        <4>2. call'[d].at = call[d].at /\ call'[d].info = call[d].info
          BY <3>1, <3>4, <4>1
        <4> QED BY <4>2 DEF MemoryInv
      <3>5. CASE call'[d] = call[d]
        BY <3>5 DEF MemoryInv
      <3> QED BY <3>2, <3>3, <3>4, <3>5
    <2> QED BY <1>1, <2>1 DEF MemoryInv
  <1>2. ASSUME NEW c \in Callers, NEW k, call' = [call EXCEPT ![c] = k], k.at # "load", MemoryAgrees'
        PROVE  MemoryInv'
    BY <1>0, <1>2 DEF MemoryInv
  <1>3. ASSUME NEW c \in Callers, NEW p \in Places \ {"load"}, MoveTo(c, p), MemoryAgrees' PROVE MemoryInv'
    <2>1. call' = [call EXCEPT ![c] = [call[c] EXCEPT !.at = p]] /\ [call[c] EXCEPT !.at = p].at # "load"
      BY <1>0, <1>3 DEF MoveTo, Calls
    <2> QED BY <1>2, <1>3, <2>1
  <1>4. ASSUME NEW c \in Callers, Finish(c), MemoryAgrees' PROVE MemoryInv'
    <2>1. call' = [call EXCEPT ![c] = Idle] /\ Idle.at # "load"
      BY <1>4 DEF Finish, Idle
    <2> QED BY <1>2, <1>4, <2>1
  <1>5. UNCHANGED <<userInfo, authenticated>> => MemoryAgrees'
    BY DEF MemoryInv, MemoryAgrees
  <1>U. CASE UNCHANGED authVars
    BY <1>U DEF authVars, MemoryInv, MemoryAgrees
  <1>6. ASSUME NEW c \in Callers, NEW u \in Users, LoginCall(c, u) PROVE MemoryInv'
    <2> DEFINE rec == [Idle EXCEPT !.op = "login", !.at = "session", !.info = [user |-> u, token |-> u]]
    <2>1. rec \in Calls /\ rec.at = "session"
      BY IdleTyped DEF Idle, Calls, Ops, Places, Info
    <2>2. Begin(c, rec) /\ userInfo' = [user |-> u, token |-> u] /\ authenticated' = TRUE
      BY <1>6 DEF LoginCall
    <2>3. u # "none"
      BY UsersAssumption
    <2>4. MemoryAgrees'
      BY <2>2, <2>3 DEF MemoryAgrees
    <2> HIDE DEF rec
    <2> QED BY <1>1, <2>1, <2>2, <2>4
  <1>7. ASSUME NEW c \in Callers, NEW o \in {"logout", "shutdown"}, LogoutCall(c, o) PROVE MemoryInv'
    <2> DEFINE rec == [Idle EXCEPT !.op = o, !.at = "save"]
    <2>1. rec \in Calls /\ rec.at = "save"
      BY IdleTyped DEF Idle, Calls, Ops, Places
    <2>2. Begin(c, rec) /\ userInfo' = NoUser /\ authenticated' = FALSE
      BY <1>7 DEF LogoutCall
    <2>4. MemoryAgrees'
      BY <2>2 DEF MemoryAgrees, NoUser
    <2> HIDE DEF rec
    <2> QED BY <1>1, <2>1, <2>2, <2>4
  <1>8. ASSUME NEW c \in Callers, RefreshCall(c) PROVE MemoryInv'
    <2> DEFINE rec == [Idle EXCEPT !.op = "refresh", !.at = "set", !.info.token = "refreshed"]
    <2>1. rec \in Calls /\ rec.at = "set"
      BY IdleTyped DEF Idle, Calls, Ops, Places, Info, NoUser
    <2>2. Begin(c, rec) /\ MemoryAgrees'
      BY <1>8, <1>5 DEF RefreshCall
    <2> HIDE DEF rec
    <2> QED BY <1>1, <2>1, <2>2
  <1>9. ASSUME NEW c \in Callers, InitCall(c) PROVE MemoryInv'
    <2> DEFINE at == IF stored.token = "none" THEN "end" ELSE "load"
               rec == [Idle EXCEPT !.op = "init", !.info.token = stored.token, !.at = at]
    <2>0. stored \in Info
      BY DEF AuthInv, AuthTypes
    <2>1. rec \in Calls /\ rec.info.token = stored.token /\ rec.at = IF stored.token = "none" THEN "end" ELSE "load"
      BY <2>0, IdleTyped DEF Idle, Calls, Ops, Places, Info, NoUser
    <2>2. Begin(c, rec) /\ MemoryAgrees'
      BY <1>9, <1>5 DEF InitCall
    <2> HIDE DEF rec
    <2> QED BY <1>1, <2>1, <2>2
  <1>10. ASSUME NEW c \in Callers, RefreshSet(c) PROVE MemoryInv'
    <2>1. MoveTo(c, "session") /\ userInfo' = [userInfo EXCEPT !.token = "refreshed"] /\ authenticated' = authenticated
      BY <1>10 DEF RefreshSet
    <2>2. userInfo'.user = userInfo.user /\ userInfo'.token = "refreshed"
      BY <1>0, <2>1 DEF Info
    <2>3. MemoryAgrees'
      BY <2>1, <2>2 DEF MemoryAgrees, MemoryInv
    <2> QED BY <1>3, <2>1, <2>3 DEF Places
  <1>11. ASSUME NEW c \in Callers, SessionSet(c) PROVE MemoryInv'
    <2>1. MemoryAgrees' /\ (MoveTo(c, "end") \/ MoveTo(c, "save"))
      BY <1>5, <1>11 DEF SessionSet
    <2> QED BY <1>3, <2>1 DEF Places
  <1>12. ASSUME NEW c \in Callers, SaveSnapshot(c) PROVE MemoryInv'
    <2> DEFINE k == [call[c] EXCEPT !.at = "put", !.info = userInfo, !.auth = authenticated]
    <2>1. MemoryAgrees' /\ call' = [call EXCEPT ![c] = k]
      BY <1>0, <1>5, <1>12 DEF SaveSnapshot
    <2>2. k.at = "put"
      BY <1>0 DEF Calls
    <2> HIDE DEF k
    <2> QED BY <1>2, <2>1, <2>2
  <1>13. ASSUME NEW c \in Callers, SavePut(c) \/ SavePutRest(c) \/ SessionClear(c) \/ InitEnd(c)
         PROVE  MemoryInv'
    <2>1. MemoryAgrees' /\ (MoveTo(c, "put2") \/ MoveTo(c, "clear") \/ Finish(c))
      BY <1>5, <1>13 DEF SavePut, SavePutRest, SessionClear, InitEnd
    <2> QED BY <1>3, <1>4, <2>1 DEF Places
  <1>14. ASSUME NEW c \in Callers, LoadRest(c) PROVE MemoryInv'
    <2>1. call[c].at = "load" /\ MoveTo(c, "session") /\ authenticated' = TRUE
          /\ userInfo' = [user |-> stored.user, token |-> call[c].info.token]
      BY <1>14 DEF LoadRest, At
    <2>2. MemoryAgrees'
      BY <2>1 DEF MemoryInv, MemoryAgrees
    <2> QED BY <1>3, <2>1, <2>2 DEF Places
  <1> QED BY <1>U, <1>6, <1>7, <1>8, <1>9, <1>10, <1>11, <1>12, <1>13, <1>14 DEF AuthNext

(* Permission *)
PermissionInv == \A r \in DOMAIN granted : granted[r] \subseteq registered

LEMMA PermissionInvStep == PermissionInv /\ [PermissionNext]_permissionVars => PermissionInv'
  BY DEF PermissionInv, PermissionNext, RegisterPermission, RegisterRole, permissionVars

LEMMA GrantsAreRegistered == PermissionInv => GrantsRegistered
  BY DEF PermissionInv, GrantsRegistered, Granted, GrantedAll, GrantedAny

(* When TokenManager takes its token for expired *)
LentInv == lent \in BOOLEAN /\ (~ lent => expiresIn \in Lifetimes \union {0})

ExpiryInv ==
    /\ clock \in Nat \ {0} /\ issued \in Nat /\ expiresIn \in Int
    /\ bearer \in SomeTokens \union {NoToken}
    /\ payload.exp = bearer.exp /\ payload.exp \in Nat
    /\ bearer.kind = "none" => issued = 0
    /\ renewed /\ bearer.exp = 0 => ~ IsTokenExpired
    /\ LentInv

LEMMA TokenFields ==
    ASSUME NEW t \in SomeTokens
    PROVE  /\ t.exp \in Nat /\ t.iat \in Nat /\ t.kind \in {"jwt", "opaque"}
           /\ t.kind = "opaque" => t.exp = 0
  BY ExpiryAssumption DEF SomeTokens, Opaque

LEMMA ExpiryInvInit == ExpiryInit => ExpiryInv
  <1>1. ExpiryInit => LentInv
    BY Zenon DEF ExpiryInit, LentInv
  <1> QED BY <1>1 DEF ExpiryInit, ExpiryInv, NoToken, NoPayload

(* Whatever came before, a token without an expiry is good when it is set. *)
LEMMA TakeTokenKeeps ==
    ASSUME ExpiryInv, NEW t \in SomeTokens, TakeToken(t), clock' = clock
    PROVE  ExpiryInv'
  <1>1. Parsed(t).exp = t.exp /\ Parsed(t).exp \in Nat /\ Parsed(t).iat \in Nat
    BY TokenFields DEF Parsed, NoPayload
  <1>2. /\ bearer' = t /\ payload' = Parsed(t) /\ issued' \in Nat /\ expiresIn' \in Int
        /\ t.exp = 0 => issued' = clock /\ expiresIn' = expiresIn
    BY <1>1 DEF TakeToken, ExpiryInv
  <1>4. LentInv'
    BY <1>1 DEF TakeToken, ExpiryInv, LentInv
  <1>3. bearer'.exp = 0 => ~ IsTokenExpired'
    BY <1>1, <1>2 DEF IsTokenExpired, ExpiryInv
  <1> QED BY <1>1, <1>2, <1>3, <1>4, TokenFields DEF ExpiryInv

LEMMA ExpiryInvStep == ExpiryInv /\ [ExpiryNext]_expiryVars => ExpiryInv'
  <1> SUFFICES ASSUME ExpiryInv, [ExpiryNext]_expiryVars PROVE ExpiryInv'
    OBVIOUS
  <1>1. CASE UNCHANGED expiryVars
    BY <1>1 DEF expiryVars, ExpiryInv, IsTokenExpired, LentInv
  <1>2. CASE ClearToken
    <2>1. LentInv'
      BY <1>2, Zenon DEF ClearToken, LentInv
    <2> QED BY <1>2, <2>1 DEF ClearToken, ExpiryInv, NoToken, NoPayload
  <1>3. CASE SetRefreshToken
    BY <1>3 DEF SetRefreshToken, ExpiryInv, LentInv
  <1>4. CASE TimeGoesOn
    BY <1>4 DEF TimeGoesOn, ExpiryInv, LentInv
  <1>5. ASSUME NEW n \in Lifetimes, SetExpiresIn(n) PROVE ExpiryInv'
    <2>1. LentInv'
      BY <1>5, Zenon DEF SetExpiresIn, LentInv
    <2> QED BY <1>5, <2>1, ExpiryAssumption DEF SetExpiresIn, ExpiryInv
  <1>6. ASSUME NEW t \in SomeTokens, SetToken(t) PROVE ExpiryInv'
    BY <1>6, TakeTokenKeeps DEF SetToken
  <1>7. ASSUME NEW t \in SomeTokens, NEW a \in Ahead, AutoRefresh(a, t) PROVE ExpiryInv'
    <2>1. CASE TakeToken(t)
      BY <1>7, <2>1, TakeTokenKeeps DEF AutoRefresh
    <2>2. CASE ~ TakeToken(t)
      <3>1. /\ renewed' = ~ IsTokenAboutToExpire(a) /\ UNCHANGED <<clock, canRefresh>>
            /\ UNCHANGED <<bearer, payload, expiresIn, issued, lent>>
        BY <1>7, <2>2 DEF AutoRefresh
      <3>2. IsTokenExpired => IsTokenAboutToExpire(a)
        BY ExpiryAssumption DEF IsTokenExpired, IsTokenAboutToExpire, ExpiryInv
      <3>3. IsTokenExpired' = IsTokenExpired
        BY <3>1 DEF IsTokenExpired
      <3> QED BY <3>1, <3>2, <3>3 DEF ExpiryInv, LentInv
    <2> QED BY <2>1, <2>2
  <1> QED BY <1>1, <1>2, <1>3, <1>4, <1>5, <1>6, <1>7 DEF ExpiryNext

LEMMA ExpiryIsSound == ExpiryInv => ExpirySound
  <1> SUFFICES ASSUME ExpiryInv PROVE ExpirySound
    OBVIOUS
  <1>0. bearer.exp \in Nat /\ (bearer.kind = "none" => bearer.exp = 0)
    BY TokenFields DEF ExpiryInv, NoToken
  <1>1. \A a \in Ahead : IsTokenExpired => IsTokenAboutToExpire(a)
    BY ExpiryAssumption DEF IsTokenExpired, IsTokenAboutToExpire, ExpiryInv
  <1>2. bearer.exp > 0 => (IsTokenExpired <=> clock >= bearer.exp)
    BY <1>0 DEF IsTokenExpired, ExpiryInv
  <1>3. (bearer.exp = 0 /\ issued = clock) => ~ IsTokenExpired
    BY <1>0 DEF IsTokenExpired, ExpiryInv
  <1>4. bearer.kind = "none" => ~ IsTokenExpired
    BY <1>0 DEF IsTokenExpired, ExpiryInv
  <1>5. renewed /\ IsTokenExpired => bearer.exp > 0
    BY <1>0 DEF ExpiryInv
  <1>6. bearer.exp = 0 /\ IsTokenExpired /\ ~ lent => expiresIn \in Lifetimes
    BY <1>0 DEF ExpiryInv, IsTokenExpired, LentInv
  <1> QED BY <1>1, <1>2, <1>3, <1>4, <1>5, <1>6 DEF ExpirySound

(* AesSecureStorage.  An open storage has the key of the salt file once    *)
(* there is one; what is on disk and in memory of a key that is not        *)
(* spoiled was encrypted with it, and before there is one nothing is.      *)
Salts == {"s1", "s2", "s3", "s4"}
Readable(e, s, A) == IF e = None THEN "none" \in A ELSE e.salt = s /\ e.secret \in A

TokensInv ==
    /\ drawn \in 0..MaxSalts
    /\ salt \in Salts \union {"none"} /\ key \in Salts \union {"empty", "zeros"}
    /\ IsOpen /\ salt # "none" => key = salt
    /\ \A k \in Keys \ spoiled :
         /\ Readable(disk[k], salt, acked[k]) /\ (disk[k] # None => salt # "none")
         /\ IF IsOpen /\ salt # "none" THEN Readable(entries[k], key, acked[k]) ELSE entries[k] = None

LEMMA TokensInvInit == TokensInit => TokensInv
  <1> SUFFICES ASSUME TokensInit PROVE TokensInv
    OBVIOUS
  <1>1. drawn \in 0..MaxSalts /\ salt = "none" /\ ~ IsOpen /\ entries = NoEntries
    BY SaltsAssumption DEF TokensInit, IsOpen, EmptyKey
  <1>2. \A k \in Keys : disk[k] = None /\ "none" \in acked[k]
    BY DEF TokensInit, NoEntries
  <1>3. \A k \in Keys : entries[k] = None
    BY <1>1 DEF NoEntries
  <1>4. key = "empty"
    BY DEF TokensInit, EmptyKey
  <1> QED BY <1>1, <1>2, <1>3, <1>4 DEF TokensInv, Readable

LEMMA OpenStorageKeeps ==
    ASSUME TokensInv, OpenStorage
    PROVE  TokensInv'
  <1>1. drawn' \in 0..MaxSalts
    BY SaltsAssumption DEF TokensInv, OpenStorage, DeriveKey
  <1>2. spoiled' = spoiled /\ disk' = disk /\ acked' = acked
    BY DEF OpenStorage
  <1>3. /\ salt' \in Salts \union {"none"} /\ key' \in Salts
        /\ salt' # "none" => key' = salt'
        /\ salt # "none" => salt' = salt
    <2>1. CASE salt # "none"
      BY <2>1 DEF OpenStorage, DeriveKey, TokensInv
    <2>2. CASE salt = "none"
      <3>1. drawn + 1 \in {1, 2, 3, 4}
        BY <2>2, SaltsAssumption DEF OpenStorage, DeriveKey, TokensInv
      <3>2. SaltName(drawn + 1) \in Salts
        BY <3>1 DEF SaltName, Salts
      <3> QED BY <2>2, <3>2 DEF OpenStorage, DeriveKey, TokensInv
    <2> QED BY <2>1, <2>2
  <1>4. ASSUME NEW k \in Keys \ spoiled
        PROVE  /\ Readable(disk[k], salt', acked[k]) /\ (disk[k] # None => salt' # "none")
               /\ IF salt' # "none" THEN Readable(entries'[k], salt', acked[k]) ELSE entries'[k] = None
    <2>1. entries'[k] = IF disk[k] # None THEN disk[k] ELSE entries[k]
      BY DEF OpenStorage
    <2>2. Readable(disk[k], salt', acked[k]) /\ (disk[k] # None => salt' # "none" /\ salt' = salt)
      BY <1>3 DEF TokensInv, Readable
    <2>3. CASE IsOpen /\ salt # "none"
      BY <1>3, <2>1, <2>2, <2>3 DEF TokensInv
    <2>4. CASE ~ (IsOpen /\ salt # "none")
      <3>1. entries[k] = None
        BY <2>4 DEF TokensInv
      <3> QED BY <2>1, <2>2, <3>1 DEF Readable
    <2> QED BY <2>2, <2>3, <2>4
  <1>5. IsOpen'
    BY <1>3 DEF IsOpen, Salts
  <1> QED BY <1>1, <1>2, <1>3, <1>4, <1>5 DEF TokensInv

LEMMA StoreAllKeeps ==
    ASSUME TokensInv, NEW ks \in SUBSET Keys, NEW o \in Outcomes, NEW final, StoreAll(ks, final, o)
    PROVE  TokensInv'
  <1>0. /\ drawn' = drawn /\ salt' = salt
        /\ o # "torn" => key' = key
        /\ o = "torn" => key' = EmptyKey
    BY DEF StoreAll, Persist
  <1>1. CASE o = "torn" \/ ~ IsOpen
    <2>1. spoiled' = Keys
      BY <1>1 DEF StoreAll
    <2>2. ~ IsOpen'
      BY <1>0, <1>1 DEF IsOpen, EmptyKey
    <2>3. key' \in Salts \union {"empty", "zeros"}
      BY <1>0 DEF TokensInv, EmptyKey
    <2>4. \A k \in Keys \ spoiled' : FALSE
      BY <2>1
    <2> QED BY <1>0, <2>2, <2>3, <2>4 DEF TokensInv
  <1>2. CASE o # "torn" /\ IsOpen
    <2>1. IsOpen' /\ key' = key
      BY <1>0, <1>2 DEF IsOpen
    <2>2. /\ entries' = With(entries, ks)
          /\ o = "ok" => disk' = With(entries, ks)
          /\ o = "error" => disk' = IF ks = {final} THEN disk ELSE With(entries, ks \ {final})
          /\ o \in {"ok", "error"}
      BY <1>2 DEF StoreAll, Persist, Outcomes
    <2>3. SUFFICES ASSUME NEW k \in Keys, k \notin spoiled'
                   PROVE  /\ Readable(disk'[k], salt, acked'[k]) /\ (disk'[k] # None => salt # "none")
                          /\ IF salt # "none" THEN Readable(entries'[k], key, acked'[k]) ELSE entries'[k] = None
      <3>1. /\ drawn' \in 0..MaxSalts /\ salt' \in Salts \union {"none"}
            /\ key' \in Salts \union {"empty", "zeros"}
            /\ IsOpen' /\ salt' # "none" => key' = salt'
        BY <1>0, <1>2, <2>1 DEF TokensInv
      <3>2. salt' = salt
        BY <1>0
      <3> QED BY <2>1, <3>1, <3>2 DEF TokensInv
    <2>4. \A S \in SUBSET Keys : With(entries, S)[k] = IF k \in S THEN [secret |-> held[k], salt |-> key] ELSE entries[k]
      BY DEF With
    <2>5. /\ k \notin ks => acked'[k] = acked[k]
          /\ k \in ks => held[k] \in acked'[k]
          /\ k \in ks /\ k = final /\ o # "ok" => acked[k] \subseteq acked'[k]
      BY DEF StoreAll
    <2>6. CASE salt = "none"
      <3>1. key # salt
        BY <1>2, <2>6 DEF IsOpen, TokensInv, Salts
      <3>2. k \notin spoiled /\ k \notin ks
        BY <1>2, <2>3, <3>1 DEF StoreAll
      <3>3. entries[k] = None /\ Readable(disk[k], salt, acked[k]) /\ disk[k] = None
        BY <2>6, <3>2 DEF TokensInv
      <3>4. ks \ {final} \in SUBSET Keys
        OBVIOUS
      <3>5. entries'[k] = None /\ disk'[k] = None
        BY <2>2, <2>4, <3>2, <3>3, <3>4
      <3> QED BY <2>5, <2>6, <3>2, <3>3, <3>5 DEF Readable
    <2>7. CASE salt # "none"
      <3>1. key = salt
        BY <1>2, <2>7 DEF TokensInv
      <3>2. spoiled' = spoiled \ (IF o = "ok" THEN ks ELSE ks \ {final})
        BY <1>2, <3>1 DEF StoreAll
      <3>3. k \notin spoiled => Readable(entries[k], key, acked[k]) /\ Readable(disk[k], salt, acked[k])
        BY <1>2, <2>7 DEF TokensInv
      <3>4. /\ \A A : held[k] \in A => Readable([secret |-> held[k], salt |-> key], key, A)
            /\ \A e, A, B : Readable(e, key, A) /\ A \subseteq B => Readable(e, key, B)
        BY DEF Readable, None
      <3>5. k \in spoiled => k \in ks /\ (o = "ok" \/ k # final)
        BY <2>3, <3>2
      <3>6. Readable(entries'[k], key, acked'[k])
        BY <2>2, <2>4, <2>5, <3>3, <3>4, <3>5
      <3>7. CASE o = "ok"
        BY <2>2, <2>7, <3>1, <3>6, <3>7
      <3>8. CASE o = "error" /\ ks = {final}
        BY <2>2, <2>5, <2>7, <3>1, <3>3, <3>4, <3>5, <3>6, <3>8
      <3>9. CASE o = "error" /\ ks # {final}
        <4>1. disk'[k] = IF k \in ks \ {final} THEN [secret |-> held[k], salt |-> key] ELSE entries[k]
          BY <2>2, <2>4, <3>9
        <4> QED BY <2>5, <2>7, <3>1, <3>3, <3>4, <3>5, <3>6, <3>9, <4>1
      <3> QED BY <2>2, <3>7, <3>8, <3>9
    <2> QED BY <2>6, <2>7
  <1> QED BY <1>1, <1>2

LEMMA RemoveSecretsKeeps ==
    ASSUME TokensInv, NEW ks \in SUBSET Keys, NEW o \in Outcomes, RemoveSecrets(ks, o)
    PROVE  TokensInv'
  <1>0. /\ drawn' = drawn /\ salt' = salt
        /\ o # "torn" => key' = key
        /\ o = "torn" => key' = EmptyKey
    BY DEF RemoveSecrets, Persist
  <1>1. ASSUME NEW k \in Keys
        PROVE  /\ o # "torn" => entries'[k] = IF k \in ks THEN None ELSE entries[k]
               /\ o = "torn" => entries'[k] = None /\ disk'[k] = None
               /\ o = "ok" => disk'[k] = entries'[k]
               /\ o = "error" => disk'[k] = disk[k]
               /\ k \notin ks => acked'[k] = acked[k]
               /\ k \in ks => "none" \in acked'[k]
               /\ k \in ks /\ o # "ok" => acked[k] \subseteq acked'[k]
    BY DEF RemoveSecrets, Persist, Outcomes, NoEntries
  <1>2. /\ o = "error" => spoiled' = spoiled
        /\ o = "ok" /\ IsOpen => spoiled' = spoiled \ ks
        /\ o = "torn" \/ (o = "ok" /\ ~ IsOpen) => spoiled' = Keys \ ks
    BY DEF RemoveSecrets
  <1>3. o # "torn" => IsOpen' = IsOpen
    BY <1>0 DEF IsOpen
  <1>4. o = "torn" => ~ IsOpen'
    BY <1>0 DEF IsOpen, EmptyKey
  <1>5. SUFFICES ASSUME NEW k \in Keys, k \notin spoiled'
                 PROVE  /\ Readable(disk'[k], salt, acked'[k]) /\ (disk'[k] # None => salt # "none")
                        /\ IF IsOpen' /\ salt # "none" THEN Readable(entries'[k], key', acked'[k])
                           ELSE entries'[k] = None
    <2>1. key' \in Salts \union {"empty", "zeros"}
      BY <1>0 DEF TokensInv, EmptyKey
    <2>2. IsOpen' /\ salt' # "none" => key' = salt'
      BY <1>0, <1>3, <1>4 DEF TokensInv
    <2>3. drawn' \in 0..MaxSalts /\ salt' \in Salts \union {"none"} /\ salt' = salt
      BY <1>0 DEF TokensInv
    <2> QED BY <2>1, <2>2, <2>3 DEF TokensInv
  <1>6. CASE o = "torn"
    BY <1>1, <1>2, <1>4, <1>5, <1>6 DEF Readable
  <1>7. CASE o = "ok" /\ ~ IsOpen
    BY <1>1, <1>2, <1>3, <1>5, <1>7 DEF Readable
  <1>8. CASE o = "error" \/ (o = "ok" /\ IsOpen)
    <2>1. key' = key /\ IsOpen' = IsOpen
      BY <1>0, <1>3, <1>8
    <2>2. CASE k \in ks /\ (o = "ok" \/ k \notin spoiled)
      <3>1. entries'[k] = None /\ "none" \in acked'[k]
        BY <1>1, <1>8, <2>2
      <3>2. o = "ok" => disk'[k] = None
        BY <1>1, <3>1
      <3>3. o = "error" => disk'[k] = disk[k] /\ acked[k] \subseteq acked'[k] /\ k \notin spoiled
        BY <1>1, <2>2
      <3>4. k \notin spoiled => Readable(disk[k], salt, acked[k]) /\ (disk[k] # None => salt # "none")
        BY DEF TokensInv
      <3> QED BY <1>8, <3>1, <3>2, <3>3, <3>4 DEF Readable
    <2>3. CASE k \notin ks
      <3>1. k \notin spoiled /\ acked'[k] = acked[k] /\ entries'[k] = entries[k]
        BY <1>1, <1>2, <1>5, <1>8, <2>3
      <3>2. disk'[k] = disk[k] \/ (o = "ok" /\ disk'[k] = entries[k])
        BY <1>1, <1>8, <3>1
      <3>3. /\ Readable(disk[k], salt, acked[k]) /\ (disk[k] # None => salt # "none")
            /\ IF IsOpen /\ salt # "none" THEN Readable(entries[k], key, acked[k]) ELSE entries[k] = None
            /\ IsOpen /\ salt # "none" => key = salt
        BY <3>1 DEF TokensInv
      <3>4. CASE disk'[k] = disk[k]
        BY <2>1, <3>1, <3>3, <3>4
      <3>5. CASE o = "ok" /\ disk'[k] = entries[k]
        <4>1. IsOpen
          BY <1>8, <3>5
        <4>2. CASE salt # "none"
          BY <2>1, <3>1, <3>3, <3>5, <4>1, <4>2
        <4>3. CASE salt = "none"
          BY <2>1, <3>1, <3>3, <3>5, <4>1, <4>3 DEF Readable
        <4> QED BY <4>2, <4>3
      <3> QED BY <3>2, <3>4, <3>5
    <2> QED BY <1>2, <1>5, <1>8, <2>2, <2>3
  <1> QED BY <1>6, <1>7, <1>8 DEF Outcomes

LEMMA TokensInvStep == TokensInv /\ [TokensNext]_tokenVars => TokensInv'
  <1> SUFFICES ASSUME TokensInv, [TokensNext]_tokenVars PROVE TokensInv'
    OBVIOUS
  <1>1. UNCHANGED storageVars => TokensInv'
    BY DEF storageVars, TokensInv, IsOpen
  <1>2. CASE CloseStorage
    BY <1>2 DEF CloseStorage, TokensInv, IsOpen, EmptyKey, NoEntries
  <1>3. CASE Die
    BY <1>3 DEF Die, TokensInv, IsOpen, EmptyKey, NoEntries
  <1>4. ASSUME NEW o \in Outcomes, PersistToken(o) PROVE TokensInv'
    <2> DEFINE full == {k \in Keys : held[k] # "none"}
               final == IF full = Keys THEN "refresh_token" ELSE CHOOSE k \in full : TRUE
    <2>1. full \in SUBSET Keys /\ {"access_token"} \in SUBSET Keys
      BY DEF Keys
    <2>2. StoreAll(full, final, o) \/ StoreAll({"access_token"}, "access_token", o) \/ UNCHANGED storageVars
      BY <1>4 DEF PersistToken
    <2> HIDE DEF full, final
    <2> QED BY <1>1, <2>1, <2>2, StoreAllKeeps
  <1>5. ASSUME NEW o \in Outcomes, NEW ks \in SUBSET Keys, RemoveSecrets(ks, o) PROVE TokensInv'
    BY <1>5, RemoveSecretsKeeps
  <1>6. ASSUME NEW o \in Outcomes, PersistCall(o) \/ ShutdownTokens(o) PROVE TokensInv'
    BY <1>1, <1>4, <1>6 DEF PersistCall, ShutdownTokens
  <1>7. CASE OpenStorage
    BY <1>7, OpenStorageKeeps
  <1>8. ASSUME NEW o \in Outcomes, RemoveSecrets(Keys, o) \/ \E k \in Keys : RemoveSecrets({k}, o)
        PROVE  TokensInv'
    BY <1>5, <1>8
  <1>9. CASE (\E k \in Keys, v \in Secrets : SetHeld(k, v)) \/ (\E v \in Secrets : Refresh(v))
             \/ ClearHeld \/ RestoreToken \/ UNCHANGED tokenVars
    BY <1>1, <1>9 DEF SetHeld, Refresh, ClearHeld, RestoreToken, tokenVars
  <1> QED BY <1>2, <1>3, <1>6, <1>7, <1>8, <1>9 DEF TokensNext

LEMMA SecretsDoSurvive == TokensInv => SecretsSurvive
  <1> SUFFICES ASSUME TokensInv, NEW k \in Keys \ spoiled
               PROVE  /\ Decrypted(disk[k], salt) \in acked[k]
                      /\ IsOpen => Decrypted(entries[k], key) \in acked[k]
    BY DEF SecretsSurvive
  <1>1. Decrypted(disk[k], salt) \in acked[k]
    BY DEF TokensInv, Readable, Decrypted
  <1>2. salt = "none" => "none" \in acked[k]
    BY DEF TokensInv, Readable
  <1> QED BY <1>1, <1>2 DEF TokensInv, Readable, Decrypted

(* For any callers, users, roles, secrets and times: the user in memory    *)
(* has a token whatever calls overlap, and its copies agree with it again  *)
(* after a login or logout that nothing overlapped (auth_manager.cpp);     *)
(* roles grant registered permissions only (permission.cpp); a stored      *)
(* secret reads back as last written through failed writes and restarts,   *)
(* but for the spoiled keys SecretsSurvive names, the first start's among  *)
(* them (secure_storage.h); a JWT counts as expired from its second on,    *)
(* and another token only by a lifetime somebody gave or the JWT before it *)
(* left (token_manager.cpp).                                               *)
THEOREM CredentialsCorrect ==
    AuthSpec /\ PermissionSpec /\ TokensSpec /\ ExpirySpec => []CredentialsSound
  <1>1. PermissionInit => PermissionInv
    BY DEF PermissionInit, PermissionInv
  <1>2. AuthInv => AuthAgrees
    BY DEF AuthInv, AuthAgrees, Resting, Agreed
  <1>3. AuthInv /\ MemoryInv /\ PermissionInv /\ TokensInv /\ ExpiryInv => CredentialsSound
    BY <1>2, GrantsAreRegistered, SecretsDoSurvive, ExpiryIsSound DEF CredentialsSound, AuthSound, MemoryInv
  <1>4. AuthInit => MemoryInv
    BY DEF AuthInit, MemoryInv, MemoryAgrees, NoUser, Idle
  <1> QED BY <1>1, <1>3, <1>4, AuthInvInit, AuthInvStep, MemoryInvStep, PermissionInvStep, TokensInvInit, TokensInvStep,
             ExpiryInvInit, ExpiryInvStep, PTL DEF AuthSpec, PermissionSpec, TokensSpec, ExpirySpec

-----------------------------------------------------------------------------
(* The pool of database connections.  While someone waits, those awake and *)
(* those who missed their driver are together as many as the drivers that  *)
(* could be handed out or opened.                                          *)
Drivers == [up : BOOLEAN, tx : BOOLEAN, failed : BOOLEAN]
Whereabouts == {"out", "has", "scope", "with", "waiting", "timed", "notified", "alerted", "again"}
HoldingPlaces == {"has", "scope", "with"}
WaitingPlaces == {"waiting", "timed"}
AwakePlaces == {"notified", "alerted", "again"}
In(us, P) == {u \in Borrowers : us[u] \in P}
Clean(d) == d.tx => d.failed

PoolTypes ==
    /\ idle \in Seq(Drivers) /\ times \in Seq(BOOLEAN)
    /\ total \in Nat /\ active \in Nat /\ missed \in Nat
    /\ user \in [Borrowers -> Whereabouts] /\ lease \in [Borrowers -> Drivers]

PoolInv ==
    /\ PoolTypes
    /\ Len(times) >= Len(idle) /\ total <= MaxSize
    /\ "close" \notin poolMishap =>
         /\ total = Len(idle) + Cardinality(In(user, HoldingPlaces))
         /\ active = Cardinality(In(user, HoldingPlaces))
    /\ \A i \in 1..Len(idle) : Clean(idle[i])
    /\ \A u \in Borrowers : user[u] = "has" => Clean(lease[u])
    /\ In(user, WaitingPlaces) # {} =>
         Len(idle) + (MaxSize - total) <= Cardinality(In(user, AwakePlaces)) + missed

LEMMA InFinite == \A us, P : IsFiniteSet(In(us, P)) /\ Cardinality(In(us, P)) \in Nat
  <1> TAKE us, P
  <1>1. In(us, P) \subseteq Borrowers
    BY DEF In
  <1> QED BY <1>1, DbPoolAssumption, FS_Subset, FS_CardinalityType

(* A thread that moves leaves one set of places and enters another.        *)
LEMMA MovesIn ==
    ASSUME NEW us \in [Borrowers -> Whereabouts], NEW u \in Borrowers, NEW x \in Whereabouts,
           NEW P
    PROVE  /\ [us EXCEPT ![u] = x] \in [Borrowers -> Whereabouts]
           /\ Cardinality(In([us EXCEPT ![u] = x], P)) =
                Cardinality(In(us, P)) + (IF x \in P THEN 1 ELSE 0) - (IF us[u] \in P THEN 1 ELSE 0)
           /\ x \notin P => In([us EXCEPT ![u] = x], P) \subseteq In(us, P)
  <1> DEFINE vs == [us EXCEPT ![u] = x]
  <1>1. vs \in [Borrowers -> Whereabouts] /\ \A v \in Borrowers : vs[v] = IF v = u THEN x ELSE us[v]
    OBVIOUS
  <1>2. x \in P => In(vs, P) = In(us, P) \union {u}
    BY <1>1 DEF In
  <1>3. x \notin P => In(vs, P) = In(us, P) \ {u}
    BY <1>1 DEF In
  <1>4. u \in In(us, P) <=> us[u] \in P
    BY DEF In
  <1> HIDE DEF vs
  <1>5. /\ IsFiniteSet(In(us, P)) /\ Cardinality(In(us, P)) \in Nat
        /\ Cardinality(In(us, P) \union {u}) =
             IF us[u] \in P THEN Cardinality(In(us, P)) ELSE Cardinality(In(us, P)) + 1
        /\ Cardinality(In(us, P) \ {u}) =
             IF us[u] \in P THEN Cardinality(In(us, P)) - 1 ELSE Cardinality(In(us, P))
    BY <1>4, InFinite, FS_AddElement, FS_RemoveElement
  <1>6. Cardinality(In(vs, P)) =
          Cardinality(In(us, P)) + (IF x \in P THEN 1 ELSE 0) - (IF us[u] \in P THEN 1 ELSE 0)
    <2>1. CASE x \in P
      <3>1. In(vs, P) = In(us, P) \union {u}
        BY <2>1, <1>2
      <3> QED BY <2>1, <3>1, <1>5
    <2>2. CASE x \notin P
      <3>1. In(vs, P) = In(us, P) \ {u}
        BY <2>2, <1>3
      <3> QED BY <2>2, <3>1, <1>5
    <2> QED BY <2>1, <2>2
  <1> QED BY <1>1, <1>3, <1>6 DEF vs

LEMMA NewDrivers ==
    /\ Driver \in Drivers /\ Clean(Driver) /\ Driver.up = TRUE
    /\ NoDriver \in Drivers /\ Clean(NoDriver)
  <1>1. Driver \in Drivers /\ Driver.tx = FALSE /\ Driver.up = TRUE
    BY DEF Driver, Drivers
  <1>2. NoDriver \in Drivers /\ NoDriver.tx = FALSE
    BY <1>1 DEF NoDriver, Drivers
  <1> QED BY <1>1, <1>2 DEF Clean

LEMMA PoolInvInit == DbPoolInit => PoolInv
  <1> SUFFICES ASSUME DbPoolInit PROVE PoolInv
    OBVIOUS
  <1>1. \A P : "out" \notin P => In(user, P) = {}
    BY DEF DbPoolInit, In
  <1>2. In(user, HoldingPlaces) = {} /\ In(user, WaitingPlaces) = {}
    BY <1>1 DEF HoldingPlaces, WaitingPlaces
  <1>3. Cardinality(In(user, HoldingPlaces)) = 0
    BY <1>2, FS_EmptySet
  <1>4. PoolTypes
    BY NewDrivers DEF DbPoolInit, PoolTypes, Whereabouts
  <1>5. \A u \in Borrowers : user[u] # "has"
    BY DEF DbPoolInit
  <1> QED BY <1>2, <1>3, <1>4, <1>5, DbPoolAssumption DEF DbPoolInit, PoolInv

HeldNow == Cardinality(In(user, HoldingPlaces))
AwakeNow == Cardinality(In(user, AwakePlaces))

LEMMA CountsAreNat == HeldNow \in Nat /\ AwakeNow \in Nat
  BY InFinite DEF HeldNow, AwakeNow

(* What a step in which u goes to x does to the counts.                    *)
LEMMA OneMoves ==
    ASSUME PoolTypes, NEW u \in Borrowers, NEW x \in Whereabouts, user' = [user EXCEPT ![u] = x]
    PROVE  /\ user' \in [Borrowers -> Whereabouts]
           /\ HeldNow' = HeldNow + (IF x \in HoldingPlaces THEN 1 ELSE 0) - (IF user[u] \in HoldingPlaces THEN 1 ELSE 0)
           /\ AwakeNow' = AwakeNow + (IF x \in AwakePlaces THEN 1 ELSE 0) - (IF user[u] \in AwakePlaces THEN 1 ELSE 0)
           /\ x \notin WaitingPlaces /\ In(user', WaitingPlaces) # {} => In(user, WaitingPlaces) # {}
           /\ \A v \in Borrowers : user'[v] = IF v = u THEN x ELSE user[v]
  <1> USE DEF PoolTypes
  <1>1. user' \in [Borrowers -> Whereabouts] /\ \A v \in Borrowers : user'[v] = IF v = u THEN x ELSE user[v]
    OBVIOUS
  <1>2. HeldNow' = HeldNow + (IF x \in HoldingPlaces THEN 1 ELSE 0) - (IF user[u] \in HoldingPlaces THEN 1 ELSE 0)
    BY MovesIn, ZenonT(60) DEF HeldNow
  <1>3. AwakeNow' = AwakeNow + (IF x \in AwakePlaces THEN 1 ELSE 0) - (IF user[u] \in AwakePlaces THEN 1 ELSE 0)
    BY MovesIn, ZenonT(60) DEF AwakeNow
  <1>4. x \notin WaitingPlaces => In(user', WaitingPlaces) \subseteq In(user, WaitingPlaces)
    BY MovesIn
  <1> QED BY <1>1, <1>2, <1>3, <1>4

PoolRest(ids, tms, tot, act, us, ls, m, n, h, a) ==
    /\ Len(tms) >= Len(ids) /\ tot <= MaxSize
    /\ "close" \notin m => tot = Len(ids) + h /\ act = h
    /\ \A i \in 1..Len(ids) : Clean(ids[i])
    /\ \A u \in Borrowers : us[u] = "has" => Clean(ls[u])
    /\ In(us, WaitingPlaces) # {} => Len(ids) + (MaxSize - tot) <= a + n

LEMMA PoolInvIs == PoolInv <=> PoolTypes /\ PoolRest(idle, times, total, active, user, lease, poolMishap, missed, HeldNow, AwakeNow)
  BY DEF PoolInv, PoolRest, HeldNow, AwakeNow

LEMMA PoolInvIsPrime ==
    PoolInv' <=> PoolTypes' /\ PoolRest(idle', times', total', active', user', lease', poolMishap', missed', HeldNow', AwakeNow')
  BY DEF PoolInv, PoolRest, HeldNow, AwakeNow

LEMMA LessIs ==
    \A n, k \in Nat : /\ Less(n, k) \in Nat /\ (n >= k => Less(n, k) = n - k)
                      /\ Less(n, k) >= n - k /\ Less(n, k) <= n
  BY DEF Less

(* The parts of the invariant as the steps below use them *)
LEMMA PoolShape ==
    ASSUME PoolInv
    PROVE  /\ PoolTypes /\ idle \in Seq(Drivers) /\ DOMAIN idle = 1..Len(idle)
           /\ times \in Seq(BOOLEAN) /\ lease \in [Borrowers -> Drivers] /\ user \in [Borrowers -> Whereabouts]
  BY DEF PoolInv, PoolTypes

LEMMA PoolNumbers ==
    ASSUME PoolInv
    PROVE  /\ Len(idle) \in Nat /\ Len(times) \in Nat /\ Len(times) >= Len(idle)
           /\ total \in Nat /\ active \in Nat /\ HeldNow \in Nat /\ AwakeNow \in Nat
           /\ MaxSize \in Nat /\ MinSize \in Nat /\ MinSize <= MaxSize
           /\ total <= MaxSize /\ missed \in Nat
           /\ "close" \notin poolMishap => total = Len(idle) + HeldNow /\ active = HeldNow
           /\ In(user, WaitingPlaces) # {} => Len(idle) + (MaxSize - total) <= AwakeNow + missed
  BY CountsAreNat, DbPoolAssumption DEF PoolInv, PoolTypes, HeldNow, AwakeNow

LEMMA PoolNats ==
    ASSUME PoolInv
    PROVE  /\ Len(idle) \in Nat /\ total \in Nat /\ active \in Nat /\ HeldNow \in Nat /\ AwakeNow \in Nat
           /\ missed \in Nat /\ MaxSize \in Nat /\ total <= MaxSize
           /\ HeldNow' \in Nat /\ AwakeNow' \in Nat
  BY PoolNumbers, InFinite DEF HeldNow, AwakeNow

LEMMA PoolClean ==
    ASSUME PoolInv
    PROVE  /\ \A i \in 1..Len(idle) : idle[i] \in Drivers /\ Clean(idle[i])
           /\ \A u \in Borrowers : user[u] = "has" => Clean(lease[u])
  BY DEF PoolInv, PoolTypes

LEMMA CountsAreNatPrime == HeldNow' \in Nat /\ AwakeNow' \in Nat
  BY InFinite DEF HeldNow, AwakeNow

(* Sums of the pool's counters. *)
LEMMA RoomShrinks ==
    ASSUME NEW i \in Int, NEW t \in Int, NEW x \in Int, NEW k \in Int, NEW s \in Int, s >= t - (i - k)
    PROVE  (k - 1) + (x - s) + 1 <= i + (x - t)
  OBVIOUS

LEMMA OneLessSuffices ==
    ASSUME NEW r \in Int, NEW a \in Int, NEW m \in Int, NEW b \in Int, NEW q \in Int,
           r <= a + m, b >= a - 1, q + 1 <= r
    PROVE  q <= b + m
  OBVIOUS

LEMMA OneMoreSuffices ==
    ASSUME NEW i \in Int, NEW t \in Int, NEW x \in Int, NEW s \in Int, NEW a \in Int, NEW m \in Int, NEW b \in Int,
           i + (x - t) <= a + m, b = a + 1, s >= t - 1
    PROVE  i + (x - s) <= b + m
  OBVIOUS

(* A driver is taken from the list of idle ones or opened. *)
LEMMA TakesDriver ==
    ASSUME PoolInv, NEW u \in Borrowers, user[u] \in {"out", "again"}, user' = [user EXCEPT ![u] = "has"],
           NEW d \in Drivers, Clean(d), lease' = [lease EXCEPT ![u] = d]
    PROVE  /\ user' \in [Borrowers -> Whereabouts] /\ lease' \in [Borrowers -> Drivers]
           /\ HeldNow' = HeldNow + 1 /\ AwakeNow' >= AwakeNow - 1
           /\ In(user', WaitingPlaces) # {} => In(user, WaitingPlaces) # {}
           /\ \A v \in Borrowers : user'[v] = "has" => Clean(lease'[v])
  <1>1. "has" \in Whereabouts
    BY DEF Whereabouts
  <1>2. /\ "has" \in HoldingPlaces /\ "has" \notin AwakePlaces /\ "has" \notin WaitingPlaces
        /\ user[u] \notin HoldingPlaces
    BY DEF HoldingPlaces, AwakePlaces, WaitingPlaces
  <1>3. /\ user' \in [Borrowers -> Whereabouts]
        /\ HeldNow' = HeldNow + (IF "has" \in HoldingPlaces THEN 1 ELSE 0) - (IF user[u] \in HoldingPlaces THEN 1 ELSE 0)
        /\ AwakeNow' = AwakeNow + (IF "has" \in AwakePlaces THEN 1 ELSE 0) - (IF user[u] \in AwakePlaces THEN 1 ELSE 0)
        /\ "has" \notin WaitingPlaces /\ In(user', WaitingPlaces) # {} => In(user, WaitingPlaces) # {}
        /\ \A v \in Borrowers : user'[v] = IF v = u THEN "has" ELSE user[v]
    BY <1>1, OneMoves, PoolShape
  <1>4. HeldNow' = HeldNow + 1 /\ AwakeNow' >= AwakeNow - 1
    BY <1>2, <1>3, CountsAreNat, CountsAreNatPrime
  <1>5. lease' \in [Borrowers -> Drivers] /\ \A v \in Borrowers : lease'[v] = IF v = u THEN d ELSE lease[v]
    BY PoolShape
  <1>6. \A v \in Borrowers : user'[v] = "has" => Clean(lease'[v])
    BY <1>3, <1>5, PoolClean
  <1> QED BY <1>2, <1>3, <1>4, <1>5, <1>6

LEMMA AcquireIdleKeeps ==
    ASSUME PoolInv, NEW u \in Borrowers, AcquireIdle(u)
    PROVE  PoolInv'
  <1>0. \E n \in 1..Len(idle) :
          /\ lease' = [lease EXCEPT ![u] = idle[n]] /\ idle' = SubSeq(idle, 1, n - 1)
          /\ total' = Less(total, Len(idle) - n)
    BY PoolShape DEF AcquireIdle
  <1>1. PICK n \in 1..Len(idle) :
          /\ lease' = [lease EXCEPT ![u] = idle[n]] /\ idle' = SubSeq(idle, 1, n - 1)
          /\ total' = Less(total, Len(idle) - n)
    BY <1>0
  <1>2. /\ idle' \in Seq(Drivers) /\ Len(idle') = n - 1
        /\ \A i \in 1..(n - 1) : idle'[i] = idle[i]
    BY <1>1, PoolShape
  <1>3. n \in Nat /\ n >= 1 /\ n <= Len(idle) /\ Len(idle) - n \in Nat
    BY PoolNumbers
  <1>4. /\ total' \in Nat /\ (total >= Len(idle) - n => total' = total - (Len(idle) - n))
        /\ total' >= total - (Len(idle) - n) /\ total' <= total
    BY <1>1, <1>3, PoolNumbers, LessIs
  <1>5. /\ user' \in [Borrowers -> Whereabouts] /\ lease' \in [Borrowers -> Drivers]
        /\ HeldNow' = HeldNow + 1 /\ AwakeNow' >= AwakeNow - 1
        /\ In(user', WaitingPlaces) # {} => In(user, WaitingPlaces) # {}
        /\ \A v \in Borrowers : user'[v] = "has" => Clean(lease'[v])
    BY <1>1, TakesDriver, PoolClean DEF AcquireIdle
  <1>6. active' = active + 1 /\ times' = times /\ poolMishap' = poolMishap /\ missed' = missed
    BY DEF AcquireIdle
  <1>7. PoolTypes'
    <2>1. active' \in Nat /\ times' \in Seq(BOOLEAN) /\ missed' \in Nat
      BY <1>6, PoolNumbers, PoolShape
    <2> QED BY <1>2, <1>4, <1>5, <2>1 DEF PoolTypes
  <1>8. \A i \in 1..Len(idle') : Clean(idle'[i])
    BY <1>2, <1>3, PoolClean
  <1>12. HeldNow' = HeldNow + 1 /\ AwakeNow' >= AwakeNow - 1 /\ Len(idle') = n - 1
    BY <1>2, <1>5
  <1>9. ASSUME "close" \notin poolMishap' PROVE total' = Len(idle') + HeldNow' /\ total' <= MaxSize /\ active' = HeldNow'
    <2>1. total = Len(idle) + HeldNow /\ active = HeldNow
      BY <1>6, <1>9, PoolNumbers
    <2>2. total' = total - (Len(idle) - n)
      BY <1>3, <1>4, <2>1, PoolNats
    <2>3. total' = (n - 1) + (HeldNow + 1)
      BY <1>3, <2>1, <2>2, PoolNats
    <2>4. active' = HeldNow + 1 /\ total' <= MaxSize
      BY <1>4, <1>6, <2>1, PoolNats
    <2> QED BY <1>12, <2>3, <2>4
  <1>10. ASSUME In(user', WaitingPlaces) # {} PROVE Len(idle') + (MaxSize - total') <= AwakeNow' + missed'
    <2>1. Len(idle) + (MaxSize - total) <= AwakeNow + missed
      BY <1>5, <1>10, PoolNumbers
    <2>4. /\ n \in Int /\ Len(idle) \in Int /\ total \in Int /\ total' \in Int /\ MaxSize \in Int
          /\ AwakeNow \in Int /\ AwakeNow' \in Int /\ missed \in Int
      BY <1>3, <1>4, PoolNats
    <2>5. total' >= total - (Len(idle) - n)
      BY <1>4
    <2>2. (n - 1) + (MaxSize - total') + 1 <= Len(idle) + (MaxSize - total)
      BY <2>4, <2>5, RoomShrinks
    <2>6. (n - 1) + (MaxSize - total') \in Int /\ Len(idle) + (MaxSize - total) \in Int
      BY <2>4
    <2>3. (n - 1) + (MaxSize - total') <= AwakeNow' + missed
      <3> DEFINE after == (n - 1) + (MaxSize - total')
                 room == Len(idle) + (MaxSize - total)
      <3>1. after \in Int /\ room \in Int /\ after + 1 <= room /\ room <= AwakeNow + missed
        BY <2>1, <2>2, <2>6
      <3>2. AwakeNow' >= AwakeNow - 1
        BY <1>12
      <3> HIDE DEF after, room
      <3>3. after <= AwakeNow' + missed
        BY <2>4, <3>1, <3>2, OneLessSuffices
      <3> QED BY <3>3 DEF after
    <2> QED BY <1>6, <1>12, <2>3
  <1>11. Len(times') >= Len(idle') /\ total' <= MaxSize
    <2>1. Len(times) \in Nat /\ Len(times) >= Len(idle)
      BY PoolNumbers
    <2>2. Len(times) >= n - 1
      BY <1>3, <2>1, PoolNats
    <2>3. total' <= MaxSize
      BY <1>4, PoolNats
    <2> QED BY <1>6, <1>12, <2>2, <2>3
  <1> QED BY <1>5, <1>7, <1>8, <1>9, <1>10, <1>11, PoolInvIsPrime DEF PoolRest
(* A thread without a driver changes places. *)
LEMMA MovesOn ==
    ASSUME PoolInv, NEW u \in Borrowers, user[u] \notin HoldingPlaces,
           NEW x \in Whereabouts, x \notin HoldingPlaces, user' = [user EXCEPT ![u] = x], lease' = lease
    PROVE  /\ user' \in [Borrowers -> Whereabouts] /\ lease' \in [Borrowers -> Drivers]
           /\ HeldNow' = HeldNow /\ AwakeNow' >= AwakeNow - 1
           /\ user[u] \notin AwakePlaces \/ x \in AwakePlaces => AwakeNow' >= AwakeNow
           /\ x \notin WaitingPlaces /\ In(user', WaitingPlaces) # {} => In(user, WaitingPlaces) # {}
           /\ \A v \in Borrowers : user'[v] = "has" => Clean(lease'[v])
  <1>3. /\ user' \in [Borrowers -> Whereabouts]
        /\ HeldNow' = HeldNow + (IF x \in HoldingPlaces THEN 1 ELSE 0) - (IF user[u] \in HoldingPlaces THEN 1 ELSE 0)
        /\ AwakeNow' = AwakeNow + (IF x \in AwakePlaces THEN 1 ELSE 0) - (IF user[u] \in AwakePlaces THEN 1 ELSE 0)
        /\ x \notin WaitingPlaces /\ In(user', WaitingPlaces) # {} => In(user, WaitingPlaces) # {}
        /\ \A v \in Borrowers : user'[v] = IF v = u THEN x ELSE user[v]
    BY OneMoves, PoolShape
  <1>4. /\ HeldNow' = HeldNow /\ AwakeNow' >= AwakeNow - 1
        /\ user[u] \notin AwakePlaces \/ x \in AwakePlaces => AwakeNow' >= AwakeNow
    BY <1>3, CountsAreNat, CountsAreNatPrime
  <1>5. x # "has"
    BY DEF HoldingPlaces
  <1>6. \A v \in Borrowers : user'[v] = "has" => Clean(lease'[v])
    BY <1>3, <1>5, PoolClean
  <1> QED BY <1>3, <1>4, <1>6, PoolShape

LEMMA PrunedIs ==
    ASSUME PoolInv
    PROVE  /\ Pruned \in Nat /\ ("close" \notin poolMishap => Pruned = HeldNow)
           /\ Pruned >= total - Len(idle) /\ Pruned <= total
  <1>1. /\ Less(total, Len(idle)) \in Nat
        /\ Less(total, Len(idle)) >= total - Len(idle) /\ Less(total, Len(idle)) <= total
        /\ (total >= Len(idle) => Less(total, Len(idle)) = total - Len(idle))
    BY LessIs, PoolNumbers
  <1> QED BY <1>1, PoolNumbers DEF Pruned

LEMMA AcquireNewKeeps ==
    ASSUME PoolInv, NEW u \in Borrowers, AcquireNew(u)
    PROVE  PoolInv'
  <1>1. /\ user[u] \in {"out", "again"} /\ Pruned < MaxSize /\ idle' = <<>> /\ times' = times
        /\ Len(idle') = 0 /\ idle' \in Seq(Drivers) /\ Len(times') >= Len(idle') /\ times' \in Seq(BOOLEAN)
        /\ poolMishap' = poolMishap
    BY PoolNumbers, PoolShape DEF AcquireNew
  <1>2. \A i \in 1..Len(idle') : Clean(idle'[i])
    BY <1>1
  <1>3. CASE /\ lease' = [lease EXCEPT ![u] = Driver] /\ user' = [user EXCEPT ![u] = "has"]
             /\ total' = Pruned + 1 /\ active' = active + 1 /\ UNCHANGED missed
    <2>1. /\ user' \in [Borrowers -> Whereabouts] /\ lease' \in [Borrowers -> Drivers]
          /\ HeldNow' = HeldNow + 1 /\ AwakeNow' >= AwakeNow - 1
          /\ In(user', WaitingPlaces) # {} => In(user, WaitingPlaces) # {}
          /\ \A v \in Borrowers : user'[v] = "has" => Clean(lease'[v])
      <3>1. Driver \in Drivers /\ Clean(Driver) /\ user[u] \in {"out", "again"}
        BY NewDrivers DEF AcquireNew
      <3>2. lease' = [lease EXCEPT ![u] = Driver] /\ user' = [user EXCEPT ![u] = "has"]
        BY <1>3
      <3> QED BY <3>1, <3>2, TakesDriver
    <2>2. total' \in Nat /\ active' \in Nat /\ missed' \in Nat /\ total' <= MaxSize
      BY <1>1, <1>3, PrunedIs, PoolNumbers
    <2>6. /\ HeldNow' = HeldNow + 1 /\ AwakeNow' >= AwakeNow - 1 /\ Len(idle') = 0
          /\ total' = Pruned + 1 /\ active' = active + 1 /\ missed' = missed
      BY <1>1, <1>3, <2>1
    <2>7. Pruned \in Nat /\ Pruned >= total - Len(idle)
      BY PrunedIs
    <2>3. ASSUME "close" \notin poolMishap' PROVE total' = Len(idle') + HeldNow' /\ total' <= MaxSize /\ active' = HeldNow'
      <3>1. active = HeldNow /\ Pruned = HeldNow
        BY <1>1, <2>3, PoolNumbers, PrunedIs
      <3> QED BY <2>2, <2>6, <3>1, PoolNats
    <2>4. ASSUME In(user', WaitingPlaces) # {} PROVE Len(idle') + (MaxSize - total') <= AwakeNow' + missed'
      <3>1. Len(idle) + (MaxSize - total) <= AwakeNow + missed
        BY <2>1, <2>4, PoolNumbers
      <3>2. Pruned + 1 \in Nat /\ 0 + (MaxSize - (Pruned + 1)) + 1 <= Len(idle) + (MaxSize - total)
        BY <2>7, PoolNats
      <3>3. 0 + (MaxSize - (Pruned + 1)) <= AwakeNow' + missed
        <4>1. AwakeNow \in Int /\ AwakeNow' \in Int /\ missed \in Int
          BY PoolNats
        <4>2. 0 + (MaxSize - (Pruned + 1)) \in Int /\ Len(idle) + (MaxSize - total) \in Int
          BY <2>7, PoolNats
        <4> QED BY <2>6, <3>1, <3>2, <4>1, <4>2, OneLessSuffices
      <3> QED BY <2>6, <3>3
    <2>5. PoolTypes'
      BY <1>1, <2>1, <2>2 DEF PoolTypes
    <2> QED BY <1>1, <1>2, <2>1, <2>2, <2>3, <2>4, <2>5, PoolInvIsPrime DEF PoolRest
  <1>4. CASE /\ user' = [user EXCEPT ![u] = "out"]
             /\ missed' = IF user[u] = "again" THEN missed + 1 ELSE missed
             /\ total' = Pruned /\ UNCHANGED <<lease, active>>
    <2>0. user[u] \notin HoldingPlaces /\ "out" \in Whereabouts /\ "out" \notin HoldingPlaces
      BY <1>1 DEF HoldingPlaces, Whereabouts
    <2>6. "out" \notin WaitingPlaces /\ (user[u] # "again" => user[u] \notin AwakePlaces)
      BY <1>1 DEF AwakePlaces, WaitingPlaces
    <2>1. /\ user' \in [Borrowers -> Whereabouts] /\ lease' \in [Borrowers -> Drivers]
          /\ HeldNow' = HeldNow /\ AwakeNow' >= AwakeNow - 1
          /\ user[u] \notin AwakePlaces => AwakeNow' >= AwakeNow
          /\ In(user', WaitingPlaces) # {} => In(user, WaitingPlaces) # {}
          /\ \A v \in Borrowers : user'[v] = "has" => Clean(lease'[v])
      BY <1>4, <2>0, <2>6, MovesOn
    <2>2. total' \in Nat /\ active' \in Nat /\ missed' \in Nat /\ total' <= MaxSize
      BY <1>1, <1>4, PrunedIs, PoolNumbers
    <2>7. HeldNow' = HeldNow /\ Len(idle') = 0 /\ total' = Pruned /\ active' = active
      BY <1>1, <1>4, <2>1
    <2>8. Pruned \in Nat /\ Pruned >= total - Len(idle)
      BY PrunedIs
    <2>9. (AwakeNow' >= AwakeNow - 1 /\ missed' = missed + 1) \/ (AwakeNow' >= AwakeNow /\ missed' = missed)
      BY <1>4, <2>1, <2>6
    <2>3. ASSUME "close" \notin poolMishap' PROVE total' = Len(idle') + HeldNow' /\ total' <= MaxSize /\ active' = HeldNow'
      <3>1. active = HeldNow /\ Pruned = HeldNow
        BY <1>1, <2>3, PoolNumbers, PrunedIs
      <3> QED BY <2>2, <2>7, <3>1, PoolNats
    <2>4. ASSUME In(user', WaitingPlaces) # {} PROVE Len(idle') + (MaxSize - total') <= AwakeNow' + missed'
      <3>1. Len(idle) + (MaxSize - total) <= AwakeNow + missed
        BY <2>1, <2>4, PoolNumbers
      <3> QED BY <2>7, <2>8, <2>9, <3>1, PoolNats
    <2>5. PoolTypes'
      BY <1>1, <2>1, <2>2 DEF PoolTypes
    <2> QED BY <1>1, <1>2, <2>1, <2>2, <2>3, <2>4, <2>5, PoolInvIsPrime DEF PoolRest
  <1> QED BY <1>3, <1>4 DEF AcquireNew

LEMMA AcquireWaitsKeeps ==
    ASSUME PoolInv, NEW u \in Borrowers, AcquireWaits(u)
    PROVE  PoolInv'
  <1>1. /\ user[u] \in {"out", "again"} /\ Pruned >= MaxSize /\ idle' = <<>> /\ times' = times
        /\ Len(idle') = 0 /\ idle' \in Seq(Drivers) /\ Len(times') >= Len(idle') /\ times' \in Seq(BOOLEAN)
        /\ total' = Pruned /\ active' = active /\ lease' = lease /\ poolMishap' = poolMishap /\ missed' = 0
    BY PoolNumbers, PoolShape DEF AcquireWaits
  <1>2. \A i \in 1..Len(idle') : Clean(idle'[i])
    BY <1>1
  <1>3. PICK x \in {"waiting", "timed", "out"} : user' = [user EXCEPT ![u] = x]
    BY DEF AcquireWaits
  <1>4. user[u] \notin HoldingPlaces /\ x \in Whereabouts /\ x \notin HoldingPlaces
    BY <1>1, <1>3 DEF HoldingPlaces, Whereabouts
  <1>5. /\ user' \in [Borrowers -> Whereabouts] /\ lease' \in [Borrowers -> Drivers]
        /\ HeldNow' = HeldNow
        /\ \A v \in Borrowers : user'[v] = "has" => Clean(lease'[v])
    BY <1>1, <1>3, <1>4, MovesOn
  <1>6. total' \in Nat /\ active' \in Nat /\ missed' \in Nat /\ total' <= MaxSize
    BY <1>1, PrunedIs, PoolNumbers
  <1>7. "close" \notin poolMishap' => total' = Len(idle') + HeldNow' /\ total' <= MaxSize /\ active' = HeldNow'
    BY <1>1, <1>5, PrunedIs, PoolNumbers
  <1>8. Len(idle') + (MaxSize - total') <= AwakeNow' + missed'
    BY <1>1, PrunedIs, PoolNumbers, CountsAreNatPrime
  <1>9. PoolTypes'
    BY <1>1, <1>5, <1>6 DEF PoolTypes
  <1> QED BY <1>1, <1>2, <1>5, <1>6, <1>7, <1>8, <1>9, PoolInvIsPrime DEF PoolRest

(* One that is woken or whose time is up sleeps on only if all are taken.  *)
LEMMA WokenKeeps ==
    ASSUME PoolInv, NEW u \in Borrowers, Woken(u) \/ Deadline(u)
    PROVE  PoolInv'
  <1>1. /\ idle' = idle /\ times' = times /\ total' = total /\ active' = active
        /\ lease' = lease /\ poolMishap' = poolMishap /\ missed' = missed
    BY DEF Woken, Deadline
  <1>2. PICK x \in {"again", "waiting", "timed", "out"} :
          /\ user' = [user EXCEPT ![u] = x]
          /\ x \in {"again", "out"} \/ ~ Available
          /\ x = "out" => user[u] = "timed"
          /\ user[u] \in {"notified", "alerted", "timed"}
    <2>1. CASE Woken(u)
      BY <2>1 DEF Woken
    <2>2. CASE Deadline(u)
      BY <2>2 DEF Deadline
    <2> QED BY <2>1, <2>2
  <1>3. /\ user[u] \notin HoldingPlaces /\ x \in Whereabouts /\ x \notin HoldingPlaces
        /\ x = "again" => x \in AwakePlaces /\ x \notin WaitingPlaces
        /\ x = "out" => user[u] \notin AwakePlaces /\ x \notin WaitingPlaces
    BY <1>2 DEF HoldingPlaces, Whereabouts, AwakePlaces, WaitingPlaces
  <1>4. /\ user' \in [Borrowers -> Whereabouts] /\ lease' \in [Borrowers -> Drivers]
        /\ HeldNow' = HeldNow
        /\ user[u] \notin AwakePlaces \/ x \in AwakePlaces => AwakeNow' >= AwakeNow
        /\ x \notin WaitingPlaces /\ In(user', WaitingPlaces) # {} => In(user, WaitingPlaces) # {}
        /\ \A v \in Borrowers : user'[v] = "has" => Clean(lease'[v])
    BY <1>1, <1>2, <1>3, MovesOn
  <1>5. ~ Available => idle = <<>> /\ Len(idle) = 0 /\ total >= MaxSize
    BY PoolNumbers, PoolShape DEF Available
  <1>6. ASSUME In(user', WaitingPlaces) # {}
        PROVE  Len(idle') + (MaxSize - total') <= AwakeNow' + missed'
    <2>1. CASE ~ Available
      <3>1. Len(idle) = 0 /\ total >= MaxSize
        BY <1>5, <2>1
      <3> QED BY <1>1, <3>1, PoolNumbers, CountsAreNatPrime
    <2>2. CASE Available
      <3>1. x \notin WaitingPlaces /\ (user[u] \notin AwakePlaces \/ x \in AwakePlaces)
        BY <1>2, <1>3, <2>2
      <3>2. AwakeNow' >= AwakeNow /\ In(user, WaitingPlaces) # {}
        BY <1>4, <1>6, <3>1
      <3> QED BY <1>1, <3>2, PoolNumbers, CountsAreNatPrime
    <2> QED BY <2>1, <2>2
  <1>7. PoolTypes'
    BY <1>1, <1>4, PoolShape DEF PoolTypes
  <1>8. \A i \in 1..Len(idle') : Clean(idle'[i])
    BY <1>1, PoolClean
  <1>9. /\ "close" \notin poolMishap' => total' = Len(idle') + HeldNow' /\ total' <= MaxSize /\ active' = HeldNow'
        /\ Len(times') >= Len(idle') /\ total' <= MaxSize
    BY <1>1, <1>4, PoolNumbers
  <1> QED BY <1>4, <1>6, <1>7, <1>8, <1>9, PoolInvIsPrime DEF PoolRest
(* release(): the driver is back, and one of those who wait is awake.      *)
LEMMA ReleaseCounts ==
    ASSUME PoolInv, NEW u \in Borrowers, Release(u)
    PROVE  /\ user' \in [Borrowers -> Whereabouts] /\ HeldNow' = HeldNow - 1 /\ HeldNow >= 1
           /\ In(user', WaitingPlaces) # {} => In(user, WaitingPlaces) # {} /\ AwakeNow' = AwakeNow + 1
           /\ \A v \in Borrowers : user'[v] = "has" => v # u /\ user[v] = "has"
  <1> DEFINE mid == [user EXCEPT ![u] = "out"]
  <1>0. user[u] = "has" /\ user \in [Borrowers -> Whereabouts] /\ "out" \in Whereabouts
    BY PoolShape DEF Release, Whereabouts
  <1>1. PICK w \in (IF Waiters = {} THEN {u} ELSE Waiters) :
          user' = [v \in Borrowers |-> IF v = u THEN "out" ELSE IF v = w THEN Alerted(user[v]) ELSE user[v]]
    BY DEF Release
  <1>2. /\ mid \in [Borrowers -> Whereabouts] /\ \A v \in Borrowers : mid[v] = IF v = u THEN "out" ELSE user[v]
    BY <1>0
  <1>3. /\ Cardinality(In(mid, HoldingPlaces)) = HeldNow - 1
        /\ Cardinality(In(mid, AwakePlaces)) = AwakeNow
        /\ In(mid, WaitingPlaces) \subseteq In(user, WaitingPlaces)
    <2>1. /\ user[u] \in HoldingPlaces /\ "out" \notin HoldingPlaces /\ "out" \notin AwakePlaces
          /\ user[u] \notin AwakePlaces /\ "out" \notin WaitingPlaces
      BY <1>0 DEF HoldingPlaces, AwakePlaces, WaitingPlaces
    <2>2. Cardinality(In(mid, HoldingPlaces)) = HeldNow + (IF "out" \in HoldingPlaces THEN 1 ELSE 0)
                                                 - (IF user[u] \in HoldingPlaces THEN 1 ELSE 0)
      BY <1>0, MovesIn, ZenonT(60) DEF HeldNow
    <2>3. Cardinality(In(mid, AwakePlaces)) = AwakeNow + (IF "out" \in AwakePlaces THEN 1 ELSE 0)
                                                 - (IF user[u] \in AwakePlaces THEN 1 ELSE 0)
      BY <1>0, MovesIn, ZenonT(60) DEF AwakeNow
    <2>4. In(mid, WaitingPlaces) \subseteq In(user, WaitingPlaces)
      BY <1>0, <2>1, MovesIn
    <2>5. Cardinality(In(mid, HoldingPlaces)) = HeldNow - 1
      BY <2>1, <2>2, CountsAreNat
    <2>6. Cardinality(In(mid, AwakePlaces)) = AwakeNow
      BY <2>1, <2>3, CountsAreNat
    <2> QED BY <2>4, <2>5, <2>6
  <1>4. HeldNow >= 1
    <2>1. Cardinality(In(mid, HoldingPlaces)) \in Nat
      BY InFinite
    <2> QED BY <1>3, <2>1, CountsAreNat
  <1>5. Waiters = In(user, WaitingPlaces)
    BY DEF Waiters, In, WaitingPlaces
  <1>6. CASE Waiters = {}
    <2>1. user' = mid
      BY <1>0, <1>1, <1>6
    <2>2. HeldNow' = HeldNow - 1 /\ In(user', WaitingPlaces) = {}
      BY <1>3, <1>5, <1>6, <2>1 DEF HeldNow
    <2> QED BY <1>2, <1>4, <2>1, <2>2
  <1>7. CASE Waiters # {}
    <2> DEFINE x == Alerted(user[w])
    <2>1. w \in Borrowers /\ w # u /\ user[w] \in WaitingPlaces /\ x \in {"notified", "alerted"}
      BY <1>0, <1>1, <1>7 DEF Waiters, WaitingPlaces, Alerted
    <2>2. /\ x \in Whereabouts /\ x \in AwakePlaces /\ x \notin HoldingPlaces /\ x # "has"
          /\ user[w] \notin AwakePlaces /\ user[w] \notin HoldingPlaces
      BY <2>1 DEF Whereabouts, AwakePlaces, HoldingPlaces, WaitingPlaces
    <2>3. mid[w] = user[w]
      BY <1>2, <2>1
    <2>4. user' = [mid EXCEPT ![w] = x]
      BY <1>0, <1>1, <1>2, <2>1
    <2> HIDE DEF x, mid
    <2>5. /\ user' \in [Borrowers -> Whereabouts]
          /\ Cardinality(In(user', HoldingPlaces)) = Cardinality(In(mid, HoldingPlaces))
               + (IF x \in HoldingPlaces THEN 1 ELSE 0) - (IF mid[w] \in HoldingPlaces THEN 1 ELSE 0)
          /\ Cardinality(In(user', AwakePlaces)) = Cardinality(In(mid, AwakePlaces))
               + (IF x \in AwakePlaces THEN 1 ELSE 0) - (IF mid[w] \in AwakePlaces THEN 1 ELSE 0)
      BY <1>2, <2>1, <2>2, <2>4, MovesIn, ZenonT(60)
    <2>6. HeldNow' = HeldNow - 1 /\ AwakeNow' = AwakeNow + 1
      BY <1>3, <2>2, <2>3, <2>5, CountsAreNat DEF HeldNow, AwakeNow
    <2>7. In(user, WaitingPlaces) # {}
      BY <1>5, <1>7
    <2>8. \A v \in Borrowers : user'[v] = "has" => v # u /\ user[v] = "has"
      BY <1>2, <2>1, <2>2, <2>4 DEF mid
    <2> QED BY <1>4, <2>5, <2>6, <2>7, <2>8
  <1> QED BY <1>6, <1>7

LEMMA ReleaseKeeps ==
    ASSUME PoolInv, NEW u \in Borrowers, Release(u)
    PROVE  PoolInv'
  <1>1. /\ user' \in [Borrowers -> Whereabouts] /\ HeldNow' = HeldNow - 1 /\ HeldNow >= 1
        /\ In(user', WaitingPlaces) # {} => In(user, WaitingPlaces) # {} /\ AwakeNow' = AwakeNow + 1
        /\ \A v \in Borrowers : user'[v] = "has" => v # u /\ user[v] = "has"
    BY ReleaseCounts
  <1>2. /\ active' = Less(active, 1) /\ lease' = [lease EXCEPT ![u] = NoDriver]
        /\ poolMishap' = poolMishap /\ missed' = missed /\ user[u] = "has"
    BY DEF Release
  <1>3. lease' \in [Borrowers -> Drivers] /\ \A v \in Borrowers : user'[v] = "has" => Clean(lease'[v])
    BY <1>1, <1>2, PoolShape, PoolClean, NewDrivers
  <1>4. active' \in Nat /\ (active >= 1 => active' = active - 1)
    BY <1>2, LessIs, PoolNumbers
  <1>6. CASE lease[u].up
    <2>1. /\ idle' = Append(idle, lease[u]) /\ times' = Append(times, FALSE) /\ total' = total
          /\ lease[u] \in Drivers /\ Clean(lease[u])
      BY <1>2, <1>6, PoolShape, PoolClean DEF Release
    <2>2. idle' \in Seq(Drivers) /\ Len(idle') = Len(idle) + 1
      BY <2>1, PoolShape
    <2>3. times' \in Seq(BOOLEAN) /\ Len(times') = Len(times) + 1
      BY <2>1, PoolShape
    <2>4. \A i \in 1..Len(idle') : idle'[i] = IF i <= Len(idle) THEN idle[i] ELSE lease[u]
      BY <2>1, <2>2, PoolShape, PoolNumbers
    <2>5. \A i \in 1..Len(idle') : Clean(idle'[i])
      BY <2>1, <2>2, <2>4, PoolClean, PoolNumbers
    <2>6. /\ "close" \notin poolMishap' => total' = Len(idle') + HeldNow' /\ total' <= MaxSize /\ active' = HeldNow'
          /\ Len(times') >= Len(idle')
      BY <1>1, <1>2, <1>4, <2>1, <2>2, <2>3, PoolNumbers
    <2>8. ASSUME In(user', WaitingPlaces) # {} PROVE Len(idle') + (MaxSize - total') <= AwakeNow' + missed'
      <3>1. Len(idle) + (MaxSize - total) <= AwakeNow + missed /\ AwakeNow' = AwakeNow + 1
        BY <1>1, <2>8, PoolNumbers
      <3>2. Len(idle') = Len(idle) + 1 /\ total' = total /\ missed' = missed
        BY <1>2, <2>1, <2>2
      <3> QED BY <3>1, <3>2, PoolNats
    <2>7. PoolTypes'
      <3>1. total' \in Nat /\ missed' \in Nat
        BY <1>2, <2>1, PoolNumbers
      <3> QED BY <1>1, <1>3, <1>4, <2>2, <2>3, <3>1 DEF PoolTypes
    <2> QED BY <1>3, <2>1, <2>5, <2>6, <2>7, <2>8, PoolNumbers, PoolInvIsPrime DEF PoolRest
  <1>7. CASE ~ lease[u].up
    <2>1. total' = Less(total, 1) /\ idle' = idle /\ times' = times
      BY <1>7 DEF Release
    <2>2. total' \in Nat /\ (total >= 1 => total' = total - 1) /\ total' >= total - 1 /\ total' <= total
      BY <2>1, LessIs, PoolNumbers
    <2>3. /\ "close" \notin poolMishap' => total' = Len(idle') + HeldNow' /\ total' <= MaxSize /\ active' = HeldNow'
          /\ Len(times') >= Len(idle') /\ total' <= MaxSize
      BY <1>1, <1>2, <1>4, <2>1, <2>2, PoolNumbers
    <2>6. ASSUME In(user', WaitingPlaces) # {} PROVE Len(idle') + (MaxSize - total') <= AwakeNow' + missed'
      <3>1. Len(idle) + (MaxSize - total) <= AwakeNow + missed /\ AwakeNow' = AwakeNow + 1
        BY <1>1, <2>6, PoolNumbers
      <3>2. total' >= total - 1 /\ total' \in Nat
        BY <2>2
      <3>3. Len(idle) + (MaxSize - total') <= AwakeNow' + missed
        <4>1. /\ AwakeNow \in Int /\ AwakeNow' \in Int /\ missed \in Int
              /\ Len(idle) \in Int /\ total \in Int /\ total' \in Int /\ MaxSize \in Int
          BY <3>2, PoolNats
        <4> QED BY <3>1, <3>2, <4>1, OneMoreSuffices
      <3> QED BY <1>2, <2>1, <3>3
    <2>4. \A i \in 1..Len(idle') : Clean(idle'[i])
      BY <2>1, PoolClean
    <2>5. PoolTypes'
      BY <1>1, <1>2, <1>3, <1>4, <2>1, <2>2, PoolShape, PoolNumbers DEF PoolTypes
    <2> QED BY <1>3, <2>3, <2>4, <2>5, <2>6, PoolInvIsPrime DEF PoolRest
  <1> QED BY <1>6, <1>7
LEMMA ClosePoolKeeps ==
    ASSUME PoolInv, ClosePool
    PROVE  PoolInv'
  <1>1. /\ idle' = <<>> /\ times' = <<>> /\ total' = 0 /\ active' = 0 /\ lease' = lease /\ missed' = missed
        /\ user' = [u \in Borrowers |-> IF u \in Waiters THEN Alerted(user[u]) ELSE user[u]]
        /\ poolMishap' = IF Holders = {} THEN poolMishap ELSE poolMishap \union {"close"}
    BY DEF ClosePool
  <1>2. \A u \in Borrowers : user'[u] \in Whereabouts /\ user'[u] \notin WaitingPlaces
                            /\ (user'[u] \in HoldingPlaces => user'[u] = user[u])
    BY <1>1, PoolShape DEF Waiters, Alerted, Whereabouts, WaitingPlaces, HoldingPlaces
  <1>3. user' \in [Borrowers -> Whereabouts] /\ In(user', WaitingPlaces) = {}
    BY <1>1, <1>2 DEF In
  <1>4. Holders = {} => HeldNow' = 0
    <2>1. Holders = {} => In(user', HoldingPlaces) = {}
      BY <1>2 DEF Holders, In, HoldingPlaces
    <2> QED BY <2>1, FS_EmptySet DEF HeldNow
  <1>5. PoolTypes' /\ Len(idle') = 0 /\ Len(times') = 0
    BY <1>1, <1>3, PoolShape, PoolNumbers DEF PoolTypes
  <1>6. "close" \notin poolMishap' => Holders = {}
    BY <1>1
  <1>7. \A v \in Borrowers : user'[v] = "has" => Clean(lease'[v])
    BY <1>1, <1>2, PoolClean DEF HoldingPlaces
  <1>8. \A i \in 1..Len(idle') : Clean(idle'[i])
    BY <1>5
  <1>9. "close" \notin poolMishap' => total' = Len(idle') + HeldNow' /\ total' <= MaxSize /\ active' = HeldNow'
    BY <1>1, <1>4, <1>5, <1>6, PoolNumbers
  <1>10. Len(times') >= Len(idle') /\ total' <= MaxSize
    BY <1>1, <1>5, PoolNumbers
  <1> QED BY <1>3, <1>5, <1>7, <1>8, <1>9, <1>10, PoolInvIsPrime DEF PoolRest

(* What leaves the threads alone leaves their counts alone.                *)
LEMMA SameThreads == user' = user => HeldNow' = HeldNow /\ AwakeNow' = AwakeNow
  BY DEF HeldNow, AwakeNow

LEMMA Joined ==
    ASSUME NEW S, NEW s \in Seq(S), NEW t \in Seq(S)
    PROVE  /\ s \o t \in Seq(S) /\ Len(s \o t) = Len(s) + Len(t)
           /\ \A i \in 1..(Len(s) + Len(t)) : (s \o t)[i] = IF i <= Len(s) THEN s[i] ELSE t[i - Len(s)]
  OBVIOUS

LEMMA InitializeKeeps ==
    ASSUME PoolInv, Initialize
    PROVE  PoolInv'
  <1>1. PICK n \in 0..(MinSize - total) :
          /\ total < MinSize
          /\ idle' = idle \o [i \in 1..n |-> Driver] /\ times' = times \o [i \in 1..n |-> FALSE]
          /\ total' = total + n
    BY DEF Initialize
  <1>2. n \in Nat /\ total + n <= MinSize
    BY <1>1, PoolNumbers
  <1>3. /\ user' = user /\ lease' = lease /\ active' = active /\ poolMishap' = poolMishap /\ missed' = missed
    BY DEF Initialize
  <1>6. /\ idle' \in Seq(Drivers) /\ Len(idle') = Len(idle) + n
        /\ \A i \in 1..Len(idle') : idle'[i] = IF i <= Len(idle) THEN idle[i] ELSE Driver
    <2> DEFINE more == [i \in 1..n |-> Driver]
    <2>1. more \in Seq(Drivers) /\ Len(more) = n /\ \A i \in 1..n : more[i] = Driver
      BY <1>2, NewDrivers
    <2>2. idle' = idle \o more /\ idle \in Seq(Drivers)
      BY <1>1, PoolShape
    <2> HIDE DEF more
    <2>3. /\ idle' \in Seq(Drivers) /\ Len(idle') = Len(idle) + n
          /\ \A i \in 1..(Len(idle) + n) : idle'[i] = IF i <= Len(idle) THEN idle[i] ELSE more[i - Len(idle)]
      BY <2>1, <2>2, Joined
    <2> QED BY <1>2, <2>1, <2>3, PoolNumbers, SMTT(60)
  <1>7. times' \in Seq(BOOLEAN) /\ Len(times') = Len(times) + n
    <2> DEFINE more == [i \in 1..n |-> FALSE]
    <2>1. more \in Seq(BOOLEAN) /\ Len(more) = n
      BY <1>2
    <2>2. times' = times \o more /\ times \in Seq(BOOLEAN)
      BY <1>1, PoolShape
    <2> HIDE DEF more
    <2> QED BY <2>1, <2>2, Joined
  <1>8. \A i \in 1..Len(idle') : Clean(idle'[i])
    <2> SUFFICES ASSUME NEW i \in 1..Len(idle') PROVE Clean(idle'[i])
      OBVIOUS
    <2>1. CASE i <= Len(idle)
      <3>1. i \in 1..Len(idle) /\ idle'[i] = idle[i]
        BY <1>2, <1>6, <2>1, PoolNumbers
      <3> QED BY <3>1, PoolClean
    <2>2. CASE ~ (i <= Len(idle))
      BY <1>6, <2>2, NewDrivers
    <2> QED BY <2>1, <2>2
  <1>9. /\ "close" \notin poolMishap' => total' = Len(idle') + HeldNow' /\ total' <= MaxSize /\ active' = HeldNow'
        /\ Len(times') >= Len(idle') /\ total' <= MaxSize
    BY <1>1, <1>2, <1>3, <1>6, <1>7, SameThreads, PoolNumbers, SMTT(60)
  <1>10. PoolTypes'
    <2>1. total' \in Nat /\ active' \in Nat /\ missed' \in Nat
      BY <1>1, <1>2, <1>3, PoolNumbers, SMTT(60)
    <2> QED BY <1>3, <1>6, <1>7, <2>1, PoolShape DEF PoolTypes
  <1>11. \A v \in Borrowers : user'[v] = "has" => Clean(lease'[v])
    BY <1>3, PoolClean
  <1>12. In(user', WaitingPlaces) # {} => Len(idle') + (MaxSize - total') <= AwakeNow' + missed'
    BY <1>1, <1>2, <1>3, <1>6, SameThreads, PoolNumbers, SMTT(60)
  <1> QED BY <1>8, <1>9, <1>10, <1>11, <1>12, PoolInvIsPrime DEF PoolRest

(* healthCheck() counts what it takes off and what it opens.               *)
LEMMA HealthCheckKeeps ==
    ASSUME PoolInv, HealthCheck
    PROVE  PoolInv'
  <1>1. PICK spared, timesLeft, missing, f, g, added :
          LET remaining == Less(total, Len(idle) - Cardinality(spared))
          IN  /\ spared \in SUBSET (1..Len(idle))
              /\ timesLeft = spared \union (Len(idle) + 1)..Len(times)
              /\ missing = IF MinSize > remaining THEN MinSize - remaining ELSE 0
              /\ f \in InOrder(spared) /\ g \in InOrder(timesLeft)
              /\ added \in [1..missing -> {Driver, NoDriver}]
              /\ idle' = [n \in DOMAIN f |-> idle[f[n]]] \o added
              /\ times' = [n \in DOMAIN g |-> times[g[n]]] \o [n \in 1..missing |-> FALSE]
              /\ total' = remaining + missing
    BY PoolShape, ZenonT(60) DEF HealthCheck
  <1>2. user' = user /\ lease' = lease /\ active' = active /\ poolMishap' = poolMishap /\ missed' = missed
    BY DEF HealthCheck
  <1> DEFINE left == Cardinality(spared)
             remaining == Less(total, Len(idle) - left)
  <1>3. left \in Nat /\ left <= Len(idle) /\ IsFiniteSet(spared)
    <2>0. Len(idle) \in Nat
      BY PoolNumbers
    <2>1. IsFiniteSet(1..Len(idle)) /\ Cardinality(1..Len(idle)) = IF 1 > Len(idle) THEN 0 ELSE Len(idle) - 1 + 1
      BY <2>0, FS_Interval
    <2>2. Cardinality(1..Len(idle)) = Len(idle)
      BY <2>0, <2>1
    <2>3. spared \subseteq 1..Len(idle)
      BY <1>1
    <2> QED BY <2>1, <2>2, <2>3, FS_Subset, FS_CardinalityType, ZenonT(60)
  <1>4. timesLeft \subseteq 1..Len(times) /\ IsFiniteSet(timesLeft) /\ Cardinality(timesLeft) \in Nat /\ left <= Cardinality(timesLeft)
    <2>0. timesLeft = spared \union (Len(idle) + 1)..Len(times) /\ Len(idle) \in Nat /\ Len(times) \in Nat
          /\ Len(times) >= Len(idle)
      BY <1>1, PoolNumbers
    <2>3. \A i \in spared : i \in 1..Len(times)
      BY <1>1, <2>0
    <2>4. \A i \in (Len(idle) + 1)..Len(times) : i \in 1..Len(times)
      BY <2>0
    <2>1. timesLeft \subseteq 1..Len(times) /\ spared \subseteq timesLeft
      BY <2>0, <2>3, <2>4, Zenon
    <2>2. IsFiniteSet(1..Len(times))
      BY PoolNumbers, FS_Interval
    <2> QED BY <2>1, <2>2, FS_Subset, FS_CardinalityType
  <1>5. /\ remaining \in Nat /\ (total >= Len(idle) - left => remaining = total - (Len(idle) - left))
        /\ remaining >= total - (Len(idle) - left) /\ remaining <= total
    <2>1. Len(idle) - left \in Nat /\ total \in Nat
      BY <1>3, PoolNats
    <2> QED BY <2>1, LessIs
  <1>6. missing \in Nat /\ missing = (IF MinSize > remaining THEN MinSize - remaining ELSE 0) /\ total' = remaining + missing
    BY <1>1, <1>5, PoolNumbers, SMTT(60)
  <1> HIDE DEF left, remaining
  <1>7. \A S : Cardinality(S) \in Nat => \A h \in InOrder(S) : h \in [1..Cardinality(S) -> S]
    BY DEF InOrder
  <1>8. idle' \in Seq(Drivers) /\ Len(idle') = left + missing /\ \A i \in 1..Len(idle') : Clean(idle'[i])
    <2> DEFINE kept == [n \in DOMAIN f |-> idle[f[n]]]
    <2>1. f \in [1..left -> spared]
      BY <1>1, <1>3, <1>7 DEF left
    <2>2. \A n \in 1..left : f[n] \in 1..Len(idle)
      BY <1>1, <2>1
    <2>3. kept \in Seq(Drivers) /\ Len(kept) = left /\ \A n \in 1..left : kept[n] = idle[f[n]]
      BY <1>3, <2>1, <2>2, PoolClean
    <2>4. added \in Seq(Drivers) /\ Len(added) = missing /\ \A n \in 1..missing : added[n] \in {Driver, NoDriver}
      <3>1. added \in [1..missing -> {Driver, NoDriver}] /\ missing \in Nat
        BY <1>1, <1>6
      <3> QED BY <3>1, NewDrivers
    <2>5. idle' = kept \o added
      BY <1>1
    <2> HIDE DEF kept
    <2>6. /\ idle' \in Seq(Drivers) /\ Len(idle') = left + missing
          /\ \A i \in 1..(left + missing) : idle'[i] = IF i <= left THEN kept[i] ELSE added[i - left]
      BY <2>3, <2>4, <2>5, Joined
    <2>7. ASSUME NEW i \in 1..(left + missing) PROVE Clean(idle'[i])
      <3>1. CASE i <= left
        <4>1. i \in 1..left
          BY <1>3, <1>6, <3>1
        <4>2. idle'[i] = kept[i]
          BY <2>6, <3>1
        <4>3. kept[i] = idle[f[i]]
          BY <2>3, <4>1
        <4> QED BY <2>2, <4>1, <4>2, <4>3, PoolClean
      <3>2. CASE ~ (i <= left)
        <4>1. i - left \in 1..missing /\ idle'[i] = added[i - left]
          BY <1>3, <1>6, <2>6, <3>2
        <4> QED BY <2>4, <4>1, NewDrivers
      <3> QED BY <3>1, <3>2
    <2> QED BY <2>6, <2>7
  <1>9. times' \in Seq(BOOLEAN) /\ Len(times') = Cardinality(timesLeft) + missing
    <2> DEFINE kept == [n \in DOMAIN g |-> times[g[n]]]
               more == [n \in 1..missing |-> FALSE]
    <2>1. g \in [1..Cardinality(timesLeft) -> timesLeft]
      BY <1>1, <1>4, <1>7
    <2>2. \A n \in 1..Cardinality(timesLeft) : times[g[n]] \in BOOLEAN
      <3>1. \A i \in 1..Len(times) : times[i] \in BOOLEAN
        BY PoolShape
      <3> QED BY <1>4, <2>1, <3>1
    <2>3. kept \in Seq(BOOLEAN) /\ Len(kept) = Cardinality(timesLeft)
      BY <1>4, <2>1, <2>2
    <2>4. more \in Seq(BOOLEAN) /\ Len(more) = missing
      <3>1. missing \in Nat
        BY <1>6
      <3> QED BY <3>1
    <2>5. times' = kept \o more
      BY <1>1
    <2> HIDE DEF kept, more
    <2> QED BY <2>3, <2>4, <2>5, Joined
  <1>13. total' <= MaxSize
    <2>1. CASE MinSize > remaining
      BY <1>5, <1>6, <2>1, PoolNumbers, SMTT(60)
    <2>2. CASE ~ (MinSize > remaining)
      BY <1>5, <1>6, <2>2, PoolNumbers, SMTT(60)
    <2> QED BY <2>1, <2>2
  <1>10. /\ "close" \notin poolMishap' => total' = Len(idle') + HeldNow' /\ total' <= MaxSize /\ active' = HeldNow'
         /\ Len(times') >= Len(idle')
    <2>1. HeldNow' = HeldNow /\ Len(idle') = left + missing /\ Len(times') = Cardinality(timesLeft) + missing
      BY <1>2, <1>8, <1>9, SameThreads
    <2>2. /\ left \in Nat /\ left <= Len(idle) /\ Cardinality(timesLeft) \in Nat /\ left <= Cardinality(timesLeft)
          /\ missing \in Nat
      BY <1>3, <1>4, <1>6
    <2>3. ASSUME "close" \notin poolMishap PROVE total' = Len(idle') + HeldNow' /\ total' <= MaxSize /\ active' = HeldNow'
      <3>1. total = Len(idle) + HeldNow /\ total <= MaxSize /\ active = HeldNow
        BY <2>3, PoolNumbers
      <3>2. remaining = left + HeldNow
        BY <1>5, <2>2, <3>1, PoolNumbers
      <3>3. total' = Len(idle') + HeldNow'
        BY <1>6, <2>1, <2>2, <3>2, PoolNumbers, SMTT(60)
      <3> QED BY <1>2, <2>1, <3>1, <3>3, <1>13
    <2>4. Len(times') >= Len(idle')
      BY <2>1, <2>2
    <2> QED BY <1>2, <2>3, <2>4
  <1>11. PoolTypes'
    <2>1. total' \in Nat /\ active' \in Nat /\ missed' \in Nat
      BY <1>2, <1>5, <1>6, PoolNumbers
    <2> QED BY <1>2, <1>8, <1>9, <2>1, PoolShape DEF PoolTypes
  <1>12. \A v \in Borrowers : user'[v] = "has" => Clean(lease'[v])
    BY <1>2, PoolClean
  <1>14. ASSUME In(user', WaitingPlaces) # {} PROVE Len(idle') + (MaxSize - total') <= AwakeNow' + missed'
    <2>1. /\ AwakeNow' = AwakeNow /\ missed' = missed /\ Len(idle') = left + missing /\ total' = remaining + missing
          /\ missing \in Nat /\ left \in Nat
      BY <1>2, <1>3, <1>6, <1>8, SameThreads
    <2>2. Len(idle) + (MaxSize - total) <= AwakeNow + missed
      BY <1>2, <1>14, PoolNumbers
    <2>3. remaining \in Nat /\ remaining >= total - (Len(idle) - left)
      BY <1>5
    <2> QED BY <2>1, <2>2, <2>3, PoolNats
  <1> QED BY <1>8, <1>10, <1>11, <1>12, <1>13, <1>14, PoolInvIsPrime DEF PoolRest

(* A thread with a driver goes on with it, inside a transaction or not.    *)
LEMMA HolderKeeps ==
    ASSUME PoolInv, NEW u \in Borrowers, user[u] \in HoldingPlaces,
           NEW x \in HoldingPlaces, user' = [user EXCEPT ![u] = x],
           NEW d \in Drivers, x = "has" => Clean(d), lease' = [lease EXCEPT ![u] = d],
           UNCHANGED <<idle, times, total, active, poolMishap, missed>>
    PROVE  PoolInv'
  <1>1. x \in Whereabouts /\ x \notin AwakePlaces /\ x \notin WaitingPlaces /\ user[u] \notin AwakePlaces
    BY DEF HoldingPlaces, Whereabouts, AwakePlaces, WaitingPlaces
  <1>2. /\ user' \in [Borrowers -> Whereabouts]
        /\ HeldNow' = HeldNow + (IF x \in HoldingPlaces THEN 1 ELSE 0) - (IF user[u] \in HoldingPlaces THEN 1 ELSE 0)
        /\ AwakeNow' = AwakeNow + (IF x \in AwakePlaces THEN 1 ELSE 0) - (IF user[u] \in AwakePlaces THEN 1 ELSE 0)
        /\ x \notin WaitingPlaces /\ In(user', WaitingPlaces) # {} => In(user, WaitingPlaces) # {}
        /\ \A v \in Borrowers : user'[v] = IF v = u THEN x ELSE user[v]
    BY <1>1, OneMoves, PoolShape
  <1>3. HeldNow' = HeldNow /\ AwakeNow' = AwakeNow
    BY <1>1, <1>2, CountsAreNat
  <1>4. lease' \in [Borrowers -> Drivers] /\ \A v \in Borrowers : lease'[v] = IF v = u THEN d ELSE lease[v]
    BY PoolShape
  <1>5. \A v \in Borrowers : user'[v] = "has" => Clean(lease'[v])
    BY <1>2, <1>4, PoolClean
  <1>6. PoolTypes'
    BY <1>2, <1>4, PoolShape, PoolNumbers DEF PoolTypes
  <1>7. \A i \in 1..Len(idle') : Clean(idle'[i])
    BY PoolClean
  <1>8. /\ "close" \notin poolMishap' => total' = Len(idle') + HeldNow' /\ total' <= MaxSize /\ active' = HeldNow'
        /\ Len(times') >= Len(idle') /\ total' <= MaxSize
        /\ In(user', WaitingPlaces) # {} => Len(idle') + (MaxSize - total') <= AwakeNow' + missed'
    BY <1>1, <1>2, <1>3, PoolNumbers
  <1> QED BY <1>5, <1>6, <1>7, <1>8, PoolInvIsPrime DEF PoolRest

LEMMA TransactionKeeps ==
    ASSUME PoolInv, NEW u \in Borrowers, BeginTransaction(u) \/ Commit(u) \/ Rollback(u)
    PROVE  PoolInv'
  <1>1. lease[u] \in Drivers /\ lease \in [Borrowers -> Drivers]
    BY PoolShape
  <1>2. /\ [lease[u] EXCEPT !.tx = TRUE] \in Drivers
        /\ [lease[u] EXCEPT !.tx = FALSE] \in Drivers /\ Clean([lease[u] EXCEPT !.tx = FALSE])
        /\ [lease[u] EXCEPT !.failed = TRUE] \in Drivers /\ Clean([lease[u] EXCEPT !.failed = TRUE])
    BY <1>1 DEF Drivers, Clean
  <1>3. /\ user[u] \in HoldingPlaces
        /\ UNCHANGED <<idle, times, total, active, poolMishap, missed>>
    BY DEF BeginTransaction, Commit, Rollback, HoldingPlaces
  <1>5. CASE BeginTransaction(u)
    <2>1. lease' = [lease EXCEPT ![u] = [lease[u] EXCEPT !.tx = TRUE]]
      BY <1>5 DEF BeginTransaction
    <2>2. user' = [user EXCEPT ![u] = "scope"] \/ user' = [user EXCEPT ![u] = "with"]
      BY <1>5 DEF BeginTransaction
    <2>3. "scope" \in HoldingPlaces /\ "with" \in HoldingPlaces /\ "scope" # "has" /\ "with" # "has"
      BY DEF HoldingPlaces
    <2> QED BY <1>2, <1>3, <2>1, <2>2, <2>3, HolderKeeps
  <1>6. CASE Commit(u) \/ Rollback(u)
    <2>1. \/ lease' = [lease EXCEPT ![u] = [lease[u] EXCEPT !.tx = FALSE]]
          \/ lease' = [lease EXCEPT ![u] = [lease[u] EXCEPT !.failed = TRUE]]
      BY <1>6 DEF Commit, Rollback, RolledBack
    <2>2. user' = [user EXCEPT ![u] = "has"] /\ "has" \in HoldingPlaces
      BY <1>6 DEF Commit, Rollback, HoldingPlaces
    <2> QED BY <1>2, <1>3, <2>1, <2>2, HolderKeeps
  <1> QED BY <1>5, <1>6

LEMMA QuietKeeps ==
    ASSUME PoolInv, IdleTimePasses \/ Breaks \/ UNCHANGED poolVars
    PROVE  PoolInv'
  <1>1. user' = user /\ total' = total /\ active' = active /\ poolMishap' = poolMishap /\ missed' = missed /\ HeldNow' = HeldNow /\ AwakeNow' = AwakeNow
    BY SameThreads DEF IdleTimePasses, Breaks, poolVars
  <1>2. \A d \in Drivers : [d EXCEPT !.up = FALSE] \in Drivers /\ (Clean(d) => Clean([d EXCEPT !.up = FALSE]))
    BY DEF Drivers, Clean
  <1>3. times' \in Seq(BOOLEAN) /\ Len(times') = Len(times)
    <2>1. CASE times' = times
      BY <2>1, PoolShape
    <2>2. CASE times' = [i \in DOMAIN times |-> TRUE]
      <3>1. DOMAIN times = 1..Len(times) /\ Len(times) \in Nat
        BY PoolShape
      <3> QED BY <2>2, <3>1
    <2> QED BY <2>1, <2>2 DEF IdleTimePasses, Breaks, poolVars
  <1>4. idle' \in Seq(Drivers) /\ Len(idle') = Len(idle) /\ \A i \in 1..Len(idle') : Clean(idle'[i])
    <2>1. CASE idle' = idle
      BY <2>1, PoolShape, PoolClean
    <2>2. CASE \E i \in DOMAIN idle : idle' = [idle EXCEPT ![i].up = FALSE]
      <3>1. PICK i \in 1..Len(idle) : idle' = [idle EXCEPT ![i] = [idle[i] EXCEPT !.up = FALSE]]
        BY <2>2, PoolShape
      <3>2. [idle[i] EXCEPT !.up = FALSE] \in Drivers /\ Clean([idle[i] EXCEPT !.up = FALSE])
        BY <1>2, PoolClean
      <3>3. idle' \in Seq(Drivers) /\ Len(idle') = Len(idle)
        BY <3>1, <3>2, PoolShape
      <3>4. \A j \in 1..Len(idle) : idle'[j] = IF j = i THEN [idle[i] EXCEPT !.up = FALSE] ELSE idle[j]
        BY <3>1, PoolShape
      <3> QED BY <3>2, <3>3, <3>4, PoolClean
    <2> QED BY <2>1, <2>2 DEF IdleTimePasses, Breaks, poolVars
  <1>5. lease' \in [Borrowers -> Drivers] /\ \A v \in Borrowers : Clean(lease[v]) => Clean(lease'[v])
    <2>1. CASE lease' = lease
      BY <2>1, PoolShape
    <2>2. CASE \E u \in Holders : lease' = [lease EXCEPT ![u].up = FALSE]
      <3>1. PICK u \in Borrowers : lease' = [lease EXCEPT ![u] = [lease[u] EXCEPT !.up = FALSE]]
        BY <2>2 DEF Holders
      <3> QED BY <1>2, <3>1, PoolShape
    <2> QED BY <2>1, <2>2 DEF IdleTimePasses, Breaks, poolVars
  <1>6. PoolTypes'
    BY <1>1, <1>3, <1>4, <1>5, PoolShape, PoolNumbers DEF PoolTypes
  <1>7. \A v \in Borrowers : user'[v] = "has" => Clean(lease'[v])
    BY <1>1, <1>5, PoolClean
  <1>8. /\ "close" \notin poolMishap' => total' = Len(idle') + HeldNow' /\ total' <= MaxSize /\ active' = HeldNow'
        /\ Len(times') >= Len(idle') /\ total' <= MaxSize
        /\ In(user', WaitingPlaces) # {} => Len(idle') + (MaxSize - total') <= AwakeNow' + missed'
    BY <1>1, <1>3, <1>4, PoolNumbers
  <1> QED BY <1>4, <1>6, <1>7, <1>8, PoolInvIsPrime DEF PoolRest

LEMMA PoolInvStep == PoolInv /\ [DbPoolNext]_poolVars => PoolInv'
  BY AcquireIdleKeeps, AcquireNewKeeps, AcquireWaitsKeeps, WokenKeeps, ReleaseKeeps, TransactionKeeps,
     InitializeKeeps, ClosePoolKeeps, HealthCheckKeeps, QuietKeeps DEF DbPoolNext

LEMMA PoolIsSound == PoolInv => PoolCounts /\ IdleIsClean /\ WaiterIsServed
  <1> SUFFICES ASSUME PoolInv PROVE PoolCounts /\ IdleIsClean /\ WaiterIsServed
    OBVIOUS
  <1>1. Holders = In(user, HoldingPlaces) /\ Waiters = In(user, WaitingPlaces)
    BY DEF Holders, Waiters, In, HoldingPlaces, WaitingPlaces
  <1>2. PoolCounts
    BY <1>1 DEF PoolInv, PoolCounts
  <1>3. IdleIsClean
    BY PoolShape, PoolClean DEF IdleIsClean, Clean
  <1>4. Awake = In(user, AwakePlaces)
    BY DEF Awake, In, AwakePlaces
  <1>5. WaiterIsServed
    BY <1>1, <1>4 DEF PoolInv, WaiterIsServed, Openings
  <1> QED BY <1>2, <1>3, <1>5

(* A driver.  The counters of updates and the names are natural numbers.   *)
DriverInv ==
    /\ pending \in Nat /\ name \in Nat
    /\ DriverSound
    /\ \A n \in refused : n \in Nat /\ n <= name
    /\ driverOpen => name \notin refused

LEMMA DriverInvInit == DriverInit => DriverInv
  BY DEF DriverInit, DriverInv, DriverSound

LEMMA DriverInvStep == DriverInv /\ [DriverNext]_driverVars => DriverInv'
  <1> SUFFICES ASSUME DriverInv, [DriverNext]_driverVars PROVE DriverInv'
    OBVIOUS
  <1> USE DEF DriverInv, DriverSound
  <1>1. CASE CloseDriver
    <2>1. names' = names \ {name} /\ driverOpen /\ driverOpen' = FALSE /\ refused' = refused /\ name' = name
          /\ tx' = FALSE /\ pending' = 0 /\ flag' = flag /\ (blurred' <=> blurred \/ tx)
      BY <1>1 DEF CloseDriver, Abandon
    <2>2. names' = refused
      BY <2>1
    <2> QED BY <2>1, <2>2
  <1>2. CASE BeginDriver
    BY <1>2 DEF BeginDriver
  <1>3. CASE CommitDriver
    BY <1>3 DEF CommitDriver
  <1>4. CASE ExecuteUpdate
    BY <1>4 DEF ExecuteUpdate
  <1>5. CASE SessionLost
    <2>1. /\ names' = names /\ driverOpen /\ driverOpen' = driverOpen /\ refused' = refused /\ name' = name
          /\ tx' = FALSE /\ pending' = 0 /\ flag' = flag /\ (blurred' <=> blurred \/ tx)
      BY <1>5 DEF SessionLost, Abandon
    <2> QED BY <2>1
  <1>6. ASSUME NEW ok \in BOOLEAN, Reopen(ok) PROVE DriverInv'
    <2>1. /\ name' = name + 1 /\ names' = (IF driverOpen THEN names \ {name} ELSE names) \cup {name'}
          /\ driverOpen' = ok /\ refused' = (IF ok THEN refused ELSE refused \cup {name'})
          /\ tx' = FALSE /\ pending' = 0 /\ flag' = flag /\ (blurred' <=> blurred \/ tx)
      BY <1>6 DEF Reopen, Abandon
    <2>2. (IF driverOpen THEN names \ {name} ELSE names) = refused
      <3>1. CASE driverOpen
        BY <3>1
      <3>2. CASE ~ driverOpen
        BY <3>2
      <3> QED BY <3>1, <3>2
    <2>5. names' = refused \cup {name'}
      BY <2>1, <2>2
    <2>6. name' \in Nat /\ name' \notin refused /\ \A n \in refused : n <= name'
      BY <2>1
    <2>3. CASE ok = TRUE
      BY <2>1, <2>3, <2>5, <2>6
    <2>4. CASE ok = FALSE
      BY <2>1, <2>4, <2>5, <2>6
    <2> QED BY <2>3, <2>4
  <1>7. ASSUME NEW ok \in BOOLEAN, RollbackDriver(ok) PROVE DriverInv'
    <2>1. CASE ok = TRUE
      BY <1>7, <2>1 DEF RollbackDriver
    <2>2. CASE ok = FALSE
      BY <1>7, <2>2 DEF RollbackDriver
    <2> QED BY <2>1, <2>2
  <1>8. CASE UNCHANGED driverVars
    BY <1>8 DEF driverVars
  <1> QED BY <1>1, <1>2, <1>3, <1>4, <1>5, <1>6, <1>7, <1>8 DEF DriverNext, OpenSqlite, OpenMySql, OpenPostgreSql

(* For any threads and sizes, whatever breaks and whoever waits: the pool  *)
(* counts the drivers there are until closeAll() is called with one in     *)
(* use; it takes back none with a transaction open but after a rollback or *)
(* a withTransaction() commit that failed; while someone sleeps in         *)
(* acquire(), no more drivers are free than threads are awake or have      *)
(* failed to open theirs (connection_pool.h, transaction.h); and a         *)
(* driver's flag is wrong only after a transaction its connection was      *)
(* closed or lost in (database_driver.cpp).                                *)
THEOREM ConnectionsCorrect == DbPoolSpec /\ DriverSpec => []ConnectionsSound
  <1>1. PoolInv /\ DriverInv => ConnectionsSound
    BY PoolIsSound DEF DriverInv, ConnectionsSound
  <1> QED BY <1>1, PoolInvInit, PoolInvStep, DriverInvInit, DriverInvStep, PTL DEF DbPoolSpec, DriverSpec
=============================================================================
