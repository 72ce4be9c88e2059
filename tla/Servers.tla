------------------------------ MODULE Servers -------------------------------
(***************************************************************************)
(* The two servers of soul/server and the health checks behind one of      *)
(* their routes.                                                           *)
(***************************************************************************)
EXTENDS Naturals, Sequences, FiniteSets

(***************************************************************************)
(* sc::server::HttpServer (http_server.cpp) and its MiddlewareChain        *)
(* (middleware.cpp) in one event loop: a step is a call or a signal.       *)
(*                                                                         *)
(* A request arrives in segments; the first holds its header.  A socket    *)
(* object that was deleted may come again at the same address.             *)
(***************************************************************************)
CONSTANTS
    Sockets,         \* QTcpSocket objects
    Inquiries,       \* the requests clients send
    MaxConnections,  \* m_maxConnections, 0 for no limit
    SizeLimit,       \* segments a buffer may hold (1 MiB)
    Chains           \* middleware chains to serve with

VARIABLES
    listening, shuttingDown,
    chain,           \* m_middlewareChain
    conn,            \* what each socket is: see ConnStates
    inquiry,         \* the request its client sends
    buffers,         \* m_buffers: segments received, for the sockets it holds
    current,         \* m_currentConnections
    timer,           \* sockets whose connection time-out is armed
    answered         \* the status last answered on a socket, or 0

httpServerVars == <<listening, shuttingDown, chain, conn, inquiry, buffers, current, timer, answered>>

ConnStates == {"none", "pending", "refused", "open", "closing"}
Accepted == {s \in Sockets : conn[s] \in {"open", "closing"}}

(* An HttpRequest, as far as parsing, middleware and routing tell apart    *)
HttpInquiry ==
    [size : Nat, headers : BOOLEAN, malformed : BOOLEAN, method : {"GET", "OPTIONS"},
     authorized : BOOLEAN, excluded : BOOLEAN, routed : BOOLEAN]

ASSUME InquiriesAssumption == Inquiries \subseteq HttpInquiry
ASSUME SocketsAssumption == IsFiniteSet(Sockets) /\ MaxConnections \in Nat

ServerInit ==
    /\ listening = FALSE /\ shuttingDown = FALSE /\ chain \in Chains
    /\ conn = [s \in Sockets |-> "none"]
    /\ inquiry = [s \in Sockets |-> CHOOSE r \in Inquiries : TRUE]
    /\ buffers = << >> /\ current = 0 /\ timer = {}
    /\ answered = [s \in Sockets |-> 0]

-----------------------------------------------------------------------------
Without(f, s) == [x \in DOMAIN f \ {s} |-> f[x]]

Listen ==
    /\ ~listening /\ listening' = TRUE
    /\ UNCHANGED <<shuttingDown, chain, conn, inquiry, buffers, current, timer, answered>>

Incoming(s, r) ==
    /\ listening /\ conn[s] = "none"
    /\ conn' = [conn EXCEPT ![s] = "pending"]
    /\ inquiry' = [inquiry EXCEPT ![s] = r]
    /\ UNCHANGED <<listening, shuttingDown, chain, buffers, current, timer, answered>>

(* A mistaken OnNewConnection: no time-out is armed *)
OnNewConnectionUntimed(s) ==
    /\ conn[s] = "pending" /\ listening /\ ~shuttingDown
    /\ MaxConnections > 0 => current < MaxConnections
    /\ conn' = [conn EXCEPT ![s] = "open"] /\ current' = current + 1
    /\ UNCHANGED <<listening, shuttingDown, chain, inquiry, buffers, timer, answered>>

(* onNewConnection(): a socket that is refused gets 503 and no handlers    *)
OnNewConnection(s) ==
    /\ conn[s] = "pending" /\ listening
    /\ IF shuttingDown \/ (MaxConnections > 0 /\ current >= MaxConnections)
       THEN /\ conn' = [conn EXCEPT ![s] = "refused"]
            /\ answered' = [answered EXCEPT ![s] = 503]
            /\ UNCHANGED <<current, timer>>
       ELSE /\ conn' = [conn EXCEPT ![s] = "open"]
            /\ current' = current + 1 /\ timer' = timer \cup {s}
            /\ UNCHANGED answered
    /\ UNCHANGED <<listening, shuttingDown, chain, inquiry, buffers>>

-----------------------------------------------------------------------------
(* parseRequest(): a header with nothing but the request line counts as    *)
(* incomplete.                                                             *)
ParseRequest(r, got) ==
    IF ~r.headers THEN "Incomplete"
    ELSE IF r.malformed THEN "BadRequest"
    ELSE IF got < r.size THEN "Incomplete" ELSE "Ok"

(* before() of the built-in middleware: AuthMiddleware and CorsMiddleware  *)
(* stop a request, LoggingMiddleware and a custom one that throws do too   *)
Before(mw, r) ==
    CASE mw = "auth" -> IF r.excluded \/ r.authorized THEN 0 ELSE 401
      [] mw = "cors" -> IF r.method = "OPTIONS" THEN 204 ELSE 0
      [] mw = "throws" -> 500
      [] OTHER -> 0

(* findRoute() and the handler, which may throw                            *)
HandlerStatus(r) == IF r.routed THEN {200, 500} ELSE {404}

(* The chain up to the first middleware that stops, else the handler       *)
Statuses(mws, r) ==
    LET stops == {i \in DOMAIN mws : Before(mws[i], r) # 0}
    IN  IF stops = {} THEN HandlerStatus(r)
        ELSE {Before(mws[CHOOSE i \in stops : \A j \in stops : i <= j], r)}

(* sendResponse() writes and closes; not on a socket that is unconnected   *)
SendResponse(s, status) ==
    /\ conn' = [conn EXCEPT ![s] = "closing"]
    /\ answered' = [answered EXCEPT ![s] = status]

(* onReadyRead(): one more segment                                         *)
OnReadyRead(s) ==
    /\ s \in Accepted
    /\ LET got == IF s \in DOMAIN buffers THEN buffers[s] + 1 ELSE 1
           parsed == ParseRequest(inquiry[s], got)
       IN  IF got > SizeLimit
           THEN SendResponse(s, 413) /\ buffers' = Without(buffers, s)
           ELSE CASE parsed = "Incomplete" ->
                       /\ buffers' = [x \in DOMAIN buffers \cup {s} |-> IF x = s THEN got ELSE buffers[x]]
                       /\ UNCHANGED <<conn, answered>>
                  [] parsed = "BadRequest" ->
                       SendResponse(s, 400) /\ buffers' = Without(buffers, s)
                  [] OTHER ->
                       /\ \E st \in Statuses(chain, inquiry[s]) : SendResponse(s, st)
                       /\ buffers' = Without(buffers, s)
    /\ UNCHANGED <<listening, shuttingDown, chain, inquiry, current, timer>>

(* A mistaken OnDisconnected: the buffer is left *)
OnDisconnectedKeeps(s) ==
    /\ s \in Accepted /\ conn' = [conn EXCEPT ![s] = "none"]
    /\ current' = current - 1 /\ timer' = timer \ {s}
    /\ answered' = [answered EXCEPT ![s] = 0]
    /\ UNCHANGED <<listening, shuttingDown, chain, inquiry, buffers>>

(* onDisconnected(); the object goes, and its single-shot timer with it    *)
OnDisconnected(s) ==
    /\ s \in Accepted /\ conn' = [conn EXCEPT ![s] = "none"]
    /\ buffers' = Without(buffers, s)
    /\ current' = current - 1 /\ timer' = timer \ {s}
    /\ answered' = [answered EXCEPT ![s] = 0]
    /\ UNCHANGED <<listening, shuttingDown, chain, inquiry>>

RefusedGone(s) ==
    /\ conn[s] = "refused" /\ conn' = [conn EXCEPT ![s] = "none"]
    /\ answered' = [answered EXCEPT ![s] = 0]
    /\ UNCHANGED <<listening, shuttingDown, chain, inquiry, buffers, current, timer>>

(* The connection time-out closes the socket, which signals disconnected.  *)
OnTimeout(s) == s \in timer /\ OnDisconnected(s)

(* close(): every socket is closed, and signals so before close() returns. *)
(* The QTcpServer drops the pending ones.                                  *)
CloseAll ==
    /\ listening' = FALSE
    /\ conn' = [s \in Sockets |-> "none"]
    /\ current' = current - Cardinality(Accepted)
    /\ buffers' = << >> /\ timer' = {}
    /\ answered' = [s \in Sockets |-> 0]
    /\ UNCHANGED <<chain, inquiry>>

Close == CloseAll /\ UNCHANGED shuttingDown

(* shutdown(): in the loop's own thread no request is in flight while it   *)
(* waits, unless a handler calls it; either way it ends in close().        *)
Shutdown == CloseAll /\ shuttingDown' = TRUE

(* A handler that calls shutdown(): its own response is not sent.          *)
HandlerShutsDown(s) ==
    /\ s \in Accepted /\ 200 \in Statuses(chain, inquiry[s])
    /\ ParseRequest(inquiry[s], IF s \in DOMAIN buffers THEN buffers[s] + 1 ELSE 1) = "Ok"
    /\ Shutdown

ServerNext ==
    \/ Listen \/ Close \/ Shutdown
    \/ \E s \in Sockets :
           \/ \E r \in Inquiries : Incoming(s, r)
           \/ OnNewConnection(s) \/ OnReadyRead(s) \/ OnDisconnected(s)
           \/ RefusedGone(s) \/ OnTimeout(s) \/ HandlerShutsDown(s)

(* The timers of the loop fire.                                            *)
ServerFairness == \A s \in Sockets : WF_httpServerVars(OnTimeout(s))

ServerSpec == ServerInit /\ [][ServerNext]_httpServerVars /\ ServerFairness

-----------------------------------------------------------------------------
(* The connection count is exact and within its limit, no buffer outlives  *)
(* its connection (a socket at the same address would begin with old       *)
(* bytes), and a handler's 200 means that the chain let the request pass   *)
(* (http_server.cpp:278, :355, :366, :448).                                *)
ConnectionsAccounted ==
    /\ conn \in [Sockets -> ConnStates]
    /\ current = Cardinality(Accepted)
    /\ MaxConnections > 0 => current <= MaxConnections
    /\ DOMAIN buffers \subseteq Accepted
    /\ \A s \in Accepted : answered[s] = 200 =>
           \A i \in DOMAIN chain : Before(chain[i], inquiry[s]) = 0

(* Every connection that was accepted ends, also when its client sends     *)
(* half a request and waits (http_server.cpp:289).                         *)
ConnectionsEnd == \A s \in Sockets : [](conn[s] \in {"open", "closing"} => <>(conn[s] = "none"))

-----------------------------------------------------------------------------
(***************************************************************************)
(* sc::server::WebSocketServer and WebSocketSession (websocket_server.cpp) *)
(* in one event loop.  The server keeps raw pointers to its sessions, a    *)
(* session is deleted some time after its socket went down (deleteLater),  *)
(* and its address may be used again.                                      *)
(***************************************************************************)
CONSTANTS Sessions   \* addresses of sockets and sessions

VARIABLES
    wsListening,
    tcp,         \* "none", "connected", "closing" (disconnectFromHost) or "down"
    phase,       \* "none", "handshake", "session", or "deleted" by deleteLater()
    opened,      \* the sessions with m_open
    closing,     \* the sessions with m_closing
    sessions,    \* WebSocketServer::m_sessions
    closeFrames  \* history: Close frames sent on the connection

wsVars == <<wsListening, tcp, phase, opened, closing, sessions, closeFrames>>

WsInit ==
    /\ wsListening = FALSE
    /\ tcp = [s \in Sessions |-> "none"] /\ phase = [s \in Sessions |-> "none"]
    /\ opened = {} /\ closing = {} /\ sessions = {}
    /\ closeFrames = [s \in Sessions |-> 0]

-----------------------------------------------------------------------------
WsListen ==
    /\ ~wsListening /\ wsListening' = TRUE
    /\ UNCHANGED <<tcp, phase, opened, closing, sessions, closeFrames>>

(* onNewConnection(): wait for the upgrade request                         *)
WsNewConnection(s) ==
    /\ wsListening /\ phase[s] = "none"
    /\ phase' = [phase EXCEPT ![s] = "handshake"]
    /\ tcp' = [tcp EXCEPT ![s] = "connected"]
    /\ closeFrames' = [closeFrames EXCEPT ![s] = 0]
    /\ UNCHANGED <<wsListening, opened, closing, sessions>>

(* The first bytes are the request: performUpgrade() refuses it, also when *)
(* they are only its first part,                                           *)
UpgradeRefused(s) ==
    /\ phase[s] = "handshake" /\ tcp[s] = "connected"
    /\ phase' = [phase EXCEPT ![s] = "none"] /\ tcp' = [tcp EXCEPT ![s] = "none"]
    /\ UNCHANGED <<wsListening, opened, closing, sessions, closeFrames>>

(* or makes a session of it, whether or not close() was called meanwhile.  *)
Upgraded(s) ==
    /\ phase[s] = "handshake" /\ tcp[s] = "connected"
    /\ phase' = [phase EXCEPT ![s] = "session"]
    /\ opened' = opened \cup {s} /\ closing' = closing \ {s}
    /\ sessions' = sessions \cup {s}
    /\ UNCHANGED <<wsListening, tcp, closeFrames>>

(* sendCloseFrame() through sendFrame(): only while connected              *)
CloseFramesAfter(ss) ==
    [s \in Sessions |-> closeFrames[s] + (IF s \in ss /\ tcp[s] = "connected" THEN 1 ELSE 0)]

Hangup(ss) ==
    tcp' = [s \in Sessions |-> IF s \in ss /\ tcp[s] = "connected" THEN "closing" ELSE tcp[s]]

(* WebSocketSession::close() for those that are open and not closing       *)
CloseThese(ss) ==
    LET now == (ss \cap opened) \ closing
    IN  /\ closeFrames' = CloseFramesAfter(now)
        /\ opened' = opened \ now /\ closing' = closing \cup (ss \cap opened)
        /\ Hangup(now)

SessionClose(s) ==
    /\ phase[s] = "session" /\ CloseThese({s})
    /\ UNCHANGED <<wsListening, phase, sessions>>

(* parseFrame() with a Close frame: it is answered once                    *)
CloseReceived(s) ==
    /\ phase[s] = "session" /\ s \in opened /\ tcp[s] = "connected"
    /\ opened' = opened \ {s} /\ closing' = closing \cup {s}
    /\ closeFrames' = CloseFramesAfter({s} \ closing)
    /\ Hangup({s})
    /\ UNCHANGED <<wsListening, phase, sessions>>

(* onDisconnected(): the callback, and deleteLater().  A socket lost in    *)
(* its handshake has nobody to hear of it.                                 *)
SessionDown(s) ==
    /\ tcp[s] \in {"connected", "closing"}
    /\ tcp' = [tcp EXCEPT ![s] = "down"]
    /\ IF phase[s] = "session"
       THEN phase' = [phase EXCEPT ![s] = "deleted"] /\ opened' = opened \ {s}
       ELSE UNCHANGED <<phase, opened>>
    /\ UNCHANGED <<wsListening, closing, sessions, closeFrames>>

(* A mistaken SessionDestroyed: the pointer stays *)
SessionDestroyedListed(s) ==
    /\ phase[s] = "deleted"
    /\ phase' = [phase EXCEPT ![s] = "none"] /\ tcp' = [tcp EXCEPT ![s] = "none"]
    /\ UNCHANGED <<wsListening, opened, closing, sessions, closeFrames>>

(* destroyed(), and removeSession()                                        *)
SessionDestroyed(s) ==
    /\ phase[s] = "deleted"
    /\ phase' = [phase EXCEPT ![s] = "none"] /\ tcp' = [tcp EXCEPT ![s] = "none"]
    /\ sessions' = sessions \ {s}
    /\ UNCHANGED <<wsListening, opened, closing, closeFrames>>

(* WebSocketServer::close() *)
WsClose ==
    /\ wsListening' = FALSE /\ sessions' = {}
    /\ CloseThese(sessions)
    /\ UNCHANGED phase

WsNext ==
    \/ WsListen \/ WsClose
    \/ \E s \in Sessions :
           \/ WsNewConnection(s) \/ UpgradeRefused(s) \/ Upgraded(s)
           \/ SessionClose(s) \/ CloseReceived(s) \/ SessionDown(s) \/ SessionDestroyed(s)

(* Signals and deferred deletions are delivered.                           *)
WsFairness == \A s \in Sessions : WF_wsVars(SessionDestroyed(s))

WsSpec == WsInit /\ [][WsNext]_wsVars /\ WsFairness

-----------------------------------------------------------------------------
(* broadcast() follows every pointer of m_sessions: each one is a session  *)
(* that still exists; an open session is always listed, so that it gets    *)
(* the broadcast; and a peer is sent at most one Close frame               *)
(* (websocket_server.cpp:50, :222, :302, :335, :387).                      *)
SessionsSound ==
    /\ \A s \in sessions : phase[s] \in {"session", "deleted"}
    /\ opened \subseteq sessions
    /\ \A s \in Sessions : closeFrames[s] <= 1

-----------------------------------------------------------------------------
(***************************************************************************)
(* sc::server::HealthEndpoint (health.cpp): a check asks a snapshot of the *)
(* indicators one by one, while others add and remove indicators.          *)
(***************************************************************************)
CONSTANTS
    Indicators,  \* indicator names
    Critical     \* those whose isCritical() is TRUE

VARIABLES
    indicators,  \* the keys of m_indicators
    health,      \* what check() of each indicator would find now
    scope,       \* of the check under way: "none", "readiness" or "liveness"
    toAsk,       \* the rest of its snapshot
    details,     \* what it was told: indicator -> status
    report,      \* the overall status it returned, "none" before
    snapshot     \* history: what the check under way began with

healthVars == <<indicators, health, scope, toAsk, details, report, snapshot>>

HealthInit ==
    /\ indicators = {} /\ health = [i \in Indicators |-> "UP"]
    /\ scope = "none" /\ toAsk = {} /\ details = << >> /\ report = "none" /\ snapshot = {}

-----------------------------------------------------------------------------
AddIndicator(i) ==
    /\ indicators' = indicators \cup {i}
    /\ UNCHANGED <<health, scope, toAsk, details, report, snapshot>>

RemoveIndicator(i) ==
    /\ indicators' = indicators \ {i}
    /\ UNCHANGED <<health, scope, toAsk, details, report, snapshot>>

(* The part an indicator watches goes up or down, or its check throws.     *)
HealthChanges(i) ==
    /\ \E h \in {"UP", "DOWN", "UNKNOWN", "throws"} \ {health[i]} : health' = [health EXCEPT ![i] = h]
    /\ UNCHANGED <<indicators, scope, toAsk, details, report, snapshot>>

(* readiness() and liveness(): the snapshot                                *)
CheckBegins(sc) ==
    /\ scope = "none" /\ scope' = sc
    /\ snapshot' = (IF sc = "liveness" THEN indicators \cap Critical ELSE indicators)
    /\ toAsk' = snapshot' /\ details' = << >> /\ report' = "none"
    /\ UNCHANGED <<indicators, health>>

(* check() of an indicator; one that throws is DOWN                        *)
Found(h) == IF h = "throws" THEN "DOWN" ELSE h

(* A mistaken AskIndicator: one that throws is left out *)
AskIndicatorLeavesOut(i) ==
    /\ i \in toAsk /\ toAsk' = toAsk \ {i}
    /\ details' = (IF health[i] = "throws" THEN details
                   ELSE [x \in DOMAIN details \cup {i} |-> IF x = i THEN health[i] ELSE details[x]])
    /\ UNCHANGED <<indicators, health, scope, report, snapshot>>

AskIndicator(i) ==
    /\ i \in toAsk /\ toAsk' = toAsk \ {i}
    /\ details' = [x \in DOMAIN details \cup {i} |-> IF x = i THEN Found(health[i]) ELSE details[x]]
    /\ UNCHANGED <<indicators, health, scope, report, snapshot>>

(* The overall status: UP for an empty snapshot                            *)
Overall(ds) ==
    LET said(h) == \E i \in DOMAIN ds : ds[i] = h
    IN  IF DOMAIN ds = {} THEN "UP"
        ELSE IF said("DOWN") THEN "DOWN" ELSE IF said("UP") THEN "UP" ELSE "UNKNOWN"

CheckEnds ==
    /\ scope # "none" /\ toAsk = {} /\ scope' = "none"
    /\ report' = Overall(details)
    /\ UNCHANGED <<indicators, health, toAsk, details, snapshot>>

HealthNext ==
    \/ \E i \in Indicators : AddIndicator(i) \/ RemoveIndicator(i) \/ HealthChanges(i) \/ AskIndicator(i)
    \/ CheckBegins("readiness") \/ CheckBegins("liveness")
    \/ CheckEnds

HealthSpec == HealthInit /\ [][HealthNext]_healthVars

-----------------------------------------------------------------------------
(* A report speaks for every indicator registered when the check began,    *)
(* whatever was added or removed meanwhile, and is not UP if one of them   *)
(* was down or threw (health.cpp:57, :77).                                 *)
ReportComplete ==
    report # "none" =>
        /\ DOMAIN details = snapshot
        /\ report = "UP" => \A i \in snapshot : details[i] # "DOWN"
        /\ report = "DOWN" => \E i \in snapshot : details[i] = "DOWN"

(* A server counts exactly the sockets it has, a broadcast meets sessions  *)
(* that exist, and a health report leaves no indicator out.                *)
ServersSound == ConnectionsAccounted /\ SessionsSound /\ ReportComplete
=============================================================================
