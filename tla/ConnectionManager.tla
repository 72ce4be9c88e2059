------------------------- MODULE ConnectionManager --------------------------
(***************************************************************************)
(* The connection manager over the client and the socket it drives.        *)
(***************************************************************************)
EXTENDS Integers

(***************************************************************************)
(* sc::network::TcpClient and WebSocket (tcp_client.cpp, web_socket.cpp),  *)
(* their ConnectionStateMachine and ReconnectPolicy, and the adapters that *)
(* make them an INetwork.  The two clients are the same code over two Qt   *)
(* sockets, so one module serves both; what the sockets do is external.    *)
(*                                                                         *)
(* Everything runs in the event loop of one thread.  A step is the         *)
(* delivery of one signal of the socket, one timer or one call.            *)
(***************************************************************************)
CONSTANTS
    ClientRetries,  \* ReconnectPolicy::m_maxRetries, 0 for unlimited
    MaxRetry,       \* bound on m_currentRetry
    MaxArmed        \* bound on the client's reconnect timers under way

ASSUME ClientAssumption == {ClientRetries, MaxRetry, MaxArmed} \subseteq Nat

VARIABLES
    kind,     \* which socket: "tcp" for QTcpSocket, "ws" for QWebSocket
    machine,  \* ConnectionStateMachine::m_state
    socket,   \* state of the Qt socket
    retry,    \* ReconnectPolicy::m_currentRetry
    armed,    \* single-shot timers that will call reconnect()
    told      \* NetworkAdapterBase::m_state

clientVars == <<kind, machine, socket, retry, armed, told>>

States == {"Disconnected", "Connecting", "Connected", "Disconnecting", "Error"}

(* "doomed": the close was asked for while connecting; "failed": the error *)
(* was signalled and the end of the connection is still to be.             *)
Sockets == {"idle", "connecting", "doomed", "open", "failed", "closing"}

(* transition(): moves only from an expected state *)
Transition(from, to) == IF machine \in from THEN to ELSE machine

CanConnect == machine \in {"Disconnected", "Error"}
CanDisconnect == machine \in {"Connected", "Connecting"}
ShouldReconnect == ClientRetries = 0 \/ retry < ClientRetries

ClientInit ==
    /\ kind \in {"tcp", "ws"}
    /\ machine = "Disconnected" /\ socket = "idle"
    /\ retry = 0 /\ armed = 0
    /\ told = "Created"

-----------------------------------------------------------------------------
(* QTcpSocket refuses to connect while it is busy and signals an error,    *)
(* which onError() takes for the failure of the new attempt.               *)
TcpOpen ==
    /\ kind = "tcp"
    /\ IF socket = "idle"
       THEN socket' = "connecting" /\ machine' = "Connecting"
       ELSE machine' = "Error" /\ UNCHANGED socket

(* QWebSocket::open() drops the old connection with all its signals.       *)
WsOpen ==
    /\ kind = "ws"
    /\ socket' = "connecting" /\ machine' = "Connecting"

Open == TcpOpen \/ WsOpen

(* connectToHost() and connectToServer() *)
ConnectToHost == IF CanConnect THEN Open ELSE UNCHANGED <<machine, socket>>

(* disconnectFromHost() and disconnectFromServer(): the machine passes     *)
(* through Disconnecting.  Timers that are armed stay armed.               *)
DisconnectFromHost ==
    IF CanDisconnect
    THEN /\ machine' = "Disconnected"
         /\ CASE socket = "connecting" -> socket' = "doomed"
              [] socket = "open" -> socket' \in {"closing", "idle"}
              [] OTHER -> UNCHANGED socket
    ELSE UNCHANGED <<machine, socket>>

(* NetworkAdapterBase::connectTo() and disconnect() *)
ConnectTo == told' = "Connecting" /\ ConnectToHost /\ UNCHANGED <<kind, retry, armed>>
Disconnect == told' = "Disconnected" /\ DisconnectFromHost /\ UNCHANGED <<kind, retry, armed>>

(* send(): the adapter says Working whether or not the client could write  *)
Send ==
    /\ told # "Created" /\ told' = "Working"
    /\ UNCHANGED <<kind, machine, socket, retry, armed>>

(* The timer of onDisconnected() *)
Reconnect ==
    /\ armed > 0 /\ armed' = armed - 1
    /\ ConnectToHost
    /\ UNCHANGED <<kind, retry, told>>

-----------------------------------------------------------------------------
(* A mistaken OnConnected: the machine does not look where it is *)
OnConnectedAnyway == machine' = "Connected" /\ retry' = 0 /\ told' = "Connected"

(* The handlers of the socket's signals, connected in the constructors.    *)
OnConnected ==
    /\ machine' = Transition({"Connecting"}, "Connected")
    /\ retry' = 0 /\ told' = "Connected"

OnError == machine' = Transition({"Connecting", "Connected"}, "Error")

OnDisconnected ==
    /\ machine' = Transition({"Connecting", "Connected", "Disconnecting"}, "Disconnected")
    /\ told' = "Disconnected"
    /\ IF machine \in {"Connected", "Connecting"} /\ ShouldReconnect
       THEN retry' = retry + 1 /\ armed' = armed + 1
       ELSE UNCHANGED <<retry, armed>>

(* What the sockets do.  A QTcpSocket that was told to close while it was  *)
(* connecting connects first; a QWebSocket signals connected() only after  *)
(* its handshake.                                                          *)
Established ==
    /\ \/ socket = "connecting" /\ socket' = "open"
       \/ socket = "doomed" /\ kind = "tcp" /\ socket' = "closing"
    /\ OnConnected /\ UNCHANGED <<kind, armed>>

(* The peer refuses: QTcpSocket signals an error; QWebSocket an error and  *)
(* the end of the connection, in either order.                             *)
Refused ==
    /\ socket \in {"connecting", "doomed"} /\ OnError
    /\ socket' = IF kind = "tcp" THEN "idle" ELSE "failed"
    /\ UNCHANGED <<kind, retry, armed, told>>

(* The connection is lost: first the error, then Ended; or, by a QWebSocket *)
(* whose peer says good-bye, only Ended.                                   *)
Lost ==
    /\ socket = "open" /\ socket' = "failed" /\ OnError
    /\ UNCHANGED <<kind, retry, armed, told>>

Ended ==
    /\ \/ socket \in {"failed", "closing"}
       \/ kind = "ws" /\ socket \in {"connecting", "doomed", "open"}
    /\ retry < MaxRetry /\ armed < MaxArmed
    /\ socket' = "idle"
    /\ OnDisconnected /\ UNCHANGED kind

SocketSignal == Established \/ Refused \/ Lost \/ Ended

(* The client believes itself connected only while its socket is: no late  *)
(* signal of an attempt that was given up, and no timer of an earlier one, *)
(* makes ConnectionStateMachine say Connected (tcp_client.cpp:93-111); and *)
(* an adapter that says Disconnected is not above a client that is         *)
(* connected.                                                              *)
ConnectedMeansOpen ==
    /\ machine \in States
    /\ machine = "Connected" => socket = "open" /\ told # "Disconnected"

-----------------------------------------------------------------------------
(***************************************************************************)
(* sc::network::ConnectionManager (connection_manager.cpp) with one        *)
(* registered connection, its HeartbeatPolicy (heartbeat_policy.cpp) and   *)
(* the client below it, which is the first part of this module.            *)
(*                                                                         *)
(* Connections with different names share nothing but m_mutex, and timers  *)
(* and calls run in one event loop, so a step is a call or a timer.        *)
(***************************************************************************)
CONSTANTS
    Configs,     \* the ConnectionConfigs to register with
    MaxPending   \* bound on the manager's reconnect timers under way

VARIABLES
    managed,     \* ManagedConnection::state, or "none"
    config,      \* ManagedConnection::config
    polling,     \* pollTimer is running
    beat,        \* heartbeat: "none", "idle", or "waiting" for an answer
    retryCount,  \* ManagedConnection::retryCount
    pending,     \* single-shot timers that will call tryReconnect()
    wanted       \* history: the user's last call was connect()

managerVars == <<managed, config, polling, beat, retryCount, pending, wanted>>
networkVars == <<clientVars, managerVars>>

ConnectionConfig == [autoReconnect : BOOLEAN, maxRetries : Nat, heartbeat : BOOLEAN]

ASSUME ManagerAssumption == Configs \subseteq ConnectionConfig

NetworkInit ==
    /\ ClientInit
    /\ managed = "none" /\ config \in Configs
    /\ polling = FALSE /\ beat = "none"
    /\ retryCount = 0 /\ pending = 0 /\ wanted = FALSE

-----------------------------------------------------------------------------
(* registerConnection(): an entry of that name is stopped and replaced,    *)
(* without disconnecting its network.                                      *)
Register(c) ==
    /\ managed' = "Disconnected" /\ config' = c /\ retryCount' = 0
    /\ polling' = FALSE /\ beat' = "none" /\ wanted' = FALSE
    /\ UNCHANGED <<clientVars, pending>>

Unregister ==
    /\ managed # "none" /\ managed' = "none"
    /\ polling' = FALSE /\ beat' = "none" /\ wanted' = FALSE
    /\ Disconnect
    /\ UNCHANGED <<config, retryCount, pending>>

(* connect(), and connectAll() for each entry *)
Connect ==
    /\ managed \notin {"none", "Connected", "Connecting"}
    /\ managed' = "Connecting" /\ retryCount' = 0
    /\ ConnectTo
    /\ polling' = TRUE /\ wanted' = TRUE
    /\ UNCHANGED <<config, beat, pending>>

(* disconnect(), and disconnectAll() for each entry: stopPolling() ends    *)
(* the poll timer and the heartbeat; the single-shot timers stay.          *)
DisconnectManaged ==
    /\ managed # "none" /\ managed' = "Disconnected" /\ retryCount' = 0
    /\ polling' = FALSE /\ beat' = "none" /\ wanted' = FALSE
    /\ Disconnect
    /\ UNCHANGED <<config, pending>>

(* scheduleReconnect() *)
ScheduleReconnect ==
    IF config.maxRetries > 0 /\ retryCount >= config.maxRetries
    THEN managed' = "Error" /\ UNCHANGED <<retryCount, pending>>
    ELSE /\ managed' = "Reconnecting"
         /\ retryCount' = (IF config.maxRetries > 0 THEN retryCount + 1 ELSE retryCount)
         /\ pending' = pending + 1

(* The connection is down: Disconnected, and on to Reconnecting or Error   *)
GoDown ==
    IF config.autoReconnect THEN ScheduleReconnect
    ELSE managed' = "Disconnected" /\ UNCHANGED <<retryCount, pending>>

(* A mistaken Poll: it stops once the connection is up *)
PollUntilConnected ==
    /\ polling
    /\ managed \in {"Connecting", "Reconnecting"} /\ machine = "Connected"
    /\ managed' = "Connected" /\ polling' = FALSE
    /\ UNCHANGED <<clientVars, config, beat, retryCount, pending, wanted>>

(* checkConnection(): the poll timer.  A loss leaves the heartbeat alone.  *)
Poll ==
    /\ polling
    /\ \/ /\ managed \in {"Connecting", "Reconnecting"} /\ machine = "Connected"
          /\ managed' = "Connected"
          /\ beat' = (IF config.heartbeat /\ beat = "none" THEN "idle" ELSE beat)
          /\ UNCHANGED <<retryCount, pending>>
       \/ /\ managed = "Connected" /\ machine # "Connected"
          /\ pending < MaxPending /\ GoDown
          /\ UNCHANGED beat
    /\ UNCHANGED <<clientVars, config, polling, wanted>>

(* HeartbeatPolicy::sendHeartbeat(): the manager gives the policy no       *)
(* message, so nothing is sent and onResponse() never stops the time-out.  *)
Beat ==
    /\ beat \in {"idle", "waiting"} /\ beat' = "waiting"
    /\ UNCHANGED <<clientVars, managed, config, polling, retryCount, pending, wanted>>

(* onHeartbeatTimeout() *)
BeatTimeout ==
    /\ beat = "waiting" /\ pending < MaxPending
    /\ beat' = "none" /\ Disconnect
    /\ GoDown
    /\ UNCHANGED <<config, polling, wanted>>

(* A mistaken TryReconnect: the state is not looked at again *)
TryReconnectAnyway ==
    /\ pending > 0 /\ pending' = pending - 1
    /\ ConnectTo
    /\ managed' = (IF managed = "none" THEN managed ELSE "Reconnecting")
    /\ UNCHANGED <<config, polling, beat, retryCount, wanted>>

(* tryReconnect(): asks once, and schedules nothing if that fails          *)
TryReconnect ==
    /\ pending > 0 /\ pending' = pending - 1
    /\ IF managed = "Reconnecting" THEN ConnectTo ELSE UNCHANGED clientVars
    /\ UNCHANGED <<managed, config, polling, beat, retryCount, wanted>>

ClientStep == (SocketSignal \/ Reconnect \/ Send) /\ UNCHANGED managerVars

NetworkNext ==
    \/ ClientStep
    \/ \E c \in Configs : Register(c)
    \/ Unregister \/ Connect \/ DisconnectManaged
    \/ Poll \/ Beat \/ BeatTimeout \/ TryReconnect

(* Timers fire and the socket signals what became of an attempt.           *)
NetworkFairness ==
    /\ WF_networkVars(Poll) /\ WF_networkVars(TryReconnect)
    /\ WF_networkVars(ClientStep /\ socket' # socket)

NetworkSpec == NetworkInit /\ [][NetworkNext]_networkVars

-----------------------------------------------------------------------------
(* After disconnect(), unregisterConnection() or a new registration, no    *)
(* timer set up before (reconnect, heartbeat, poll) changes the state that *)
(* is reported: connection_manager.cpp:145, :325, :387.                    *)
DisconnectIsFinal == ~wanted => managed \in {"none", "Disconnected"}

(* A connection that reports Connected and is not goes to another state in *)
(* the end: somebody is always left to notice (connection_manager.cpp:292).*)
LossNoticed ==
    [](managed = "Connected" /\ machine # "Connected"
        => <>(managed # "Connected" \/ machine = "Connected"))

(* A client that says it is connected has an open socket and has told so,  *)
(* and disconnect() is final, whatever timers are still armed.             *)
ManagerSound == ConnectedMeansOpen /\ DisconnectIsFinal
=============================================================================
