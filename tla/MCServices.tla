----------------------------- MODULE MCServices -----------------------------
(***************************************************************************)
(* The services that share no state, side by side: a behaviour is one of   *)
(* authentication, of its permissions, of the stored tokens, their expiry  *)
(* or the requests for them, of the HTTP or the WebSocket server, of health*)
(* checks, of woven calls, of the RPC registry or transport, of the pool   *)
(* of database connections or of one connection.  The others stay in one   *)
(* initial state.                                                          *)
(***************************************************************************)
EXTENDS Credentials, Servers, WovenAndRemoteCalls, Database

VARIABLE subject

Plain == [size |-> 1, headers |-> TRUE, malformed |-> FALSE, method |-> "GET",
          authorized |-> TRUE, excluded |-> FALSE, routed |-> TRUE]

SomeInquiries ==
    {[Plain EXCEPT !.size = 2], [Plain EXCEPT !.size = 3], [Plain EXCEPT !.headers = FALSE],
     [Plain EXCEPT !.malformed = TRUE], [Plain EXCEPT !.authorized = FALSE],
     [Plain EXCEPT !.method = "OPTIONS", !.authorized = FALSE],
     [Plain EXCEPT !.authorized = FALSE, !.excluded = TRUE, !.routed = FALSE]}

SomeChains == {<< >>, <<"logging", "auth">>, <<"cors", "auth">>, <<"auth", "throws">>}

Subjects == {"auth", "permission", "tokens", "expiry", "flow", "http", "websocket", "health",
             "weaver", "registry", "transport", "pool", "driver"}

credentialVars == <<authVars, permissionVars, tokenVars, expiryVars, flowVars>>
serverVars == <<httpServerVars, wsVars, healthVars>>
remoteVars == <<weaverVars, rpcVars, poolVars, driverVars>>

Init ==
    /\ subject \in Subjects
    /\ AuthInit /\ PermissionInit /\ TokensInit /\ ExpiryInit /\ FlowInit
    /\ ServerInit /\ WsInit /\ HealthInit
    /\ WeaverInit /\ RpcInit /\ DbPoolInit /\ DriverInit
    /\ subject # "tokens" => dir = TRUE
    /\ subject # "expiry" => canRefresh = TRUE
    /\ subject # "http" => chain = << >>
    /\ subject # "driver" => dbType = "SQLite"

CredentialStep ==
    \/ subject = "auth" /\ AuthNext /\ UNCHANGED <<permissionVars, tokenVars, expiryVars, flowVars>>
    \/ subject = "permission" /\ PermissionNext /\ UNCHANGED <<authVars, tokenVars, expiryVars, flowVars>>
    \/ subject = "tokens" /\ TokensNext /\ UNCHANGED <<authVars, permissionVars, expiryVars, flowVars>>
    \/ subject = "expiry" /\ ExpiryNext /\ UNCHANGED <<authVars, permissionVars, tokenVars, flowVars>>
    \/ subject = "flow" /\ FlowNext /\ UNCHANGED <<authVars, permissionVars, tokenVars, expiryVars>>

ServerStep ==
    \/ subject = "http" /\ ServerNext /\ UNCHANGED <<wsVars, healthVars>>
    \/ subject = "websocket" /\ WsNext /\ UNCHANGED <<httpServerVars, healthVars>>
    \/ subject = "health" /\ HealthNext /\ UNCHANGED <<httpServerVars, wsVars>>

CallStep ==
    \/ subject = "weaver" /\ WeaverNext /\ UNCHANGED <<rpcVars, poolVars, driverVars>>
    \/ subject = "registry" /\ RegistryNext /\ UNCHANGED <<weaverVars, poolVars, driverVars>>
    \/ subject = "transport" /\ TransportNext /\ UNCHANGED <<weaverVars, poolVars, driverVars>>
    \/ subject = "pool" /\ DbPoolNext /\ UNCHANGED <<weaverVars, rpcVars, driverVars>>
    \/ subject = "driver" /\ DriverNext /\ UNCHANGED <<weaverVars, rpcVars, poolVars>>

Next ==
    /\ UNCHANGED subject
    /\ \/ CredentialStep /\ UNCHANGED <<serverVars, remoteVars>>
       \/ ServerStep /\ UNCHANGED <<credentialVars, remoteVars>>
       \/ CallStep /\ UNCHANGED <<credentialVars, serverVars>>

Spec ==
    /\ Init /\ [][Next]_<<subject, credentialVars, serverVars, remoteVars>>
    /\ ServerFairness /\ RpcFairness /\ FlowFairness

-----------------------------------------------------------------------------
(* Accepted connections are closed or answered, an RPC request returns,    *)
(* and so does a token request, however deep their event loops nest.       *)
EverythingEnds == ConnectionsEnd /\ RequestsEnd /\ FlowsReturn

=============================================================================
