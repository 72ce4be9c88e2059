------------------------ MODULE WovenAndRemoteCalls -------------------------
(***************************************************************************)
(* Calls that take a detour: through aspects, and to an instance of a      *)
(* remote service.                                                         *)
(***************************************************************************)
EXTENDS Naturals, Sequences, FiniteSets

(***************************************************************************)
(* sc::aop::AspectWeaver::weave() (aop.cpp): the advice of the aspects     *)
(* that match, around a target that may throw, while aspects come and go   *)
(* in other threads.  The call works on a copy of the aspects.             *)
(***************************************************************************)
CONSTANTS
    Aspects,     \* names of aspects that match the method
    Others       \* names of aspects that do not

VARIABLES
    aspects,     \* m_aspects, in the order of registration
    matched,     \* the copy weave() made
    advising,    \* what runs: see Stages
    position,    \* the aspect whose advice is next
    outcome,     \* of the target: "none", "returned" or "threw"
    escaped,     \* an advice threw: the rest of the call is skipped
    log          \* history: the advice that ran, as <<kind, aspect>>

weaverVars == <<aspects, matched, advising, position, outcome, escaped, log>>

Stages == {"idle", "before", "target", "result", "after", "done"}

WeaverInit ==
    /\ aspects = << >> /\ matched = << >> /\ advising = "idle" /\ position = 1
    /\ outcome = "none" /\ escaped = FALSE /\ log = << >>

-----------------------------------------------------------------------------
callVars == <<matched, advising, position, outcome, escaped, log>>

Unlisted(n) == SelectSeq(aspects, LAMBDA a : a # n)

(* registerAspect() replaces the aspect of that name, at the end           *)
RegisterAspect(n) == aspects' = Append(Unlisted(n), n) /\ UNCHANGED callVars
UnregisterAspect(n) == aspects' = Unlisted(n) /\ UNCHANGED callVars
ClearAspects == aspects' = << >> /\ UNCHANGED callVars

(* weave() begins: the aspects whose Pointcut matches                      *)
WeaveBegins ==
    /\ advising = "idle" /\ advising' = "before" /\ position' = 1
    /\ matched' = SelectSeq(aspects, LAMBDA a : a \in Aspects)
    /\ UNCHANGED <<aspects, outcome, escaped, log>>

(* The next advice of a stage runs; if it throws, weave() is left at once. *)
Advise(stage, kind) ==
    /\ advising = stage /\ position <= Len(matched)
    /\ log' = Append(log, <<kind, matched[position]>>)
    /\ \/ position' = position + 1 /\ UNCHANGED <<advising, escaped>>
       \/ advising' = "done" /\ escaped' = TRUE /\ UNCHANGED position
    /\ UNCHANGED <<aspects, matched, outcome>>

AdviseBefore == Advise("before", "before")

(* A mistaken RunTarget: an exception leaves weave() at once *)
RunTargetUnguarded ==
    /\ advising = "before" /\ position > Len(matched)
    /\ \/ outcome' = "returned" /\ advising' = "result"
       \/ outcome' = "threw" /\ advising' = "done"
    /\ position' = 1
    /\ UNCHANGED <<aspects, matched, escaped, log>>

(* The target inside the around advice: what either throws is caught       *)
RunTarget ==
    /\ advising = "before" /\ position > Len(matched)
    /\ outcome' \in {"returned", "threw"}
    /\ advising' = "result" /\ position' = 1
    /\ UNCHANGED <<aspects, matched, escaped, log>>

AdviseResult == Advise("result", outcome)

AfterBegins ==
    /\ advising = "result" /\ position > Len(matched)
    /\ advising' = "after" /\ position' = 1
    /\ UNCHANGED <<aspects, matched, outcome, escaped, log>>

AdviseAfter == Advise("after", "after")

(* The exception of the target is thrown again, or its result returned.    *)
WeaveEnds ==
    /\ advising = "after" /\ position > Len(matched)
    /\ advising' = "done" /\ UNCHANGED <<aspects, matched, position, outcome, escaped, log>>

WeaverNext ==
    \/ \E n \in Aspects \cup Others : RegisterAspect(n) \/ UnregisterAspect(n)
    \/ ClearAspects
    \/ WeaveBegins \/ AdviseBefore \/ RunTarget \/ AdviseResult \/ AfterBegins \/ AdviseAfter \/ WeaveEnds

WeaverSpec == WeaverInit /\ [][WeaverNext]_weaverVars

-----------------------------------------------------------------------------
(* A call that no advice cut short ran, for each aspect it began with and  *)
(* in their order, before, then afterReturning or afterThrowing, then      *)
(* after: once each, whether the target threw or not, and whatever was     *)
(* registered meanwhile (aop.cpp:60, :107, :140).                          *)
AdviceComplete ==
    /\ advising \in Stages
    /\ advising = "done" /\ ~escaped =>
           LET n == Len(matched)
               stage(kind) == [i \in 1..n |-> <<kind, matched[i]>>]
           IN  log = stage("before") \o stage(outcome) \o stage("after")

-----------------------------------------------------------------------------
(***************************************************************************)
(* soul/rpc: the registry of service instances with the LoadBalancer       *)
(* (service_registry.cpp), the ServiceDispatcher (service_dispatcher.cpp)  *)
(* and ClientProxy over HttpTransport (client_proxy.cpp,                   *)
(* http_transport.cpp).                                                    *)
(*                                                                         *)
(* sendRequest() waits in an event loop of its own.  What runs in that     *)
(* loop may call sendRequest() again: the calls form a stack, and only the *)
(* innermost can return.                                                   *)
(***************************************************************************)
CONSTANTS
    Instances,   \* instances of the one service looked at
    MaxSelects,  \* bound on select() calls, below the overflow of m_counter
    MaxDepth,    \* bound on nested sendRequest() calls
    MaxCopies    \* bound on registrations of the instances

VARIABLES
    listed,      \* m_registry: the instances, in the order of registration
    counter,     \* LoadBalancer::m_counter
    roundRobin,  \* LoadBalancer::m_roundRobin
    picks,       \* history: selects of each position since the list changed
    served,      \* the service has a handler in ServiceDispatcher
    dispatching, \* a dispatch() copied the handler and runs it
    running,     \* HttpTransport::m_running
    stack,       \* the requests in their loops: "sent", "finished", "timedOut"
    replied      \* what the last call returned: "none", "ok", "error", "timeout"

registryVars == <<listed, counter, roundRobin, picks>>
dispatchVars == <<served, dispatching>>
transportVars == <<running, stack, replied>>
rpcVars == <<registryVars, dispatchVars, transportVars>>

RpcInit ==
    /\ listed = << >> /\ counter = 0 /\ roundRobin = TRUE /\ picks = << >>
    /\ served = FALSE /\ dispatching = FALSE
    /\ running = FALSE /\ stack = << >> /\ replied = "none"

-----------------------------------------------------------------------------
NoPicks(s) == [i \in DOMAIN s |-> 0]

RegisterInstance(i) ==
    /\ Len(listed) < MaxCopies
    /\ listed' = Append(listed, i) /\ picks' = NoPicks(listed')
    /\ UNCHANGED <<counter, roundRobin, dispatchVars, transportVars>>

(* unregisterInstance() removes the first that is equal                    *)
UnregisterInstance(i) ==
    LET at == {n \in DOMAIN listed : listed[n] = i}
        first == CHOOSE n \in at : \A m \in at : n <= m
    IN  /\ at # {}
        /\ listed' = [n \in 1..(Len(listed) - 1) |-> listed[IF n < first THEN n ELSE n + 1]]
        /\ picks' = NoPicks(listed')
        /\ UNCHANGED <<counter, roundRobin, dispatchVars, transportVars>>

(* A mistaken Select: the counter is brought back into the list first, and *)
(* the last position is never reached *)
SelectShort ==
    /\ listed # << >> /\ counter < MaxSelects
    /\ \E n \in DOMAIN listed :
           /\ roundRobin => n = (counter % (IF Len(listed) > 1 THEN Len(listed) - 1 ELSE 1)) + 1
           /\ picks' = (IF roundRobin THEN [picks EXCEPT ![n] = @ + 1] ELSE picks)
    /\ counter' = (IF roundRobin THEN counter + 1 ELSE counter)
    /\ UNCHANGED <<listed, roundRobin, dispatchVars, transportVars>>

(* select() over getInstances()                                            *)
Select ==
    /\ listed # << >> /\ counter < MaxSelects
    /\ \E n \in DOMAIN listed :
           /\ roundRobin => n = (counter % Len(listed)) + 1
           /\ picks' = (IF roundRobin THEN [picks EXCEPT ![n] = @ + 1] ELSE picks)
    /\ counter' = (IF roundRobin THEN counter + 1 ELSE counter)
    /\ UNCHANGED <<listed, roundRobin, dispatchVars, transportVars>>

SetMode(b) == roundRobin' = b /\ UNCHANGED <<listed, counter, picks, dispatchVars, transportVars>>

-----------------------------------------------------------------------------
SetService(b) == served' = b /\ UNCHANGED <<dispatching, registryVars, transportVars>>

(* dispatch(): the handler is copied under the lock and runs outside it    *)
DispatchBegins ==
    /\ served /\ ~dispatching /\ dispatching' = TRUE
    /\ UNCHANGED <<served, registryVars, transportVars>>

DispatchEnds ==
    /\ dispatching /\ dispatching' = FALSE
    /\ UNCHANGED <<served, registryVars, transportVars>>

-----------------------------------------------------------------------------
StartTransport ==
    /\ ~running /\ running' = TRUE
    /\ UNCHANGED <<stack, replied, registryVars, dispatchVars>>

(* stop(): the manager is deleted, and with it the replies of the requests *)
(* under way; only their timers are left to end them                       *)
StopTransport ==
    /\ running /\ running' = FALSE
    /\ stack' = [d \in DOMAIN stack |-> IF stack[d] = "sent" THEN "orphan" ELSE stack[d]]
    /\ UNCHANGED <<replied, registryVars, dispatchVars>>

(* call() of ClientProxy, up to the loop of sendRequest()                  *)
SendRequest ==
    /\ Len(stack) < MaxDepth
    /\ IF running THEN stack' = Append(stack, "sent") /\ UNCHANGED replied
       ELSE replied' = "error" /\ UNCHANGED stack
    /\ UNCHANGED <<running, registryVars, dispatchVars>>

(* The reply has finished: its timer is stopped                            *)
ReplyFinished(d) ==
    /\ stack[d] = "sent" /\ stack' = [stack EXCEPT ![d] = "finished"]
    /\ UNCHANGED <<running, replied, registryVars, dispatchVars>>

(* A mistaken ReplyTimeout: it asks the reply, which is gone, to abort *)
ReplyTimeoutNeedsReply(d) ==
    /\ stack[d] = "sent" /\ stack' = [stack EXCEPT ![d] = "timedOut"]
    /\ UNCHANGED <<running, replied, registryVars, dispatchVars>>

ReplyTimeout(d) ==
    /\ stack[d] \in {"sent", "orphan"} /\ stack' = [stack EXCEPT ![d] = "timedOut"]
    /\ UNCHANGED <<running, replied, registryVars, dispatchVars>>

(* The innermost loop ends: a time-out, a network or format error, or the  *)
(* response, which may itself report a failure                             *)
RequestReturns ==
    /\ stack # << >> /\ stack[Len(stack)] \in {"finished", "timedOut"}
    /\ replied' \in (IF stack[Len(stack)] = "timedOut" THEN {"timeout"} ELSE {"ok", "error"})
    /\ stack' = SubSeq(stack, 1, Len(stack) - 1)
    /\ UNCHANGED <<running, registryVars, dispatchVars>>

RegistryNext ==
    \/ \E i \in Instances : RegisterInstance(i) \/ UnregisterInstance(i)
    \/ Select \/ SetMode(TRUE) \/ SetMode(FALSE)

TransportNext ==
    \/ SetService(TRUE) \/ SetService(FALSE) \/ DispatchBegins \/ DispatchEnds
    \/ StartTransport \/ StopTransport \/ SendRequest \/ RequestReturns
    \/ \E d \in DOMAIN stack : ReplyFinished(d) \/ ReplyTimeout(d)

RpcSpec == RpcInit /\ [][RegistryNext \/ TransportNext]_rpcVars

(* Timers fire, and a loop that was quit returns.                          *)
RpcFairness ==
    /\ WF_rpcVars(RequestReturns)
    /\ \A d \in 1..MaxDepth : WF_rpcVars(d \in DOMAIN stack /\ ReplyTimeout(d))

-----------------------------------------------------------------------------
(* While the list stays as it is, the round robin serves its positions     *)
(* evenly (service_registry.cpp:44).                                       *)
EvenSpread == \A i, j \in DOMAIN picks : picks[i] <= picks[j] + 1

(* However registrations and failures fall between them, every advice has  *)
(* run when a call is over, and the load balancer gives every instance its *)
(* share.                                                                  *)
CallsSound == AdviceComplete /\ EvenSpread

(* Every request ends, nested in others or not, also when stop() takes its *)
(* reply away (http_transport.cpp:64, :123): an innermost request is not   *)
(* innermost forever.                                                      *)
RequestsEnd == \A d \in 1..MaxDepth : [](Len(stack) = d => <>(Len(stack) # d))
=============================================================================
