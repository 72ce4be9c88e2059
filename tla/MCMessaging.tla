---------------------------- MODULE MCMessaging -----------------------------
(***************************************************************************)
(* The parts of soul/mq side by side: a behaviour is one of the in-memory  *)
(* broker (AmqpBroker), of its dispatch thread (AmqpConsuming), of one     *)
(* call of matchTopicPattern() (TopicMatch), of the connection to a broker *)
(* outside or of its channel (RabbitMQ).  The parts that are not its       *)
(* subject stay in one initial state.                                      *)
(***************************************************************************)
EXTENDS AmqpBroker, AmqpConsuming, TopicMatch, RabbitMQ

CONSTANTS k1, k2

VARIABLE subject

(* k2 as a binding key is a pattern that matches both routing keys *)
PatternMatches == {<<k1, k1>>, <<k2, k1>>, <<k2, k2>>} \cap (Keys \X Keys)

SomePayloads == {[mode |-> 2, priority |-> 3]}

Init ==
    /\ subject \in {"broker", "consuming", "topic", "link", "channel"}
    /\ BrokerInit /\ ConsumingInit /\ TopicInit /\ LinkInit /\ ChannelInit
    /\ subject # "topic" => pattern = << >> /\ key = << >>
    /\ subject # "link" => reconnectEnabled /\ interval = MaxDelay + 1

Next ==
    \/ /\ subject = "broker" /\ BrokerNext
       /\ UNCHANGED <<subject, consumingVars, topicVars, linkVars, channelVars>>
    \/ /\ subject = "consuming" /\ ConsumingNext
       /\ UNCHANGED <<subject, brokerVars, topicVars, linkVars, channelVars>>
    \/ /\ subject = "topic" /\ TopicNext
       /\ UNCHANGED <<subject, brokerVars, consumingVars, linkVars, channelVars>>
    \/ /\ subject = "link" /\ LinkNext
       /\ UNCHANGED <<subject, brokerVars, consumingVars, topicVars, channelVars>>
    \/ /\ subject = "channel" /\ ChannelNext
       /\ UNCHANGED <<subject, brokerVars, consumingVars, topicVars, linkVars>>

Spec ==
    /\ Init
    /\ [][Next]_<<subject, brokerVars, consumingVars, topicVars, linkVars, channelVars>>
    /\ BrokerFairness /\ ConsumingFairness /\ LinkFairness

-----------------------------------------------------------------------------
(* Messages reach nobody they are not for: what matchTopicPattern() lets   *)
(* pass does match.  Its answer is exact only while '#' is the last word;  *)
(* a '#' before another word misses keys that match, all of those in which *)
(* that word is not doubled (inmemory_amqp_backend.cpp).  And a consumer   *)
(* the broker has is one the backend can cancel (amqpcpp_backend.cpp).     *)
RoutingSound == NoFalseMatch /\ ExactForTrailingHash /\ EarlyHashNarrows /\ ConsumersKnown


=============================================================================
