--------------------------- MODULE IotSubscriptions ---------------------------
(***************************************************************************)
(* One MQTT connection (iot-config.js), the iot-subscribe nodes that share *)
(* its topics and the iot-telemetry inputs published over it.              *)
(*                                                                         *)
(* The broker and the mqtt client are external: packets reach the broker   *)
(* in the order they were written and are lost when the connection drops;  *)
(* the broker grants what it is asked for and forgets a clean session; the *)
(* client calls back for every publish, whatever becomes of it, and not    *)
(* necessarily for an unsubscribe.                                         *)
(***************************************************************************)
EXTENDS Integers, Sequences, FiniteSets, SequencesExt

CONSTANTS
  Subscribers,  \* iot-subscribe nodes
  Topics,       \* the patterns they are configured with
  TopicOf,      \* node.subscriptionTopic
  QosOf,        \* node.qos
  Telemetry,    \* inputs of iot-telemetry nodes
  MaxWire       \* bound: packets under way

ASSUME TopicAssumption == TopicOf \in [Subscribers -> Topics]
ASSUME QosAssumption == QosOf \in [Subscribers -> 0 .. 2]

NoQos == -1

VARIABLES
  clean,   \* the session is a clean one
  client,  \* the client object: "none" or "live"
  config,  \* the iot-config node: "open", "closing", "closed"
  link,    \* client.connected
  node,    \* each iot-subscribe node: "off", "on", "leaving"
  table,   \* topicSubscriptions: the nodes whose callback is registered
  wire,    \* packets on their way to the broker
  broker,  \* the QoS the broker's session has for each topic
  stale,   \* topics the session may keep or the client ask for again: their last
           \* subscriber left while the connection was down, or the unsubscribe
           \* was lost
  input    \* each telemetry input: "new", "publishing", "sent", "failed"

iotVars == <<clean, client, config, link, node, table, wire, broker, stale, input>>

Packets == [op : {"sub", "unsub"}, topic : Topics, qos : -1 .. 2, by : Subscribers \cup {"connect"}]

IotTypeOK ==
  /\ clean \in BOOLEAN /\ link \in BOOLEAN
  /\ client \in {"none", "live"}
  /\ config \in {"open", "closing", "closed"}
  /\ node \in [Subscribers -> {"off", "on", "leaving"}]
  /\ table \subseteq Subscribers
  /\ wire \in Seq(Packets)
  /\ broker \in [Topics -> -1 .. 2]
  /\ stale \subseteq Topics
  /\ input \in [Telemetry -> {"new", "publishing", "sent", "failed"}]

\* connect() at creation: without a host, or if mqtt.connect throws, there is
\* no client.
IotInit ==
  /\ clean \in BOOLEAN
  /\ client \in {"none", "live"}
  /\ config = "open" /\ link = FALSE
  /\ node = [s \in Subscribers |-> "off"]
  /\ table = {} /\ wire = <<>>
  /\ broker = [t \in Topics |-> NoQos]
  /\ stale = {}
  /\ input = [i \in Telemetry |-> "new"]

Members(t, T) == {s \in T : TopicOf[s] = t}

\* subscriptionQos(): the highest QoS asked for.
SubscriptionQos(t, T) == CHOOSE q \in {QosOf[s] : s \in Members(t, T)} :
                           \A s \in Members(t, T) : q >= QosOf[s]

Subscribe(t, T, who) == [op |-> "sub", topic |-> t, qos |-> SubscriptionQos(t, T), by |-> who]

Unsubscribe(t, who) == [op |-> "unsub", topic |-> t, qos |-> NoQos, by |-> who]

------------------------------------------------------------------------------
(* The connection.                                                         *)

\* On "connect" every registered topic is subscribed again.
Resubscriptions == SetToSeq({Subscribe(t, table, "connect") : t \in {TopicOf[s] : s \in table}})

\* The client connects, for the first time or again.  Unless it is told not to,
\* mqtt.js by itself first subscribes to what it had and was not asked to
\* unsubscribe: of topics without a member, those in stale.
Connected ==
  /\ client = "live" /\ config = "open" /\ ~link
  /\ link' = TRUE
  /\ \E own \in SUBSET stale, q \in 0 .. 2 :
       broker' = [t \in Topics |-> IF t \in own THEN q ELSE broker[t]]
  /\ wire' = Resubscriptions
  /\ UNCHANGED <<clean, client, config, node, table, stale, input>>

\* The connection drops: "close", "offline", "error".  Packets are lost, and a
\* session that is not clean keeps the topics whose unsubscribe was among them;
\* what the client itself still means to subscribe stays stale either way.
Dropped ==
  /\ link
  /\ link' = FALSE
  /\ wire' = <<>>
  /\ broker' = IF clean THEN [t \in Topics |-> NoQos] ELSE broker
  /\ stale' = IF clean THEN stale ELSE stale \cup {t \in Topics : Members(t, table) = {}}
  /\ UNCHANGED <<clean, client, config, node, table, input>>

\* The broker takes the next packet.  Its answer to an unsubscribe lets the
\* node that waits for it finish.
BrokerTakes ==
  /\ wire # <<>>
  /\ LET p == Head(wire)
     IN  /\ broker' = [broker EXCEPT ![p.topic] = p.qos]
         /\ node' = [s \in Subscribers |-> IF p.op = "unsub" /\ s = p.by /\ node[s] = "leaving"
                                           THEN "off" ELSE node[s]]
  /\ wire' = Tail(wire)
  /\ UNCHANGED <<clean, client, config, link, table, stale, input>>

------------------------------------------------------------------------------
(* iot-subscribe.                                                          *)

\* A node is created and subscribes; the topic is asked for at once when the
\* connection is up, else on the next "connect".
Join(s) ==
  /\ node[s] = "off" /\ config = "open"
  /\ Len(wire) < MaxWire
  /\ node' = [node EXCEPT ![s] = "on"]
  /\ table' = table \cup {s}
  /\ wire' = IF link THEN Append(wire, Subscribe(TopicOf[s], table', s)) ELSE wire
  /\ stale' = stale \ {TopicOf[s]}
  /\ UNCHANGED <<clean, client, config, link, broker, input>>

\* Fault: the first to leave takes the subscription of the others along.
LeavesAlone(s) == TRUE

\* Nobody else is registered for the topic.
LastOf(s) == Members(TopicOf[s], table) = {s}

\* close of an iot-subscribe node: unsubscribe() takes its callback out of the
\* table and, when it was the last one, the topic off a connected broker.
Leave(s) ==
  /\ node[s] = "on"
  /\ Len(wire) < MaxWire
  /\ table' = table \ {s}
  /\ IF s \in table /\ LastOf(s) /\ link
     THEN /\ wire' = Append(wire, Unsubscribe(TopicOf[s], s))
          /\ node' = [node EXCEPT ![s] = "leaving"]
     ELSE UNCHANGED wire /\ node' = [node EXCEPT ![s] = "off"]
  /\ stale' = IF s \in table /\ Members(TopicOf[s], table) = {s} /\ ~link
              THEN stale \cup {TopicOf[s]} ELSE stale
  /\ UNCHANGED <<clean, client, config, link, broker, input>>

\* Fault: the timer is cleared when the packet is written.
TimerCleared(s) ==
  /\ node[s] = "leaving" /\ ~link
  /\ node' = [node EXCEPT ![s] = "off"]
  /\ UNCHANGED <<clean, client, config, link, table, wire, broker, stale, input>>

\* closeTimer of a node whose unsubscribe was not answered.
LeaveTimer(s) ==
  /\ node[s] = "leaving"
  /\ node' = [node EXCEPT ![s] = "off"]
  /\ UNCHANGED <<clean, client, config, link, table, wire, broker, stale, input>>

------------------------------------------------------------------------------
(* iot-telemetry.                                                          *)

\* An input is refused without a connection, a topic or a payload that can be
\* serialised; else it is published.
Publish(i) ==
  /\ input[i] = "new"
  /\ \/ input' = [input EXCEPT ![i] = "failed"]
     \/ link /\ input' = [input EXCEPT ![i] = "publishing"]
  /\ UNCHANGED <<clean, client, config, link, node, table, wire, broker, stale>>

\* The callback of client.publish.
Published(i) ==
  /\ input[i] = "publishing"
  /\ \E a \in {"sent", "failed"} : input' = [input EXCEPT ![i] = a]
  /\ UNCHANGED <<clean, client, config, link, node, table, wire, broker, stale>>

------------------------------------------------------------------------------
(* close of iot-config.                                                    *)

Close ==
  /\ config = "open"
  /\ table' = {}
  /\ config' = IF client = "live" THEN "closing" ELSE "closed"
  /\ UNCHANGED <<clean, client, link, node, wire, broker, stale, input>>

\* The callback of client.end, before or after the safety timer.
ClientEnded ==
  /\ config # "open" /\ client = "live"
  /\ client' = "none" /\ link' = FALSE /\ wire' = <<>>
  /\ config' = "closed"
  /\ UNCHANGED <<clean, node, table, broker, stale, input>>

\* doneTimer.
CloseTimer ==
  /\ config = "closing"
  /\ config' = "closed"
  /\ UNCHANGED <<clean, client, link, node, table, wire, broker, stale, input>>

IotNext ==
  \/ Connected \/ Dropped \/ BrokerTakes \/ Close \/ ClientEnded \/ CloseTimer
  \/ \E s \in Subscribers : Join(s) \/ Leave(s) \/ LeaveTimer(s)
  \/ \E i \in Telemetry : Publish(i) \/ Published(i)

IotSpec == IotInit /\ [][IotNext]_iotVars

\* The timers of both close handlers fire, and the client calls back for a
\* publish.  Neither the broker nor client.end has to answer.
IotFairness ==
  /\ WF_iotVars(CloseTimer)
  /\ \A s \in Subscribers : WF_iotVars(LeaveTimer(s))
  /\ \A i \in Telemetry : WF_iotVars(Published(i))

IotFairSpec == IotSpec /\ IotFairness

------------------------------------------------------------------------------
(* Properties.                                                             *)

\* What the broker will have for a topic once it has taken the packets that
\* are under way.
Granted(t) ==
  LET about == {i \in DOMAIN wire : wire[i].topic = t}
  IN  IF about = {} THEN broker[t]
      ELSE wire[CHOOSE i \in about : \A j \in about : j <= i].qos

\* While the connection is up, a topic somebody is registered for is granted
\* with at least the QoS of each of them, and a topic nobody is registered for
\* is not, unless its last subscriber left while the connection was down or its
\* unsubscribe was lost, which neither a session that outlives the connection
\* nor the client is told of (iot-config.js:257-327).
BrokerFollowsTable ==
  link /\ config = "open" =>
    \A t \in Topics :
      /\ \A s \in Members(t, table) : Granted(t) >= QosOf[s]
      /\ Members(t, table) = {} /\ t \notin stale => Granted(t) = NoQos

\* Nodes that are closed finish, with or without the broker's answer, and a
\* published input is answered.
EverythingEnds ==
  /\ []<>(config # "closing")
  /\ \A s \in Subscribers : []<>(node[s] # "leaving")
  /\ \A i \in Telemetry : []<>(input[i] # "publishing")
==============================================================================
