---------------------------- MODULE TopicMatching ----------------------------
(***************************************************************************)
(* Which messages the iot-config node hands to the subscribers of a        *)
(* pattern.  A pattern or topic is the sequence of its levels; a level     *)
(* that starts with "$" is "$s".                                           *)
(***************************************************************************)
EXTENDS Naturals, Sequences

CONSTANTS
  Segments,  \* the levels of patterns
  Names,     \* the levels of topics
  MaxLevels  \* bound on the levels of either

LevelsAreLiteral == Names \cap {"+", "#"} = {} /\ MaxLevels \in Nat

VARIABLES
  pattern,   \* a subscription, <<>> before there is one
  topic,     \* the topic of a message
  handed     \* is the message handed to the subscribers

vars == <<pattern, topic, handed>>

\* A level that holds a wildcard beside other characters, as "a+" or "a#".
Mixed == {"a+", "a#"}

\* isValidSubscriptionPattern().
ValidPattern(p) ==
  \A i \in DOMAIN p : p[i] \notin Mixed /\ (p[i] = "#" => i = Len(p))

\* The loop goes on behind level i of the pattern: it is no "#", the topic has the
\* level, and they agree.
GoesOn(p, t, i) == p[i] # "#" /\ i <= Len(t) /\ p[i] \in {"+", t[i]}

\* Fault: the end of the topic is looked at before the wildcard.
MatchesLate(p, t) ==
  /\ ValidPattern(p) /\ ~(t[1] = "$s" /\ p[1] # "$s")
  /\ \/ \E i \in DOMAIN p \cap DOMAIN t : p[i] = "#" /\ \A j \in 1 .. i - 1 : GoesOn(p, t, j)
     \/ Len(p) = Len(t) /\ \A i \in DOMAIN p : GoesOn(p, t, i)

\* mqttTopicMatches(): the loop reaches a "#", or the end of a pattern that is as
\* long as the topic.
MqttTopicMatches(p, t) ==
  /\ ValidPattern(p) /\ ~(t[1] = "$s" /\ p[1] # "$s")
  /\ \/ \E i \in DOMAIN p : p[i] = "#" /\ \A j \in 1 .. i - 1 : GoesOn(p, t, j)
     \/ Len(p) = Len(t) /\ \A i \in DOMAIN p : GoesOn(p, t, i)

\* The MQTT standard: "+" stands for one level, a last "#" for its parent and
\* everything below, and neither for the first level of a topic that starts
\* with "$".
Covers(p, t) ==
  LET last == Len(p)
      open == p[last] = "#"
      m    == IF open THEN last - 1 ELSE last
  IN  /\ \A i \in DOMAIN p : p[i] \notin Mixed /\ (p[i] = "#" => i = last)
      /\ IF open THEN Len(t) >= m ELSE Len(t) = m
      /\ \A i \in 1 .. m : p[i] \in {"+", t[i]}
      /\ t[1] = "$s" => p[1] \notin {"+", "#"}

------------------------------------------------------------------------------

Levels(S) == UNION {[1 .. n -> S] : n \in 1 .. MaxLevels}

Init == pattern = <<>> /\ topic = <<>> /\ handed = FALSE

Arrive ==
  /\ pattern = <<>>
  /\ pattern' \in Levels(Segments) /\ topic' \in Levels(Names)
  /\ handed' = MqttTopicMatches(pattern', topic')

Next == Arrive

\* A message is handed on exactly to the patterns that the MQTT standard lets
\* match its topic (iot-config.js:53-82).
MatchingIsMqtt == pattern # <<>> => handed = Covers(pattern, topic)
=============================================================================
