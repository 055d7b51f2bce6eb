------------------------------- MODULE DataRules -------------------------------
(***************************************************************************)
(* The parts of the nodes that compute an answer from data, side by side:  *)
(* the requests of the Fusion nodes, the reading of a collection, the      *)
(* acknowledgement of a batch, and the matching of topics.  They share     *)
(* nothing, so only one of them leaves its initial state.                  *)
(***************************************************************************)
EXTENDS Naturals

CONSTANTS Given, Set, MaxSize, MaxLimit, MaxPages, MaxItems, Receipts, MaxAttempts,
          Segments, Names, MaxLevels

VARIABLES job, request,
          server, offsets, items, reading,
          deleted, records, told, wait, ackClosed, attempts,
          pattern, topic, handed

requestVars == <<job, request>>
pageVars == <<server, offsets, items, reading>>
ackVars == <<deleted, records, told, wait, ackClosed, attempts>>
topicVars == <<pattern, topic, handed>>
dataVars == <<requestVars, pageVars, ackVars, topicVars>>

Requests == INSTANCE FusionRequests
Pages == INSTANCE FusionPages
Acks == INSTANCE QueueAck WITH closed <- ackClosed
Topics == INSTANCE TopicMatching

ASSUME DataAssumption == Requests!ValuesAreKnown /\ Pages!Bounds /\ Topics!LevelsAreLiteral

DataInit == Requests!Init /\ Pages!Init /\ Acks!Init /\ Topics!Init

Unasked == job = Requests!Idle
Unread == reading = "idle"
Unacknowledged == attempts = 0
Unmatched == pattern = <<>>

DataNext ==
  \/ Unread /\ Unacknowledged /\ Unmatched /\ Requests!Next /\ UNCHANGED <<pageVars, ackVars, topicVars>>
  \/ Unasked /\ Unacknowledged /\ Unmatched /\ Pages!Next /\ UNCHANGED <<requestVars, ackVars, topicVars>>
  \/ Unasked /\ Unread /\ Unmatched /\ Acks!Next /\ UNCHANGED <<requestVars, pageVars, topicVars>>
  \/ Unasked /\ Unread /\ Unacknowledged /\ Topics!Next /\ UNCHANGED <<requestVars, pageVars, ackVars>>

DataSpec == DataInit /\ [][DataNext]_dataVars

DataTypeOK == Pages!TypeOK /\ Acks!TypeOK

\* The requests of the Fusion nodes mean what message and configuration say
\* (FusionRequests).
RequestsAreSound == Requests!RequestsAreSound

\* A collection that is returned is complete (FusionPages).
PagesAreComplete == Pages!PagesAreComplete

\* What a message says of its receipts is true of the queue (QueueAck).
AcknowledgementIsTrue == Acks!AcknowledgementIsTrue

\* Messages go to the patterns that match their topic (TopicMatching).
MatchingIsMqtt == Topics!MatchingIsMqtt
=============================================================================
