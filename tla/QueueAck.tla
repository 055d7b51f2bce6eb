-------------------------------- MODULE QueueAck --------------------------------
(***************************************************************************)
(* oci-queue-ack on one message that carries a batch: an attempt deletes   *)
(* its receipts from the queue and writes the outcome of each into the     *)
(* message.  The flow may send the same message again, after any outcome,  *)
(* and change what it carries in between.                                  *)
(***************************************************************************)
EXTENDS Naturals, FiniteSets, Sequences, SequencesExt

CONSTANTS
  Receipts,    \* receipts, "" is an empty one
  MaxAttempts  \* bound on the attempts

VARIABLES
  deleted,   \* the receipts that the queue has deleted
  records,   \* the receipts of the message's records
  told,      \* msg.ociQueue: acknowledged, ackResults (<<>> if absent)
  wait,      \* is a request under way
  closed,    \* is the node closed
  attempts   \* how often the message was sent to the node

vars == <<deleted, records, told, wait, closed, attempts>>

Untold == [acknowledged |-> FALSE, results |-> <<>>]

TypeOK ==
  /\ deleted \subseteq Receipts
  /\ records \in Seq(Receipts)
  /\ told.acknowledged \in BOOLEAN /\ told.results \in Seq(BOOLEAN)
  /\ wait \in BOOLEAN /\ closed \in BOOLEAN /\ attempts \in 0 .. MaxAttempts

Init ==
  /\ deleted = {} /\ records = <<>> /\ told = Untold
  /\ wait = FALSE /\ closed = FALSE /\ attempts = 0

\* validateBatch(): the receipts are not empty and differ.
ValidateBatch(rs) ==
  /\ rs # <<>> /\ "" \notin Range(rs)
  /\ Cardinality(Range(rs)) = Len(rs)

\* The message arrives, with any records: the outcome it carries is erased
\* before anything else, and a batch that is not valid, or not of this
\* queue, is refused.
Acknowledge ==
  /\ ~closed /\ ~wait /\ attempts < MaxAttempts
  /\ attempts' = attempts + 1
  /\ records' \in BoundedSeq(Receipts, 2)
  /\ told' = Untold
  /\ wait' \in {FALSE, ValidateBatch(records')}
  /\ UNCHANGED <<deleted, closed>>

\* Fault: the number of failures is taken from the answer alone.
ReadBatchResultLoosely(entries, failures) ==
  IF failures = 0 THEN [acknowledged |-> TRUE, results |-> [i \in DOMAIN entries |-> TRUE]]
  ELSE [acknowledged |-> FALSE, results |-> entries]

\* readBatchResult(): an answer with an entry too few, or whose failures do not
\* add up, says nothing; entries[i] tells whether receipt i was deleted.
ReadBatchResult(entries, failures) ==
  IF \/ Len(entries) # Len(records)
     \/ failures # Cardinality({i \in DOMAIN entries : ~entries[i]})
  THEN Untold
  ELSE [acknowledged |-> failures = 0, results |-> entries]

\* The queue has deleted some of the receipts and answers: truly, with failures
\* that do not add up, or with an entry missing.
Answered ==
  /\ wait
  /\ \E gone \in SUBSET DOMAIN records :
       LET entries == [i \in DOMAIN records |-> i \in gone]
       IN  /\ deleted' = deleted \cup {records[i] : i \in gone}
           /\ \E failures \in 0 .. 2, lost \in 0 .. 1 :
                told' = IF closed THEN told
                        ELSE ReadBatchResult(SubSeq(entries, 1, Len(entries) - lost), failures)
  /\ wait' = FALSE
  /\ UNCHANGED <<records, closed, attempts>>

\* The request fails, before the queue deletes anything or behind it.
Failed ==
  /\ wait
  /\ \E gone \in SUBSET Range(records) : deleted' = deleted \cup gone
  /\ wait' = FALSE
  /\ UNCHANGED <<records, told, closed, attempts>>

Close ==
  /\ ~closed /\ attempts > 0
  /\ closed' = TRUE
  /\ UNCHANGED <<deleted, records, told, wait, attempts>>

Next == Acknowledge \/ Answered \/ Failed \/ Close

\* A message says of a receipt that it was acknowledged only if the queue has
\* deleted it, and of the batch only if all are; what an earlier attempt found
\* is never read as the outcome of this one.
AcknowledgementIsTrue ==
  /\ told.acknowledged => Range(records) \subseteq deleted
  /\ told.results # <<>> =>
       /\ Len(told.results) = Len(records)
       /\ \A i \in DOMAIN records : told.results[i] => records[i] \in deleted
=============================================================================
