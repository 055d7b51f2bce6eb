------------------------------ MODULE AqListener ------------------------------
(***************************************************************************)
(* The continuous mode of the dequeue node: a loop that opens a session,   *)
(* blocks in a dequeue, commits what it got and sends it on; retries after *)
(* errors; and is interrupted by the close handler.                        *)
(*                                                                         *)
(* The loop stands at the await that "at" names; a step is the answer of   *)
(* that call and the code up to the next await.  The dequeue mode is       *)
(* Remove; the queue and the sessions are Oracle's.                        *)
(***************************************************************************)
EXTENDS Naturals, FiniteSets

CONSTANTS
  Msgs,          \* messages on the queue
  BatchSize,     \* batchSize
  Subscriber,    \* is a subscriber configured
  RetryEnabled,  \* retryEnabled
  MaxRetries,    \* maxRetries, 0 for no limit
  MaxFaults      \* bound: calls that fail before the database recovers for good

ASSUME BatchAssumption == BatchSize \in Nat \ {0}
ASSUME RetryAssumption ==
  /\ Subscriber \in BOOLEAN /\ RetryEnabled \in BOOLEAN
  /\ MaxRetries \in Nat /\ MaxFaults \in Nat

VARIABLES
  at,        \* the await the loop stands at
  running,   \* running
  attempt,   \* retryAttempt
  batch,     \* messages the last dequeue returned
  closer,    \* the close handler
  sessions,  \* open sessions of this node
  broken,    \* break() reached the session during its present call
  place,     \* where Oracle has each message
  sent,      \* how often each message was sent on
  faults,    \* calls that failed by themselves
  row,       \* failures since a dequeue last succeeded
  outcome    \* why the loop gave up

oracle == <<sessions, broken, place, faults>>
listenerVars == <<at, running, attempt, batch, closer, oracle, sent, row, outcome>>

Calls == {"getQueue", "dequeue", "materialize", "commit"}

Attempts == IF MaxRetries = 0 THEN Nat ELSE 0 .. MaxRetries + 1

ListenerTypeOK ==
  /\ at \in Calls \cup {"getConnection", "dropping", "sleep", "leaving", "ended"}
  /\ running \in BOOLEAN
  /\ attempt \in Attempts
  /\ batch \subseteq Msgs
  /\ closer \in {"no", "breaking", "waiting", "done"}
  /\ sessions \in Nat
  /\ broken \in BOOLEAN
  /\ place \in [Msgs -> {"queued", "locked", "removed"}]
  /\ sent \in [Msgs -> Nat]
  /\ faults \in 0 .. MaxFaults
  /\ row \in Nat
  /\ outcome \in {"none", "exhausted", "consumer"}

ListenerInit ==
  /\ at = "getConnection"
  /\ running = TRUE
  /\ attempt = 0
  /\ batch = {}
  /\ closer = "no"
  /\ sessions = 0
  /\ broken = FALSE
  /\ place = [m \in Msgs |-> "queued"]
  /\ sent = [m \in Msgs |-> 0]
  /\ faults = 0
  /\ row = 0
  /\ outcome = "none"

------------------------------------------------------------------------------
(* Oracle's side.                                                          *)

Moved(S, to) == [m \in Msgs |-> IF m \in S THEN to ELSE place[m]]

Locked == {m \in Msgs : place[m] = "locked"}

(* A session that is closed gives back what it locked.                     *)
CloseSession ==
  /\ sessions' = 0
  /\ place' = Moved(Locked, "queued")
  /\ broken' = FALSE
  /\ UNCHANGED faults

(* A call fails because break() reached it, or by itself.                  *)
FailedCall ==
  /\ broken' = FALSE
  /\ faults' = IF broken THEN faults ELSE faults + 1
  /\ faults' <= MaxFaults

------------------------------------------------------------------------------
(* The loop.                                                               *)

(* catch: a stopped loop is left, a running one first drops its session.   *)
Caught ==
  /\ at' = IF running THEN "dropping" ELSE "leaving"
  /\ row' = row + 1
  /\ UNCHANGED <<running, attempt, closer, sessions, sent, outcome>>

(* Fault: a session that arrives after close is forgotten.                 *)
LateForgotten == "ended"

Late == "leaving"

SessionOpened ==
  /\ at = "getConnection"
  /\ sessions' = sessions + 1
  /\ at' = IF running THEN "getQueue" ELSE Late
  /\ UNCHANGED <<running, attempt, batch, closer, broken, place, faults, sent, row, outcome>>

QueueOpened ==
  /\ at = "getQueue"
  /\ at' = IF running THEN "dequeue" ELSE "leaving"
  /\ UNCHANGED <<running, attempt, batch, closer, oracle, sent, row, outcome>>

(* Fault: a dequeue that succeeds does not reset the retries.              *)
SucceededKeepsCount == UNCHANGED attempt /\ row' = 0

(* The end of an iteration.                                                *)
Succeeded == attempt' = 0 /\ row' = 0

(* The blocking dequeue returns; some queues may return nothing.           *)
Dequeued(got) ==
  /\ at = "dequeue"
  /\ got \subseteq {m \in Msgs : place[m] = "queued"}
  /\ Cardinality(got) <= BatchSize
  /\ place' = Moved(got, "locked")
  /\ \/ /\ ~running
        /\ at' = "leaving"
        /\ UNCHANGED <<attempt, batch, row>>
     \/ /\ running /\ got # {}
        /\ at' = "materialize"
        /\ batch' = got
        /\ UNCHANGED <<attempt, row>>
     \/ /\ running /\ got = {}
        /\ Succeeded
        /\ UNCHANGED <<at, batch>>
  /\ UNCHANGED <<running, closer, sessions, broken, faults, sent, outcome>>

Emit(S) == sent' = [m \in Msgs |-> IF m \in S THEN sent[m] + 1 ELSE sent[m]]

(* Fault: the messages are sent before they are committed.                 *)
BatchMaterializedSends ==
  /\ at = "materialize"
  /\ at' = IF running THEN "commit" ELSE "leaving"
  /\ Emit(batch)
  /\ UNCHANGED <<running, attempt, batch, closer, oracle, row, outcome>>

(* The LOBs of the batch are read.                                         *)
BatchMaterialized ==
  /\ at = "materialize"
  /\ at' = IF running THEN "commit" ELSE "leaving"
  /\ UNCHANGED <<running, attempt, batch, closer, oracle, sent, row, outcome>>

(* What was committed is sent, even by a node that is closing.             *)
BatchCommitted ==
  /\ at = "commit"
  /\ place' = Moved(Locked, "removed")
  /\ Emit(batch)
  /\ batch' = {}
  /\ Succeeded
  /\ at' = IF running THEN "dequeue" ELSE "leaving"
  /\ UNCHANGED <<running, closer, sessions, broken, faults, outcome>>

(* An answer that was lost leaves open whether the commit took place.      *)
CommitFails ==
  /\ at = "commit"
  /\ FailedCall
  /\ place' \in {place, Moved(Locked, "removed")}
  /\ batch' = {}
  /\ Caught

(* A dequeue that fails may have locked a part of its batch.               *)
Fails ==
  /\ at \in {"getConnection", "getQueue", "dequeue", "materialize"}
  /\ FailedCall
  /\ batch' = {}
  /\ \/ UNCHANGED place
     \/ /\ at = "dequeue"
        /\ \E got \in SUBSET {m \in Msgs : place[m] = "queued"} :
             Cardinality(got) < BatchSize /\ place' = Moved(got, "locked")
  /\ Caught

Drop == CloseSession

ShouldRetry(n) == RetryEnabled /\ (MaxRetries = 0 \/ n <= MaxRetries)

(* The catch block once its session is closed: it gives up, or sleeps      *)
(* unless the node stopped meanwhile.                                      *)
Dropped ==
  /\ at = "dropping"
  /\ Drop
  /\ \/ /\ ~Subscriber                                      \* ORA-25231
        /\ outcome' = "consumer"
        /\ at' = "leaving"
        /\ UNCHANGED attempt
     \/ /\ attempt' = attempt + 1
        /\ ~ShouldRetry(attempt + 1)
        /\ outcome' = "exhausted"
        /\ at' = "leaving"
     \/ /\ attempt' = attempt + 1
        /\ ShouldRetry(attempt + 1)
        /\ at' = IF running THEN "sleep" ELSE "leaving"
        /\ UNCHANGED outcome
  /\ UNCHANGED <<running, batch, closer, sent, row>>

(* The sleep ends, by its timer or because close wakes it.                 *)
Slept ==
  /\ at = "sleep"
  /\ at' = IF running THEN "getConnection" ELSE "leaving"
  /\ UNCHANGED <<running, attempt, batch, closer, oracle, sent, row, outcome>>

(* finally                                                                 *)
Left ==
  /\ at = "leaving"
  /\ CloseSession
  /\ at' = "ended"
  /\ batch' = {}
  /\ UNCHANGED <<running, attempt, closer, sent, row, outcome>>

------------------------------------------------------------------------------
(* The close handler.                                                      *)

Close ==
  /\ closer = "no"
  /\ running' = FALSE
  /\ closer' = IF sessions > 0 THEN "breaking" ELSE "waiting"
  /\ UNCHANGED <<at, attempt, batch, oracle, sent, row, outcome>>

(* Fault: the handler waits for the loop without interrupting it.          *)
BreakNothing == FALSE

(* connection.break() interrupts a call that is still in flight.           *)
BreakCall == at \in Calls

Break ==
  /\ closer = "breaking"
  /\ \/ BreakCall /\ broken' = TRUE
     \/ ~BreakCall /\ broken' = FALSE
  /\ closer' = "waiting"
  /\ UNCHANGED <<at, running, attempt, batch, sessions, place, faults, sent, row, outcome>>

(* The handler waited for the loop; it has nothing left to close.          *)
Closed ==
  /\ closer = "waiting" /\ at = "ended"
  /\ closer' = "done"
  /\ UNCHANGED <<at, running, attempt, batch, oracle, sent, row, outcome>>

------------------------------------------------------------------------------

Answered == SessionOpened \/ QueueOpened \/ BatchMaterialized \/ BatchCommitted \/ Dropped \/ Slept \/ Left

ListenerNext ==
  \/ Answered \/ CommitFails \/ Fails
  \/ \E got \in SUBSET Msgs : Dequeued(got)
  \/ Close \/ Break \/ Closed

ListenerSpec == ListenerInit /\ [][ListenerNext]_listenerVars

(* Calls are answered, sleeps end and break() interrupts.  A dequeue with  *)
(* nothing to read never returns by itself, and nobody has to close.       *)
ListenerFairness ==
  /\ WF_listenerVars(Answered \/ CommitFails)
  /\ WF_listenerVars(broken /\ Fails)
  /\ WF_listenerVars(\E got \in SUBSET Msgs : got # {} /\ Dequeued(got))
  /\ WF_listenerVars(Break) /\ WF_listenerVars(Closed)

ListenerFairSpec == ListenerSpec /\ ListenerFairness

------------------------------------------------------------------------------
(* Properties.                                                             *)

(* Whatever fails and whenever the node closes, a message is sent on at    *)
(* most once, and only when Oracle has removed it: a message that comes    *)
(* back to the queue was never sent.                                       *)
AtMostOnce == \A m \in Msgs : sent[m] = 0 \/ (sent[m] = 1 /\ place[m] = "removed")

(* One session at a time, and none when close reports that it is done: a   *)
(* session that arrives late is closed too, and gives back what it locked. *)
SessionsClosed ==
  /\ sessions <= 1
  /\ closer = "done" => sessions = 0 /\ Locked = {}

(* The listener gives up for its retries only after more failures in a row *)
(* than allowed: an outage it survived does not count against the next.    *)
GivesUpFairly == outcome = "exhausted" => ~RetryEnabled \/ row > MaxRetries

(* Close ends, even when it finds the loop in a dequeue that waits for     *)
(* ever.                                                                   *)
CloseEnds == closer # "no" ~> closer = "done"

(* A listener that neither stops nor gives up takes each message off the   *)
(* queue, those locked by a session that failed included.                  *)
QueueDrains == \A m \in Msgs : TRUE ~> (place[m] = "removed" \/ ~running \/ outcome # "none")
\* The listener comes to its end: a close that is asked for, or an empty queue.
ListenerEnds == CloseEnds /\ QueueDrains
==============================================================================
