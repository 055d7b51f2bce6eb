--------------------------- MODULE DbSessionProofs ---------------------------
(***************************************************************************)
(* Theorems about the sessions that the db nodes open for themselves:      *)
(* DbConnection, for any number of inputs and tests, and AqListener, for   *)
(* any number of messages, any batch size, any retry settings and any      *)
(* number of failing calls.                                                *)
(***************************************************************************)
EXTENDS DbConnection, AqListener, TLAPS

------------------------------------------------------------------------------
(* DbConnection.                                                           *)
(*                                                                         *)
(* WorkIsSettled is not inductive: it says nothing of the operations that  *)
(* are still at work.  OpInv adds what each await says of the connection,  *)
(* of the work and of the answer: nothing is done before the call that     *)
(* does it is made; from then on, a call that fails half-way included, no  *)
(* path leads past both the commit and the rollback; and only a committed  *)
(* dequeue closes its connection before it answers.                        *)

Before == {"new", "prepare", "pool", "connect", "init", "discard", "queue"}

\* What the await that o is at says of its connection and its answer.
PathInv(o) ==
  /\ pc[o] = "new" => conn[o] = "none"
  /\ pc[o] = "over" => conn[o] \in {"none", "returned"}
  /\ pc[o] \notin {"close", "over"} => reply[o] = "none"
  /\ pc[o] \in {"queue", "commit"} => Queues(o)

\* What it says of queue work.
SettleInv(o) ==
  Queues(o) =>
    /\ pc[o] \in Before => work[o] = "none"
    /\ pc[o] \in {"execute", "read", "commit", "rollback"} => work[o] # "committed"
    /\ pc[o] \in {"close", "over"} => work[o] # "open"
    /\ pc[o] = "close" /\ reply[o] = "none" => work[o] = "committed" /\ kind = "dequeue"
    /\ reply[o] = "sent" => work[o] = "committed"
    /\ reply[o] = "error" /\ work[o] = "committed" => kind = "dequeue"

OpInv == \A o \in Ops : PathInv(o) /\ SettleInv(o)

PoolInv == closing = "closed" /\ pool \in {"creating", "live"} => orphan

ConnInv == TypeOK /\ OpInv /\ PoolInv

------------------------------------------------------------------------------

\* Whatever initPool() finds, the operation waits for the pool or asks it for a
\* connection; only a creation begun behind the close changes whose pool it is.
LEMMA InitPoolFacts ==
  ASSUME TypeOK, NEW o \in Ops, InitPool(o)
  PROVE  /\ pc' = [pc EXCEPT ![o] = "connect"] \/ pc' = [pc EXCEPT ![o] = "pool"]
         /\ pool' = pool \/ pool' = "creating"
         /\ orphan' \in BOOLEAN
         /\ (orphan' = orphan /\ pool' = pool) \/ (closing = "closed" => orphan')
<1>1. CASE pool \in {"live", "draining", "closed"} /\ pc' = [pc EXCEPT ![o] = "connect"]
           /\ UNCHANGED <<pool, orphan>>
  BY <1>1 DEF TypeOK
<1>2. CASE pool = "creating" /\ pc' = [pc EXCEPT ![o] = "pool"] /\ UNCHANGED <<pool, orphan>>
  BY <1>2 DEF TypeOK
<1>3. CASE pool = "none" /\ config.valid /\ pool' = "creating" /\ orphan' = (closing = "closed")
           /\ pc' = [pc EXCEPT ![o] = "pool"]
  <2>1. orphan' \in BOOLEAN /\ (closing = "closed" => orphan')
    BY <1>3, Zenon
  <2>2. QED
    BY <1>3, <2>1, Zenon
<1>4. QED
  BY <1>1, <1>2, <1>3, Zenon DEF InitPool

\* Every variable stays within its type.
LEMMA TypeStep == TypeOK /\ [Next]_vars => TypeOK'
<1> SUFFICES ASSUME TypeOK, [Next]_vars PROVE TypeOK'
  OBVIOUS
<1>1. ASSUME NEW o \in Ops, Arrive(o) PROVE TypeOK'
  BY <1>1 DEF TypeOK, Arrive, Ops, KindOf, Queues, configVars, opVars
<1>2. ASSUME NEW o \in Ops, GetConnection(o) PROVE TypeOK'
  BY <1>2, InitPoolFacts DEF TypeOK, GetConnection, Ops, KindOf, Queues, configVars, opVars
<1>3. ASSUME NEW o \in Ops, Refused(o) PROVE TypeOK'
  BY <1>3 DEF TypeOK, Refused, Catch, Leave, Told, Closing, NeedsRollback, Ops, KindOf, Queues, configVars, opVars
<1>4. ASSUME NEW o \in Ops, Connected(o) PROVE TypeOK'
  BY <1>4 DEF TypeOK, Connected, GoOn, First, Catch, Leave, Told, Closing, NeedsRollback, Ops, KindOf, Queues, configVars, opVars
<1>5. ASSUME NEW o \in Ops, ConnectFails(o) PROVE TypeOK'
  BY <1>5 DEF TypeOK, ConnectFails, Catch, Leave, Told, Closing, NeedsRollback, Ops, KindOf, Queues, configVars, opVars
<1>6. ASSUME NEW o \in Ops, Initialised(o) PROVE TypeOK'
  BY <1>6 DEF TypeOK, Initialised, GoOn, First, Catch, Leave, Told, Closing, NeedsRollback, Ops, KindOf, Queues, configVars, opVars
<1>7. ASSUME NEW o \in Ops, Discarded(o) PROVE TypeOK'
  BY <1>7 DEF TypeOK, Discarded, Catch, Leave, Told, Closing, NeedsRollback, Ops, KindOf, Queues, configVars, opVars
<1>8. ASSUME NEW o \in Ops, GotQueue(o) PROVE TypeOK'
  BY <1>8 DEF TypeOK, GotQueue, Usable, GoOn, Catch, Leave, Told, Closing, NeedsRollback, Ops, KindOf, Queues, configVars, opVars
<1>d. ASSUME NEW o \in Ops, DequeuedOne(o) PROVE TypeOK'
  BY <1>d DEF TypeOK, DequeuedOne, Usable, Ops, KindOf, Queues, configVars, opVars
<1>9. ASSUME NEW o \in Ops, Executed(o) PROVE TypeOK'
  BY <1>9 DEF TypeOK, Executed, Usable, Finished, Deliver, GoOn, Catch, Leave, Told, Closing, NeedsRollback, Ops, KindOf, Queues, configVars, opVars
<1>10. ASSUME NEW o \in Ops, Materialized(o) PROVE TypeOK'
  BY <1>10 DEF TypeOK, Materialized, Usable, Finished, Deliver, GoOn, Catch, Leave, Told, Closing, NeedsRollback, Ops, KindOf, Queues, configVars, opVars
<1>11. ASSUME NEW o \in Ops, Committed(o) PROVE TypeOK'
  BY <1>11 DEF TypeOK, Committed, Usable, Deliver, Leave, Closing, Ops, KindOf, Queues, configVars, opVars
<1>12. ASSUME NEW o \in Ops, CallFails(o) PROVE TypeOK'
  BY <1>12 DEF TypeOK, CallFails, Catch, Leave, Told, Closing, NeedsRollback, Ops, KindOf, Queues, configVars, opVars
<1>13. ASSUME NEW o \in Ops, RolledBack(o) PROVE TypeOK'
  BY <1>13 DEF TypeOK, RolledBack, Usable, Told, Closing, Ops, KindOf, Queues, configVars, opVars
<1>14. ASSUME NEW o \in Ops, Returned(o) PROVE TypeOK'
  BY <1>14 DEF TypeOK, Returned, Told, Closing, Ops, KindOf, Queues, configVars, opVars
<1>15. CASE PoolCreated
  BY <1>15 DEF TypeOK, PoolCreated, AwaitPool, Ops, KindOf, Queues, configVars, opVars
<1>16. CASE PoolFails
  BY <1>16 DEF TypeOK, PoolFails, AwaitPool, Catch, Leave, Told, Closing, NeedsRollback, Ops, KindOf, Queues, configVars, opVars
<1>17. CASE PoolClosed
  BY <1>17 DEF TypeOK, PoolClosed, Ops, KindOf, Queues, configVars, opVars
<1>18. CASE CloseNode
  BY <1>18 DEF TypeOK, CloseNode, Ops, KindOf, Queues, configVars, opVars
<1>19. CASE NodeClosed
  BY <1>19 DEF TypeOK, NodeClosed, Ops, KindOf, Queues, configVars, opVars
<1>20. CASE CloseConfig
  BY <1>20 DEF TypeOK, CloseConfig, Ops, KindOf, Queues, configVars, opVars
<1>21. CASE UNCHANGED vars
  BY <1>21 DEF TypeOK, vars, configVars, opVars
<1>22. QED
  BY <1>1, <1>2, <1>3, <1>4, <1>5, <1>6, <1>7, <1>8, <1>d, <1>9, <1>10, <1>11, <1>12, <1>13, <1>14, <1>15, <1>16, <1>17, <1>18, <1>19, <1>20, <1>21 DEF Next, Answer, PoolEnds

\* What an await says of its operation is kept by every step, of whatever operation.
LEMMA OpStep == TypeOK /\ OpInv /\ [Next]_vars => OpInv'
<1> SUFFICES ASSUME TypeOK, OpInv, [Next]_vars, NEW x \in Ops
             PROVE  PathInv(x)' /\ SettleInv(x)'
  BY DEF OpInv, Ops
<1>a. PathInv(x) /\ SettleInv(x)
  BY DEF OpInv
<1>1. ASSUME NEW o \in Ops, Arrive(o) PROVE PathInv(x)' /\ SettleInv(x)'
  BY <1>a, <1>1 DEF TypeOK, Before, PathInv, SettleInv, Arrive, Ops, KindOf, Queues, configVars, opVars
<1>2. ASSUME NEW o \in Ops, GetConnection(o) PROVE PathInv(x)' /\ SettleInv(x)'
  BY <1>a, <1>2, InitPoolFacts DEF TypeOK, Before, PathInv, SettleInv, GetConnection, Ops, KindOf, Queues, configVars, opVars
<1>3. ASSUME NEW o \in Ops, Refused(o) PROVE PathInv(x)' /\ SettleInv(x)'
  BY <1>a, <1>3 DEF TypeOK, Before, PathInv, SettleInv, Refused, Catch, Leave, Told, Closing, NeedsRollback, Ops, KindOf, Queues, configVars, opVars
<1>4. ASSUME NEW o \in Ops, Connected(o) PROVE PathInv(x)' /\ SettleInv(x)'
  BY <1>a, <1>4 DEF TypeOK, Before, PathInv, SettleInv, Connected, GoOn, First, Catch, Leave, Told, Closing, NeedsRollback, Ops, KindOf, Queues, configVars, opVars
<1>5. ASSUME NEW o \in Ops, ConnectFails(o) PROVE PathInv(x)' /\ SettleInv(x)'
  BY <1>a, <1>5 DEF TypeOK, Before, PathInv, SettleInv, ConnectFails, Catch, Leave, Told, Closing, NeedsRollback, Ops, KindOf, Queues, configVars, opVars
<1>6. ASSUME NEW o \in Ops, Initialised(o) PROVE PathInv(x)' /\ SettleInv(x)'
  BY <1>a, <1>6 DEF TypeOK, Before, PathInv, SettleInv, Initialised, GoOn, First, Catch, Leave, Told, Closing, NeedsRollback, Ops, KindOf, Queues, configVars, opVars
<1>7. ASSUME NEW o \in Ops, Discarded(o) PROVE PathInv(x)' /\ SettleInv(x)'
  BY <1>a, <1>7 DEF TypeOK, Before, PathInv, SettleInv, Discarded, Catch, Leave, Told, Closing, NeedsRollback, Ops, KindOf, Queues, configVars, opVars
<1>8. ASSUME NEW o \in Ops, GotQueue(o) PROVE PathInv(x)' /\ SettleInv(x)'
  BY <1>a, <1>8 DEF TypeOK, Before, PathInv, SettleInv, GotQueue, Usable, GoOn, Catch, Leave, Told, Closing, NeedsRollback, Ops, KindOf, Queues, configVars, opVars
<1>d. ASSUME NEW o \in Ops, DequeuedOne(o) PROVE PathInv(x)' /\ SettleInv(x)'
  BY <1>a, <1>d DEF TypeOK, Before, PathInv, SettleInv, DequeuedOne, Usable, Ops, KindOf, Queues, configVars, opVars
<1>9. ASSUME NEW o \in Ops, Executed(o) PROVE PathInv(x)' /\ SettleInv(x)'
  BY <1>a, <1>9 DEF TypeOK, Before, PathInv, SettleInv, Executed, Usable, Finished, Deliver, GoOn, Catch, Leave, Told, Closing, NeedsRollback, Ops, KindOf, Queues, configVars, opVars
<1>10. ASSUME NEW o \in Ops, Materialized(o) PROVE PathInv(x)' /\ SettleInv(x)'
  BY <1>a, <1>10 DEF TypeOK, Before, PathInv, SettleInv, Materialized, Usable, Finished, Deliver, GoOn, Catch, Leave, Told, Closing, NeedsRollback, Ops, KindOf, Queues, configVars, opVars
<1>11. ASSUME NEW o \in Ops, Committed(o) PROVE PathInv(x)' /\ SettleInv(x)'
  BY <1>a, <1>11 DEF TypeOK, Before, PathInv, SettleInv, Committed, Usable, Deliver, Leave, Closing, Ops, KindOf, Queues, configVars, opVars
<1>12. ASSUME NEW o \in Ops, CallFails(o) PROVE PathInv(x)' /\ SettleInv(x)'
  BY <1>a, <1>12 DEF TypeOK, Before, PathInv, SettleInv, CallFails, Catch, Leave, Told, Closing, NeedsRollback, Ops, KindOf, Queues, configVars, opVars
<1>13. ASSUME NEW o \in Ops, RolledBack(o) PROVE PathInv(x)' /\ SettleInv(x)'
  BY <1>a, <1>13 DEF TypeOK, Before, PathInv, SettleInv, RolledBack, Usable, Told, Closing, Ops, KindOf, Queues, configVars, opVars
<1>14. ASSUME NEW o \in Ops, Returned(o) PROVE PathInv(x)' /\ SettleInv(x)'
  BY <1>a, <1>14 DEF TypeOK, Before, PathInv, SettleInv, Returned, Told, Closing, Ops, KindOf, Queues, configVars, opVars
<1>15. CASE PoolCreated
  BY <1>a, <1>15 DEF TypeOK, Before, PathInv, SettleInv, PoolCreated, AwaitPool, Ops, KindOf, Queues, configVars, opVars
<1>16. CASE PoolFails
  BY <1>a, <1>16 DEF TypeOK, Before, PathInv, SettleInv, PoolFails, AwaitPool, Catch, Leave, Told, Closing, NeedsRollback, Ops, KindOf, Queues, configVars, opVars
<1>17. CASE PoolClosed
  BY <1>a, <1>17 DEF TypeOK, Before, PathInv, SettleInv, PoolClosed, Ops, KindOf, Queues, configVars, opVars
<1>18. CASE CloseNode
  BY <1>a, <1>18 DEF TypeOK, Before, PathInv, SettleInv, CloseNode, Ops, KindOf, Queues, configVars, opVars
<1>19. CASE NodeClosed
  BY <1>a, <1>19 DEF TypeOK, Before, PathInv, SettleInv, NodeClosed, Ops, KindOf, Queues, configVars, opVars
<1>20. CASE CloseConfig
  BY <1>a, <1>20 DEF TypeOK, Before, PathInv, SettleInv, CloseConfig, Ops, KindOf, Queues, configVars, opVars
<1>21. CASE UNCHANGED vars
  BY <1>a, <1>21 DEF TypeOK, Before, PathInv, SettleInv, Ops, KindOf, Queues, configVars, opVars, vars
<1>22. QED
  BY <1>1, <1>2, <1>3, <1>4, <1>5, <1>6, <1>7, <1>8, <1>d, <1>9, <1>10, <1>11, <1>12, <1>13, <1>14, <1>15, <1>16, <1>17, <1>18, <1>19, <1>20, <1>21 DEF Next, Answer, PoolEnds

\* A pool that is left after the close was begun behind it.
LEMMA PoolStep == TypeOK /\ PoolInv /\ [Next]_vars => PoolInv'
<1> SUFFICES ASSUME TypeOK, PoolInv, [Next]_vars PROVE PoolInv'
  OBVIOUS
<1>1. ASSUME NEW o \in Ops, GetConnection(o) PROVE PoolInv'
  BY <1>1, InitPoolFacts DEF TypeOK, PoolInv, GetConnection
<1>2. ASSUME NEW o \in Ops, Arrive(o) \/ Answer(o), ~GetConnection(o) PROVE PoolInv'
  BY <1>2 DEF PoolInv, Answer, configVars, Arrive, Refused, Connected, ConnectFails, Initialised, Discarded, GotQueue, DequeuedOne, Executed, Materialized, Committed, CallFails, RolledBack, Returned
<1>3. CASE PoolCreated
  BY <1>3 DEF TypeOK, PoolInv, PoolCreated, configVars
<1>4. CASE PoolFails
  BY <1>4 DEF TypeOK, PoolInv, PoolFails, configVars
<1>5. CASE PoolClosed
  BY <1>5 DEF TypeOK, PoolInv, PoolClosed, configVars
<1>6. CASE CloseNode
  BY <1>6 DEF TypeOK, PoolInv, CloseNode, configVars
<1>7. CASE NodeClosed
  BY <1>7 DEF TypeOK, PoolInv, NodeClosed, configVars
<1>8. CASE CloseConfig
  BY <1>8 DEF TypeOK, PoolInv, CloseConfig, configVars
<1>9. CASE UNCHANGED vars
  BY <1>9 DEF PoolInv, vars, configVars
<1>10. QED
  BY <1>1, <1>2, <1>3, <1>4, <1>5, <1>6, <1>7, <1>8, <1>9 DEF Next, Answer, PoolEnds

\* The inductive invariant: the types, what each await says of its operation,
\* and whose pool is left (db-connection.js and the three handlers).
THEOREM ConnectionInvariant == Spec => []ConnInv
<1>1. Init => ConnInv
  BY DEF Init, ConnInv, TypeOK, OpInv, PathInv, SettleInv, PoolInv, Ops, Before
<1>2. ConnInv /\ [Next]_vars => ConnInv'
  BY TypeStep, OpStep, PoolStep DEF ConnInv
<1>3. QED
  BY <1>1, <1>2, PTL DEF Spec

\* enqueue and dequeue settle their work before the connection goes back, and
\* answer truly of it (enqueue.js:106-161, dequeue.js:104-188).
THEOREM WorkSettles == Spec => []WorkIsSettled
<1>1. ConnInv => WorkIsSettled
  BY DEF ConnInv, TypeOK, OpInv, SettleInv, WorkIsSettled
<1>2. QED
  BY <1>1, ConnectionInvariant, PTL

\* No connection is left behind an operation, and no pool behind the close of the
\* configuration node that it did not outlive (db-connection.js:391-462).
THEOREM NoLeak == Spec => []NothingLeaks
<1>1. ConnInv => NothingLeaks
  BY DEF ConnInv, OpInv, PathInv, PoolInv, NothingLeaks
<1>2. QED
  BY <1>1, ConnectionInvariant, PTL

------------------------------------------------------------------------------
(* AqListener.                                                             *)

(* Where the loop may be while it owns no session.                         *)
SessionInv ==
  /\ sessions \in 0 .. 1
  /\ at \in {"getConnection", "sleep", "ended"} => sessions = 0
  /\ closer = "done" => at = "ended"

(* Locks are held only between a dequeue and the end of its session, and   *)
(* what a commit covers is what the node sends.                            *)
LockInv ==
  /\ at \notin {"materialize", "commit", "dropping", "leaving"} => Locked = {}
  /\ at \in {"materialize", "commit"} => batch = Locked
  /\ AtMostOnce

(* retryAttempt counts the failures of the present outage.                 *)
CountInv ==
  /\ at \notin {"dropping", "leaving", "ended"} => row = attempt
  /\ at = "dropping" => row = attempt + 1
  /\ at \notin {"leaving", "ended"} /\ MaxRetries # 0 => attempt <= MaxRetries
  /\ outcome = "exhausted" =>
       at \in {"leaving", "ended"} /\ row = attempt /\ ~ShouldRetry(attempt)

------------------------------------------------------------------------------
(* What a step of each kind does to sessions, locks and counts.            *)

USE DEF Calls, Attempts, CloseSession, Late, Caught, FailedCall, BreakCall, Drop, listenerVars, oracle

(* The sessions of the node are at most one, and none once close is done.  *)
LEMMA SessionStep ==
  ASSUME ListenerTypeOK, SessionInv, [ListenerNext]_listenerVars
  PROVE  SessionInv'
<1>1. CASE Answered
  BY <1>1 DEF Answered, ListenerTypeOK, SessionInv, SessionOpened, QueueOpened, BatchMaterialized, BatchCommitted,
              Dropped, Slept, Left
<1>2. CASE CommitFails \/ Fails
  BY <1>2 DEF ListenerTypeOK, SessionInv, CommitFails, Fails
<1>3. ASSUME NEW got \in SUBSET Msgs, Dequeued(got) PROVE SessionInv'
  BY <1>3 DEF ListenerTypeOK, SessionInv, Dequeued
<1>4. CASE Close \/ Break \/ Closed
  BY <1>4 DEF ListenerTypeOK, SessionInv, Close, Break, Closed
<1>5. CASE UNCHANGED listenerVars
  BY <1>5 DEF SessionInv
<1> QED BY <1>1, <1>2, <1>3, <1>4, <1>5 DEF ListenerNext

(* A message is locked only while its session can still commit or drop it. *)
LEMMA LockStep ==
  ASSUME ListenerTypeOK, LockInv, [ListenerNext]_listenerVars
  PROVE  LockInv'
<1> USE DEF LockInv, ListenerTypeOK, Locked, AtMostOnce
<1>1. CASE SessionOpened \/ QueueOpened \/ BatchMaterialized \/ Slept
  BY <1>1 DEF SessionOpened, QueueOpened, BatchMaterialized, Slept
<1>2. CASE BatchCommitted
  <2> USE <1>2 DEF BatchCommitted
  <2>1. \A m \in Msgs : place'[m] = IF m \in Locked THEN "removed" ELSE place[m]
    BY DEF Moved
  <2>2. \A m \in Msgs : sent'[m] = IF m \in Locked THEN sent[m] + 1 ELSE sent[m]
    BY DEF Emit
  <2>3. Locked' = {}
    BY <2>1
  <2>4. AtMostOnce'
    BY <2>1, <2>2
  <2> QED BY <2>3, <2>4
<1>3. CASE Dropped \/ Left
  <2>1. \A m \in Msgs : place'[m] = IF m \in Locked THEN "queued" ELSE place[m]
    BY <1>3 DEF Dropped, Left, Moved
  <2>2. Locked' = {} /\ sent' = sent /\ at' \notin {"materialize", "commit"}
    BY <1>3, <2>1 DEF Dropped, Left
  <2>3. AtMostOnce'
    BY <2>1, <2>2
  <2> QED BY <2>2, <2>3
<1>4. CASE CommitFails
  <2>1. \/ place' = place
        \/ \A m \in Msgs : place'[m] = IF m \in Locked THEN "removed" ELSE place[m]
    BY <1>4 DEF CommitFails, Moved
  <2>2. sent' = sent /\ at' \in {"dropping", "leaving"}
    BY <1>4 DEF CommitFails
  <2>3. AtMostOnce'
    BY <2>1, <2>2
  <2> QED BY <2>2, <2>3
<1>5. CASE Fails
  <2>1. at' \in {"dropping", "leaving"} /\ sent' = sent
    BY <1>5 DEF Fails
  <2>2. CASE place' = place
    BY <2>1, <2>2
  <2>3. ASSUME NEW got \in SUBSET {m \in Msgs : place[m] = "queued"}, place' = Moved(got, "locked")
        PROVE  LockInv'
    <3>1. \A m \in Msgs : place'[m] = IF m \in got THEN "locked" ELSE place[m]
      BY <2>3 DEF Moved
    <3>2. AtMostOnce'
      BY <2>1, <3>1
    <3> QED BY <2>1, <3>2
  <2> QED BY <1>5, <2>2, <2>3 DEF Fails
<1>6. ASSUME NEW got \in SUBSET Msgs, Dequeued(got) PROVE LockInv'
  <2>1. \A m \in Msgs : place'[m] = IF m \in got THEN "locked" ELSE place[m]
    BY <1>6 DEF Dequeued, Moved
  <2>2. sent' = sent /\ got \subseteq {m \in Msgs : place[m] = "queued"} /\ Locked = {}
    BY <1>6 DEF Dequeued
  <2>3. Locked' = got
    BY <2>1, <2>2
  <2>4. AtMostOnce'
    BY <2>1, <2>2
  <2>5. \/ at' = "leaving"
        \/ at' = "materialize" /\ batch' = got
        \/ at' = "dequeue" /\ got = {}
    BY <1>6 DEF Dequeued
  <2> QED BY <2>3, <2>4, <2>5
<1>7. CASE Close \/ Break \/ Closed
  BY <1>7 DEF Close, Break, Closed
<1>8. CASE UNCHANGED listenerVars
  BY <1>8
<1> QED BY <1>1, <1>2, <1>3, <1>4, <1>5, <1>6, <1>7, <1>8 DEF ListenerNext, Answered

(* The retry count and the outage it counts stay together.                 *)
LEMMA CountStep ==
  ASSUME ListenerTypeOK, CountInv, [ListenerNext]_listenerVars
  PROVE  CountInv'
<1> USE RetryAssumption DEF ListenerTypeOK, CountInv
<1>1. CASE SessionOpened \/ QueueOpened \/ BatchMaterialized \/ Slept \/ Left
  BY <1>1 DEF SessionOpened, QueueOpened, BatchMaterialized, Slept, Left
<1>2. CASE BatchCommitted
  BY <1>2 DEF BatchCommitted, Succeeded
<1>3. CASE Dropped
  BY <1>3 DEF Dropped, ShouldRetry
<1>4. CASE CommitFails \/ Fails
  BY <1>4 DEF CommitFails, Fails
<1>5. ASSUME NEW got \in SUBSET Msgs, Dequeued(got) PROVE CountInv'
  BY <1>5 DEF Dequeued, Succeeded
<1>6. CASE Close \/ Break \/ Closed
  BY <1>6 DEF Close, Break, Closed
<1>7. CASE UNCHANGED listenerVars
  BY <1>7
<1> QED BY <1>1, <1>2, <1>3, <1>4, <1>5, <1>6, <1>7 DEF ListenerNext, Answered

(* Types, the retry limit included, are kept by every step.                *)
LEMMA ListenerTypeStep ==
  ASSUME ListenerTypeOK, SessionInv, CountInv, [ListenerNext]_listenerVars
  PROVE  ListenerTypeOK'
<1> USE RetryAssumption DEF ListenerTypeOK, SessionInv, CountInv
<1>1. CASE SessionOpened \/ QueueOpened \/ BatchMaterialized \/ Slept
  BY <1>1 DEF SessionOpened, QueueOpened, BatchMaterialized, Slept
<1>2. CASE BatchCommitted
  BY <1>2 DEF BatchCommitted, Succeeded, Emit, Moved
<1>m. \A S, to : to \in {"queued", "locked", "removed"} =>
                  Moved(S, to) \in [Msgs -> {"queued", "locked", "removed"}]
  BY DEF Moved
<1>3. CASE Dropped
  <2>1. attempt' \in Attempts
    BY <1>3 DEF Dropped, ShouldRetry
  <2>2. sessions' = 0 /\ broken' = FALSE /\ place' = Moved(Locked, "queued")
    BY <1>3 DEF Dropped
  <2>3. batch' = batch /\ UNCHANGED <<running, closer, sent, row, faults>>
    BY <1>3 DEF Dropped
  <2>4. at' \in {"sleep", "leaving"} /\ outcome' \in {"none", "exhausted", "consumer"}
    BY <1>3 DEF Dropped
  <2>5. place' \in [Msgs -> {"queued", "locked", "removed"}]
    BY <1>m, <2>2
  <2>6. sessions' \in Nat /\ broken' \in BOOLEAN
    BY <2>2
  <2> QED BY <2>1, <2>3, <2>4, <2>5, <2>6
<1>l. CASE Left
  <2>1. sessions' = 0 /\ broken' = FALSE /\ place' = Moved(Locked, "queued")
    BY <1>l DEF Left
  <2>2. at' = "ended" /\ batch' = {} /\ UNCHANGED <<running, attempt, closer, sent, row, outcome, faults>>
    BY <1>l DEF Left
  <2>3. place' \in [Msgs -> {"queued", "locked", "removed"}]
    BY <1>m, <2>1
  <2>4. at' \in Calls \cup {"getConnection", "dropping", "sleep", "leaving", "ended"}
    BY <2>2
  <2>5. sessions' \in Nat
    BY <2>1
  <2>6. broken' \in BOOLEAN
    BY <2>1
  <2> QED BY <2>2, <2>3, <2>4, <2>5, <2>6
<1>4. CASE CommitFails \/ Fails
  <2>1. broken' = FALSE /\ batch' = {} /\ at' \in {"dropping", "leaving"}
    BY <1>4 DEF CommitFails, Fails
  <2>2. place' = place \/ place' = Moved(Locked, "removed") \/ \E got : place' = Moved(got, "locked")
    BY <1>4 DEF CommitFails, Fails
  <2>3. place' \in [Msgs -> {"queued", "locked", "removed"}]
    BY <1>m, <2>2
  <2>4. faults' \in 0 .. MaxFaults /\ row' \in Nat
    BY <1>4 DEF CommitFails, Fails
  <2> QED BY <1>4, <2>1, <2>3, <2>4 DEF CommitFails, Fails
<1>5. ASSUME NEW got \in SUBSET Msgs, Dequeued(got) PROVE ListenerTypeOK'
  BY <1>5 DEF Dequeued, Succeeded, Moved
<1>6. CASE Close \/ Break \/ Closed
  BY <1>6 DEF Close, Break, Closed
<1>7. CASE UNCHANGED listenerVars
  BY <1>7
<1> QED BY <1>1, <1>2, <1>3, <1>l, <1>4, <1>5, <1>6, <1>7 DEF ListenerNext, Answered

------------------------------------------------------------------------------

(* The inductive invariant of the listener: its session, its locks and its *)
(* retry count all follow from where the loop stands.                      *)
ListenerInv == ListenerTypeOK /\ SessionInv /\ LockInv /\ CountInv

THEOREM ListenerInvariant == ListenerSpec => []ListenerInv
<1>1. ListenerInit => ListenerInv
  <2> SUFFICES ASSUME ListenerInit PROVE ListenerInv
    OBVIOUS
  <2>a. attempt \in Attempts /\ faults \in 0 .. MaxFaults
    BY RetryAssumption DEF ListenerInit
  <2>b. broken \in BOOLEAN /\ running \in BOOLEAN
    BY DEF ListenerInit
  <2>c. place \in [Msgs -> {"queued", "locked", "removed"}] /\ sent \in [Msgs -> Nat]
    BY DEF ListenerInit
  <2>1. ListenerTypeOK
    BY <2>a, <2>b, <2>c DEF ListenerInit, ListenerTypeOK
  <2>2. SessionInv /\ CountInv
    BY RetryAssumption DEF ListenerInit, SessionInv, CountInv
  <2>3. LockInv
    BY DEF ListenerInit, LockInv, Locked, AtMostOnce
  <2> QED BY <2>1, <2>2, <2>3 DEF ListenerInv
<1>2. ListenerInv /\ [ListenerNext]_listenerVars => ListenerInv'
  BY SessionStep, LockStep, CountStep, ListenerTypeStep DEF ListenerInv
<1> QED BY <1>1, <1>2, PTL DEF ListenerSpec

(* A message is sent on at most once, and only when it was removed, in     *)
(* every interleaving of failures, retries and close.                      *)
THEOREM SentAtMostOnce == ListenerSpec => []AtMostOnce
<1>1. ListenerInv => AtMostOnce
  BY DEF ListenerInv, LockInv
<1> QED BY <1>1, ListenerInvariant, PTL

(* The node never has two sessions, and none, nor any lock, after close.   *)
THEOREM SessionsAreClosed == ListenerSpec => []SessionsClosed
<1>1. ListenerInv => SessionsClosed
  BY DEF ListenerInv, SessionInv, LockInv, SessionsClosed
<1> QED BY <1>1, ListenerInvariant, PTL

(* The listener gives up only when one outage used up its retries.         *)
THEOREM RetriesAreUsed == ListenerSpec => []GivesUpFairly
<1>1. ListenerInv => GivesUpFairly
  BY RetryAssumption DEF ListenerInv, ListenerTypeOK, CountInv, GivesUpFairly, ShouldRetry
<1> QED BY <1>1, ListenerInvariant, PTL
=============================================================================
