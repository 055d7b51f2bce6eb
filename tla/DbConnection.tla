----------------------------- MODULE DbConnection -----------------------------
(***************************************************************************)
(* A db-connection configuration node and the operations that take a       *)
(* connection of their own from it: the inputs of one sql, enqueue or      *)
(* dequeue node outside any transaction, and requests of the editor's test *)
(* endpoint.  The connection comes from a pool, which the first operation  *)
(* creates and the others wait for, or is opened and initialised for the   *)
(* operation alone.                                                        *)
(*                                                                         *)
(* A step is what the code does between two answers of the driver, promise *)
(* continuations included.                                                 *)
(***************************************************************************)
EXTENDS Naturals, FiniteSets

CONSTANTS
  Inputs,  \* the messages that the node receives
  Tests    \* the requests of the test endpoint

ASSUME OperationsAssumption == Inputs \cap Tests = {}

VARIABLES
  kind,    \* the kind of the node
  config,  \* [pooled, init, valid]: usePool, session initialisation, usable options
  pool,    \* the variables pool and poolPromise, and the pool itself
  orphan,  \* was the pool's creation started after the close was over
  closing, \* the close handler of the configuration node
  node,    \* the close handler of the node
  pc,      \* the await that an operation is at
  conn,    \* its own connection
  work,    \* what the connection's transaction has done
  reply    \* what the input or the request was told

configVars == <<config, pool, orphan, closing>>
opVars == <<pc, conn, work, reply>>
vars == <<kind, node, configVars, opVars>>

Ops == Inputs \cup Tests
KindOf(o) == IF o \in Tests THEN "test" ELSE kind
Queues(o) == KindOf(o) \in {"enqueue", "dequeue"}

TypeOK ==
  /\ kind \in {"sql", "enqueue", "dequeue"}
  /\ config \in [pooled : BOOLEAN, init : BOOLEAN, valid : BOOLEAN]
  /\ pool \in {"none", "creating", "live", "draining", "closed"}
  /\ orphan \in BOOLEAN
  /\ closing \in {"open", "waiting", "draining", "closed"}
  /\ node \in {"open", "closing", "closed"}
  /\ pc \in [Ops -> {"new", "prepare", "pool", "connect", "init", "discard", "queue",
                     "execute", "read", "commit", "rollback", "close", "over"}]
  /\ conn \in [Ops -> {"none", "live", "broken", "returned"}]
  \* "doubtful": commit or rollback failed, so only the database knows.
  /\ work \in [Ops -> {"none", "open", "committed", "undone", "doubtful"}]
  /\ reply \in [Ops -> {"none", "sent", "error", "stopped"}]

Init ==
  /\ kind \in {"sql", "enqueue", "dequeue"}
  /\ config \in [pooled : BOOLEAN, init : BOOLEAN, valid : BOOLEAN]
  /\ config.pooled => ~config.init      \* then a pool's getConnection() does it
  /\ pool = "none" /\ orphan = FALSE /\ closing = "open" /\ node = "open"
  /\ pc = [o \in Ops |-> "new"]
  /\ conn = [o \in Ops |-> "none"]
  /\ work = [o \in Ops |-> "none"]
  /\ reply = [o \in Ops |-> "none"]

\* isClosing(): the test endpoint belongs to no node.
Closing(o) == o \in Inputs /\ node # "open"

------------------------------------------------------------------------------
(* How an operation goes on.                                                *)

\* Fault: needsRollback is set after the call that does the work.
NeedsRollbackLate(o) == Queues(o) /\ pc[o] \in {"read", "commit"}

\* needsRollback is set before the call that does the work.
NeedsRollback(o) == Queues(o) /\ pc[o] \in {"execute", "read", "commit"}

\* The finally of the handler: the connection is closed if there is one.
Leave(o) == IF conn'[o] \in {"live", "broken"} THEN "close" ELSE "over"

Told(o) == IF Closing(o) THEN "stopped" ELSE "error"

\* The catch of the handlers, for the operations of S.
Catch(S) ==
  /\ pc' = [o \in Ops |-> IF o \notin S THEN pc[o]
                          ELSE IF NeedsRollback(o) THEN "rollback" ELSE Leave(o)]
  /\ reply' = [o \in Ops |-> IF o \in S /\ ~NeedsRollback(o) THEN Told(o) ELSE reply[o]]

\* assertOpen(), then the await that comes next.
GoOn(o, next) ==
  IF Closing(o) THEN Catch({o})
  ELSE pc' = [pc EXCEPT ![o] = next] /\ UNCHANGED reply

\* The operation has succeeded, and its connection is closed last.
Deliver(o) ==
  /\ reply' = [reply EXCEPT ![o] = "sent"]
  /\ pc' = [pc EXCEPT ![o] = Leave(o)]

------------------------------------------------------------------------------
(* Getting a connection.                                                    *)

\* An operation arrives: an input first waits for its (absent) lease and for
\* its binds.
Arrive(o) ==
  /\ pc[o] = "new"
  /\ \/ /\ node = "open" \/ o \in Tests
        /\ pc' = [pc EXCEPT ![o] = "prepare"] /\ UNCHANGED reply
     \/ /\ node = "closing" /\ o \in Inputs
        /\ pc' = [pc EXCEPT ![o] = "over"] /\ reply' = [reply EXCEPT ![o] = "stopped"]
  /\ UNCHANGED <<kind, node, configVars, conn, work>>

\* initPool(): the pool, even one that was closed since; the creation under
\* way; or a new one.
InitPool(o) ==
  \/ /\ pool \in {"live", "draining", "closed"}
     /\ pc' = [pc EXCEPT ![o] = "connect"] /\ UNCHANGED <<pool, orphan>>
  \/ /\ pool = "creating"
     /\ pc' = [pc EXCEPT ![o] = "pool"] /\ UNCHANGED <<pool, orphan>>
  \/ /\ pool = "none" /\ config.valid
     /\ pool' = "creating" /\ orphan' = (closing = "closed")
     /\ pc' = [pc EXCEPT ![o] = "pool"]

\* getConnection() of the configuration node, once the operation is prepared.
GetConnection(o) ==
  /\ pc[o] = "prepare"
  /\ ~Closing(o)
  /\ \/ config.pooled /\ InitPool(o)
     \/ /\ ~config.pooled /\ config.valid
        /\ pc' = [pc EXCEPT ![o] = "connect"] /\ UNCHANGED <<pool, orphan>>
  /\ UNCHANGED <<kind, node, config, closing, conn, work, reply>>

\* The node is closing, the message is no good, or the driver mode or the
\* options are refused before anything is requested.
Refused(o) ==
  /\ pc[o] = "prepare"
  /\ Closing(o) \/ o \in Inputs \/ (~config.valid /\ pool = "none")
  /\ conn' = conn
  /\ Catch({o})
  /\ UNCHANGED <<kind, node, configVars, work>>

AwaitPool == {o \in Ops : pc[o] = "pool"}

\* createPool() ends; a close that waits for it goes on and drains the pool.
PoolCreated ==
  /\ pool = "creating"
  /\ pool' = IF closing = "waiting" THEN "draining" ELSE "live"
  /\ closing' = IF closing = "waiting" THEN "draining" ELSE closing
  /\ pc' = [o \in Ops |-> IF o \in AwaitPool THEN "connect" ELSE pc[o]]
  /\ UNCHANGED <<kind, node, config, orphan, conn, work, reply>>

\* Fault: the close calls done() behind the await only, so not after a failure.
PoolFailsForGood ==
  /\ pool = "creating"
  /\ pool' = "none"
  /\ conn' = conn
  /\ Catch(AwaitPool)
  /\ UNCHANGED <<kind, node, config, orphan, closing, work>>

PoolFails ==
  /\ pool = "creating"
  /\ pool' = "none"
  /\ closing' = IF closing = "waiting" THEN "closed" ELSE closing
  /\ conn' = conn
  /\ Catch(AwaitPool)
  /\ UNCHANGED <<kind, node, config, orphan, work>>

\* The first await of an operation that has its connection.
First(o) == IF Queues(o) THEN "queue" ELSE "execute"

\* The driver hands out a connection; one of a pool that was closed is refused.
Connected(o) ==
  /\ pc[o] = "connect"
  /\ config.pooled => pool \in {"live", "draining"}
  /\ conn' = [conn EXCEPT ![o] = "live"]
  /\ IF config.init THEN pc' = [pc EXCEPT ![o] = "init"] /\ UNCHANGED reply
     ELSE GoOn(o, First(o))
  /\ UNCHANGED <<kind, node, configVars, work>>

ConnectFails(o) ==
  /\ pc[o] = "connect"
  /\ conn' = conn
  /\ Catch({o})
  /\ UNCHANGED <<kind, node, configVars, work>>

\* The session settings of a connection of its own are applied, or the
\* connection is closed before the error is thrown.
Initialised(o) ==
  /\ pc[o] = "init"
  /\ conn' = conn
  /\ \/ GoOn(o, First(o))
     \/ pc' = [pc EXCEPT ![o] = "discard"] /\ UNCHANGED reply
  /\ UNCHANGED <<kind, node, configVars, work>>

Discarded(o) ==
  /\ pc[o] = "discard"
  /\ conn' = [conn EXCEPT ![o] = "returned"]
  /\ Catch({o})
  /\ UNCHANGED <<kind, node, configVars, work>>

------------------------------------------------------------------------------
(* The work.                                                                *)

Usable(o) == conn[o] = "live"

GotQueue(o) ==
  /\ pc[o] = "queue" /\ Usable(o)
  /\ conn' = conn
  /\ GoOn(o, "execute")
  /\ UNCHANGED <<kind, node, configVars, work>>

\* After the work and the conversion of its rows or payloads.
Finished(o) ==
  IF Queues(o) THEN GoOn(o, "commit")
  ELSE IF Closing(o) THEN Catch({o})
  ELSE Deliver(o)

\* execute(), enqMany() or deqMany() has done its work.
Executed(o) ==
  /\ pc[o] = "execute" /\ Usable(o)
  /\ conn' = conn
  /\ work' = [work EXCEPT ![o] = "open"]
  /\ \/ KindOf(o) \in {"sql", "dequeue"} /\ GoOn(o, "read")
     \/ Finished(o)
  /\ UNCHANGED <<kind, node, configVars>>

Materialized(o) ==
  /\ pc[o] = "read" /\ Usable(o)
  /\ conn' = conn
  /\ Finished(o)
  /\ UNCHANGED <<kind, node, configVars, work>>

\* enqueue delivers once its messages are committed; dequeue closes its
\* connection first.  After the commit a close only keeps the answer back.
Committed(o) ==
  /\ pc[o] = "commit" /\ Usable(o)
  /\ conn' = conn
  /\ work' = [work EXCEPT ![o] = "committed"]
  /\ IF Closing(o)
     THEN pc' = [pc EXCEPT ![o] = "close"] /\ reply' = [reply EXCEPT ![o] = "stopped"]
     ELSE IF kind = "enqueue" THEN Deliver(o)
     ELSE pc' = [pc EXCEPT ![o] = "close"] /\ UNCHANGED reply
  /\ UNCHANGED <<kind, node, configVars>>

\* deqOne() answered inside a batch of the locked mode: the message is locked,
\* and the loop asks for the next one unless the node closes.
DequeuedOne(o) ==
  /\ pc[o] = "execute" /\ Usable(o)
  /\ KindOf(o) = "dequeue" /\ ~Closing(o)
  /\ work[o] = "none"                  \* further messages change nothing more
  /\ work' = [work EXCEPT ![o] = "open"]
  /\ UNCHANGED <<kind, node, configVars, pc, conn, reply>>

\* A call of the driver fails.  enqMany() may have enqueued a part of its
\* messages by then, deqMany() locked a part of its batch; a commit that fails
\* may have been carried out.
CallFails(o) ==
  /\ pc[o] \in {"queue", "execute", "read", "commit"}
  /\ conn' = conn
  /\ \/ work' = work
     \/ /\ pc[o] = "execute" /\ Queues(o) /\ Usable(o)
        /\ work' = [work EXCEPT ![o] = "open"]
     \/ /\ pc[o] = "commit" /\ work[o] = "open"
        /\ work' = [work EXCEPT ![o] = "doubtful"]
  /\ Catch({o})
  /\ UNCHANGED <<kind, node, configVars>>

RolledBack(o) ==
  /\ pc[o] = "rollback"
  /\ \/ /\ Usable(o)
        /\ work' = [work EXCEPT ![o] = IF @ = "open" THEN "undone" ELSE @]
     \/ work' = [work EXCEPT ![o] = IF @ = "open" THEN "doubtful" ELSE @]
  /\ pc' = [pc EXCEPT ![o] = "close"]
  /\ reply' = [reply EXCEPT ![o] = Told(o)]
  /\ UNCHANGED <<kind, node, configVars, conn>>

\* close() of the connection.  A dequeue that committed has not answered yet:
\* it delivers now, unless the close failed.
Returned(o) ==
  /\ pc[o] = "close"
  /\ conn' = [conn EXCEPT ![o] = "returned"]
  /\ pc' = [pc EXCEPT ![o] = "over"]
  /\ \/ reply[o] # "none" /\ UNCHANGED reply
     \/ reply[o] = "none" /\ ~Closing(o) /\ reply' = [reply EXCEPT ![o] = "sent"]
     \/ reply[o] = "none" /\ reply' = [reply EXCEPT ![o] = Told(o)]
  /\ UNCHANGED <<kind, node, configVars, work>>

------------------------------------------------------------------------------
(* The nodes close.                                                         *)

CloseNode ==
  /\ node = "open"
  /\ node' = "closing"
  /\ UNCHANGED <<kind, configVars, opVars>>

\* The pending operations have settled.
NodeClosed ==
  /\ node = "closing"
  /\ \A o \in Inputs : pc[o] \in {"new", "over"}
  /\ node' = "closed"
  /\ UNCHANGED <<kind, configVars, opVars>>

\* Fault: the close looks at the pool only.
CloseConfigAtOnce ==
  /\ closing = "open"
  /\ closing' = IF pool = "live" THEN "draining" ELSE "closed"
  /\ pool' = IF pool = "live" THEN "draining" ELSE pool
  /\ UNCHANGED <<kind, node, config, orphan, opVars>>

CloseConfig ==
  /\ closing = "open"
  /\ closing' = IF pool = "creating" THEN "waiting" ELSE IF pool = "live" THEN "draining" ELSE "closed"
  /\ pool' = IF pool = "live" THEN "draining" ELSE pool
  /\ UNCHANGED <<kind, node, config, orphan, opVars>>

\* pool.close(10) ends: ten seconds are over, or no connection was out.  The
\* database undoes the open work of a session that is cut.
PoolClosed ==
  /\ closing = "draining"
  /\ closing' = "closed" /\ pool' = "closed"
  /\ conn' = [o \in Ops |-> IF conn[o] = "live" THEN "broken" ELSE conn[o]]
  /\ work' = [o \in Ops |-> IF conn[o] = "live" /\ work[o] = "open" THEN "undone" ELSE work[o]]
  /\ UNCHANGED <<kind, node, config, orphan, pc, reply>>

------------------------------------------------------------------------------

PoolEnds == PoolCreated \/ PoolFails

Answer(o) ==
  \/ GetConnection(o) \/ Refused(o) \/ Connected(o) \/ ConnectFails(o) \/ Initialised(o)
  \/ Discarded(o) \/ GotQueue(o) \/ DequeuedOne(o) \/ Executed(o) \/ Materialized(o)
  \/ Committed(o) \/ CallFails(o) \/ RolledBack(o) \/ Returned(o)

Next ==
  \/ \E o \in Ops : Arrive(o) \/ Answer(o)
  \/ PoolEnds \/ PoolClosed
  \/ CloseNode \/ NodeClosed \/ CloseConfig

Spec == Init /\ [][Next]_vars

\* The driver answers every call, with a result or an error.
Fairness ==
  /\ \A o \in Ops : WF_vars(Answer(o))
  /\ WF_vars(PoolEnds) /\ WF_vars(PoolClosed) /\ WF_vars(NodeClosed)

FairSpec == Spec /\ Fairness

------------------------------------------------------------------------------

\* enqueue and dequeue return their connection with the transaction settled by
\* their own commit or rollback, also when their batch fails part-way or the
\* node closes under them, unless commit or rollback themselves failed.  Whoever
\* was told of a success finds the queue changed, and an enqueue that is reported
\* as failed was not committed: sending it again is safe.
WorkIsSettled ==
  \A o \in Ops : Queues(o) =>
    /\ pc[o] \in {"close", "over"} => work[o] # "open"
    /\ reply[o] = "sent" => work[o] = "committed"
    /\ reply[o] = "error" /\ work[o] = "committed" => kind = "dequeue"

\* The connection is returned on every path, and the pool is closed with the
\* configuration node even if it was being created when the close began: all
\* that may be left is a pool whose creation was started after the close.
NothingLeaks ==
  /\ \A o \in Ops : pc[o] = "over" => conn[o] \in {"none", "returned"}
  /\ closing = "closed" /\ pool \in {"creating", "live"} => orphan

\* Every operation ends, and so do the close of the node and of the
\* configuration node.
EverythingEnds ==
  <>[](/\ \A o \in Ops : pc[o] \in {"new", "over"}
       /\ node # "closing" /\ closing \notin {"waiting", "draining"})
=============================================================================
