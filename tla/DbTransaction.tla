---------------------------- MODULE DbTransaction ----------------------------
(***************************************************************************)
(* Managed database transactions of db-nodes: the process-wide registry    *)
(* (lib/db-transaction.js), the begin-transaction node that opens, times   *)
(* and owns them, the end-transaction node and the registry's finalize()   *)
(* that settle them, and the sql, enqueue and dequeue handlers that work   *)
(* under a lease (lib/db-operation.js).                                    *)
(*                                                                         *)
(* JavaScript runs one callback at a time, so a step is the code from one  *)
(* await (or event) to the next.  A handler invocation is one element of   *)
(* Ops, an end-transaction input or finalize() call one of Callers.        *)
(***************************************************************************)
EXTENDS Naturals

CONSTANTS
  Txns,         \* transactions begin inputs may create
  Ops,          \* inputs of sql / enqueue / dequeue nodes
  Begins,       \* begin-transaction nodes
  Nodes,        \* sql / enqueue / dequeue nodes
  Callers,      \* end-transaction inputs and finalize() calls
  KindOf,       \* the node type that handles each operation
  NodeOf,       \* the node that handles each operation
  CallKind,     \* "commit" and "rollback" are end-transaction inputs
  TimedBegins,  \* the begin nodes with timeoutSecs > 0
  Nobody        \* owner of a transaction no begin node tracks

ASSUME KindOfAssumption == KindOf \in [Ops -> {"sql", "enqueue", "dequeue"}]
ASSUME NodeOfAssumption == NodeOf \in [Ops -> Nodes]
ASSUME CallKindAssumption ==
  CallKind \in [Callers -> {"commit", "rollback", "finalize"}]
ASSUME BeginsAssumption == TimedBegins \subseteq Begins /\ Nobody \notin Begins

VARIABLES
  state,         \* txn._state, with finish()'s awaits told apart
  owner,         \* the begin node whose activeTransactions holds it
  timer,         \* txn._timeout is armed
  timedOut,      \* txn.timedOut
  rollbackOnly,  \* txn._rollbackOnly
  want,          \* the action the first finish() call asked for
  outcome,       \* txn._result.outcome
  failure,       \* txn._result.failed
  db,            \* what the database did with the session's work
  issued,        \* lease promises made so far: promise k is the k-th _tail
  released,      \* the lease promises that have resolved
  pc,            \* where each operation's handler is
  txnOf,         \* the transaction its message refers to
  ticket,        \* the lease promise it created
  beginState,    \* begin nodes: open, closing, closed
  nodeState,     \* sql / enqueue / dequeue nodes: open, closing, closed
  reply,         \* what each caller has been told
  target         \* the transactions each caller settles

verdict   == <<outcome, failure, db>>
txnCore   == <<state, owner, timer, timedOut, want, verdict>>
txnVars   == <<txnCore, rollbackOnly>>
leaseVars == <<issued, released>>
opVars    == <<pc, txnOf, ticket>>
lifeVars  == <<beginState, nodeState>>
callVars  == <<reply, target>>
nonTxn    == <<leaseVars, opVars, lifeVars, callVars>>
vars == <<txnVars, nonTxn>>

------------------------------------------------------------------------------
(* States of a transaction.                                                *)

Unborn   == {"none", "connecting", "late", "discarded"}
Settling == {"committing", "recovering", "rollingBack", "closing"}
Ending   == {"draining"} \cup Settling     \* _state = "ending"
Managed  == {"active"} \cup Ending
States   == Unborn \cup Managed \cup {"ended"}

(* Places of a handler.  A leased handler may be using the connection.     *)

Leased == {"prepare", "executing"}
Broken == {"failed", "stopped"}            \* errors that must not be committed
OpDone == {"acked", "refused", "emptyOk", "emptyFailed"} \cup Broken
Places == {"idle", "waiting", "emptied"} \cup Leased \cup OpDone

Lifecycle == {"open", "closing", "closed"}

TypeOK ==
  /\ state \in [Txns -> States]
  /\ owner \in [Txns -> Begins \cup {Nobody}]
  /\ timer \in [Txns -> BOOLEAN]
  /\ timedOut \in [Txns -> BOOLEAN]
  /\ rollbackOnly \in [Txns -> BOOLEAN]
  /\ want \in [Txns -> {"none", "commit", "rollback"}]
  /\ outcome \in [Txns -> {"unknown", "committed", "rolledBack"}]
  /\ failure \in [Txns -> BOOLEAN]
  /\ db \in [Txns -> {"open", "committed", "rolledBack"}]
  /\ issued \in [Txns -> Nat]
  /\ released \in [Txns -> SUBSET Nat]
  /\ pc \in [Ops -> Places]
  /\ txnOf \in [Ops -> Txns \cup {Nobody}]
  /\ ticket \in [Ops -> Nat]
  /\ beginState \in [Begins -> Lifecycle]
  /\ nodeState \in [Nodes -> Lifecycle]
  /\ reply \in [Callers -> {"idle", "refused", "waiting", "ok", "error"}]
  /\ target \in [Callers -> SUBSET Txns]

Init ==
  /\ state = [t \in Txns |-> "none"]
  /\ owner = [t \in Txns |-> Nobody]
  /\ timer = [t \in Txns |-> FALSE]
  /\ timedOut = [t \in Txns |-> FALSE]
  /\ rollbackOnly = [t \in Txns |-> FALSE]
  /\ want = [t \in Txns |-> "none"]
  /\ outcome = [t \in Txns |-> "unknown"]
  /\ failure = [t \in Txns |-> FALSE]
  /\ db = [t \in Txns |-> "open"]
  /\ issued = [t \in Txns |-> 0]
  /\ released = [t \in Txns |-> {0}]        \* Promise.resolve()
  /\ pc = [o \in Ops |-> "idle"]
  /\ txnOf = [o \in Ops |-> Nobody]
  /\ ticket = [o \in Ops |-> 0]
  /\ beginState = [b \in Begins |-> "open"]
  /\ nodeState = [n \in Nodes |-> "open"]
  /\ reply = [c \in Callers |-> "idle"]
  /\ target = [c \in Callers |-> {}]

------------------------------------------------------------------------------
(* The registry.                                                           *)

(* Fault: get() accepts a transaction that is being settled.               *)
AdmitsEnding(t) == state[t] \in Managed

(* get(): a message's reference is good while its transaction is active.   *)
Admits(t) == state[t] = "active"

(* Fault: a second finish() changes the action of the first.               *)
FinishLastWins(S, action) ==
  LET open == {t \in S : state[t] \in {"active", "draining"}} IN
  /\ state' = [t \in Txns |-> IF t \in open THEN "draining" ELSE state[t]]
  /\ want' = [t \in Txns |-> IF t \in open THEN action ELSE want[t]]
  /\ timer' = [t \in Txns |-> IF t \in open THEN FALSE ELSE timer[t]]

(* finish(): the first call for a transaction closes its admission and     *)
(* fixes the action; later calls share that call's completion.             *)
Finish(S, action) ==
  LET first == {t \in S : state[t] = "active"} IN
  /\ state' = [t \in Txns |-> IF t \in first THEN "draining" ELSE state[t]]
  /\ want' = [t \in Txns |-> IF t \in first THEN action ELSE want[t]]
  /\ timer' = [t \in Txns |-> IF t \in first THEN FALSE ELSE timer[t]]

(* Fault: every handler awaits the transaction's initial promise.          *)
GrantedAtOnce(o) == 0 \in released[txnOf[o]]

(* acquire() resumes once the promise before its own has resolved.         *)
Granted(o) == (ticket[o] - 1) \in released[txnOf[o]]

(* finish() resumes once the last promise issued has resolved.             *)
Drained(t) == issued[t] \in released[t]

Release(o) == released' = [released EXCEPT ![txnOf[o]] = @ \cup {ticket[o]}]

(* handleNodeError marks a transaction only while it is managed.           *)
MarkRollbackOnly(t) ==
  rollbackOnly' = [rollbackOnly EXCEPT ![t] = IF state[t] \in Managed THEN TRUE ELSE @]

Settled(t) == state[t] = "ended"

------------------------------------------------------------------------------
(* begin-transaction.                                                      *)

BeginConnect(t, b) ==
  /\ beginState[b] = "open"
  /\ state[t] = "none"
  /\ state' = [state EXCEPT ![t] = "connecting"]
  /\ owner' = [owner EXCEPT ![t] = b]
  /\ UNCHANGED <<timer, timedOut, rollbackOnly, want, verdict, nonTxn>>

(* Fault: close is not looked at again after getConnection().              *)
AdmittedAlways(t) == TRUE

(* A connection that arrives after close started is not handed out.        *)
Admitted(t) == beginState[owner[t]] = "open"

BeginConnected(t) ==
  /\ state[t] = "connecting"
  /\ state' = [state EXCEPT ![t] = IF Admitted(t) THEN "active" ELSE "late"]
  /\ timer' = [timer EXCEPT ![t] = Admitted(t) /\ owner[t] \in TimedBegins]
  /\ UNCHANGED <<owner, timedOut, rollbackOnly, want, verdict, nonTxn>>

(* getConnection() failed, or the late connection's close() settled.       *)
BeginDiscard(t) ==
  /\ state[t] \in {"connecting", "late"}
  /\ state' = [state EXCEPT ![t] = "discarded"]
  /\ owner' = [owner EXCEPT ![t] = Nobody]
  /\ UNCHANGED <<timer, timedOut, rollbackOnly, want, verdict, nonTxn>>

(* A message that already carries a transaction moves it to this node and  *)
(* restarts the timer with this node's timeout.                            *)
BeginReuse(t, b) ==
  /\ beginState[b] = "open"
  /\ Admits(t)
  /\ owner' = [owner EXCEPT ![t] = b]
  /\ timer' = [timer EXCEPT ![t] = b \in TimedBegins]
  /\ UNCHANGED <<state, timedOut, rollbackOnly, want, verdict, nonTxn>>

(* A closing begin node reports DB_NODE_CLOSED on a message that may still *)
(* hold its transaction handle.                                            *)
BeginRefuse(t, b) ==
  /\ beginState[b] # "open"
  /\ state[t] \in Managed
  /\ MarkRollbackOnly(t)
  /\ UNCHANGED <<txnCore, nonTxn>>

Timeout(t) ==
  /\ timer[t]
  /\ Finish({t}, "rollback")
  /\ timedOut' = [timedOut EXCEPT ![t] = TRUE]
  /\ UNCHANGED <<owner, rollbackOnly, verdict, nonTxn>>

Tracked(b) == {t \in Txns : owner[t] = b}

BeginClose(b) ==
  /\ beginState[b] = "open"
  /\ beginState' = [beginState EXCEPT ![b] = "closing"]
  /\ Finish(Tracked(b), "rollback")
  /\ UNCHANGED <<owner, timedOut, rollbackOnly, verdict, leaseVars, opVars,
                 nodeState, callVars>>

(* Every finish() and every pending input has settled; whatever is still   *)
(* tracked is dropped with its timer.                                      *)
BeginClosed(b) ==
  /\ beginState[b] = "closing"
  /\ \A t \in Tracked(b) : state[t] \notin Ending \cup {"connecting", "late"}
  /\ beginState' = [beginState EXCEPT ![b] = "closed"]
  /\ owner' = [t \in Txns |-> IF t \in Tracked(b) THEN Nobody ELSE owner[t]]
  /\ timer' = [t \in Txns |-> timer[t] /\ t \notin Tracked(b)]
  /\ UNCHANGED <<state, timedOut, rollbackOnly, want, verdict, leaseVars,
                 opVars, nodeState, callVars>>

------------------------------------------------------------------------------
(* The sql, enqueue and dequeue handlers.                                  *)

(* acquire() up to its await: get() admits active transactions only.       *)
OpStart(o, t) ==
  /\ pc[o] = "idle"
  /\ nodeState[NodeOf[o]] = "open"
  /\ Admits(t)
  /\ issued' = [issued EXCEPT ![t] = @ + 1]
  /\ ticket' = [ticket EXCEPT ![o] = issued[t] + 1]
  /\ txnOf' = [txnOf EXCEPT ![o] = t]
  /\ pc' = [pc EXCEPT ![o] = "waiting"]
  /\ UNCHANGED <<txnVars, released, lifeVars, callVars>>

(* A closing node, a reference to a transaction that is not active, or one *)
(* that belongs to another DB Connection: no promise, no mark.             *)
OpRefused(o, t) ==
  /\ pc[o] = "idle"
  /\ state[t] \notin Unborn
  /\ txnOf' = [txnOf EXCEPT ![o] = t]
  /\ pc' = [pc EXCEPT ![o] = "refused"]
  /\ UNCHANGED <<txnVars, leaseVars, ticket, lifeVars, callVars>>

(* enqueue and dequeue reject an imported recovery option after get() and  *)
(* before acquire(): an error that marks the transaction without a lease.  *)
OpMisconfigured(o, t) ==
  /\ pc[o] = "idle"
  /\ KindOf[o] # "sql"
  /\ nodeState[NodeOf[o]] = "open"
  /\ Admits(t)
  /\ MarkRollbackOnly(t)
  /\ txnOf' = [txnOf EXCEPT ![o] = t]
  /\ pc' = [pc EXCEPT ![o] = "failed"]
  /\ UNCHANGED <<txnCore, leaseVars, ticket, lifeVars, callVars>>

(* A handler that leaves with an error while it holds the lease: stopped() *)
(* when the node is closing, handleNodeError otherwise.  The lease goes in *)
(* the finally block, after the mark.                                      *)
Break(o) ==
  /\ pc' = [pc EXCEPT ![o] =
              IF nodeState[NodeOf[o]] = "open" THEN "failed" ELSE "stopped"]
  /\ MarkRollbackOnly(txnOf[o])
  /\ Release(o)

(* acquire() resumes: a transaction that stopped being active meanwhile    *)
(* gives its promise back; a closing node stops with the lease in hand.    *)
OpGranted(o) ==
  /\ pc[o] = "waiting"
  /\ Granted(o)
  /\ \/ /\ state[txnOf[o]] # "active"
        /\ pc' = [pc EXCEPT ![o] = "refused"]
        /\ Release(o)
        /\ UNCHANGED rollbackOnly
     \/ /\ state[txnOf[o]] = "active"
        /\ nodeState[NodeOf[o]] = "open"
        /\ pc' = [pc EXCEPT ![o] = "prepare"]
        /\ UNCHANGED <<released, rollbackOnly>>
     \/ /\ state[txnOf[o]] = "active"
        /\ nodeState[NodeOf[o]] # "open"
        /\ Break(o)
  /\ UNCHANGED <<txnCore, issued, txnOf, ticket, lifeVars, callVars>>

(* Validation, asynchronous binds and getQueue(), then the statement is    *)
(* sent.  Only sql looks at timedOut again before it executes.             *)
OpPrepared(o) ==
  /\ pc[o] = "prepare"
  /\ \/ /\ nodeState[NodeOf[o]] = "open"
        /\ KindOf[o] = "sql" => ~timedOut[txnOf[o]]
        /\ pc' = [pc EXCEPT ![o] = "executing"]
        /\ UNCHANGED <<released, rollbackOnly>>
     \/ /\ nodeState[NodeOf[o]] = "open"
        /\ KindOf[o] = "sql" /\ timedOut[txnOf[o]]
        /\ pc' = [pc EXCEPT ![o] = "refused"]
        /\ Release(o)
        /\ UNCHANGED rollbackOnly
     \/ Break(o)
  /\ UNCHANGED <<txnCore, issued, txnOf, ticket, lifeVars, callVars>>

(* The statement returned to an open node: its result is sent on.          *)
OpExecuted(o) ==
  /\ pc[o] = "executing"
  /\ nodeState[NodeOf[o]] = "open"
  /\ pc' = [pc EXCEPT ![o] = "acked"]
  /\ Release(o)
  /\ UNCHANGED <<txnVars, issued, txnOf, ticket, lifeVars, callVars>>

(* The statement threw, or it returned to a node that is closing.          *)
OpFailed(o) ==
  /\ pc[o] = "executing"
  /\ Break(o)
  /\ UNCHANGED <<txnCore, issued, txnOf, ticket, lifeVars, callVars>>

(* Fault: the commit is awaited with the lease still held.                 *)
OpEmptyKeepsLease(o) ==
  /\ pc[o] = "executing"
  /\ KindOf[o] = "dequeue"
  /\ nodeState[NodeOf[o]] = "open"
  /\ pc' = [pc EXCEPT ![o] = "emptied"]
  /\ Finish({txnOf[o]}, "commit")
  /\ UNCHANGED <<owner, timedOut, rollbackOnly, verdict, leaseVars, txnOf,
                 ticket, lifeVars, callVars>>

(* An empty dequeue gives its lease back, then asks for a commit.          *)
OpEmpty(o) ==
  /\ pc[o] = "executing"
  /\ KindOf[o] = "dequeue"
  /\ nodeState[NodeOf[o]] = "open"
  /\ pc' = [pc EXCEPT ![o] = "emptied"]
  /\ Release(o)
  /\ Finish({txnOf[o]}, "commit")
  /\ UNCHANGED <<owner, timedOut, rollbackOnly, verdict, issued, txnOf,
                 ticket, lifeVars, callVars>>

OpEmptied(o) ==
  /\ pc[o] = "emptied"
  /\ Settled(txnOf[o])
  /\ pc' = [pc EXCEPT ![o] =
              IF failure[txnOf[o]] THEN "emptyFailed" ELSE "emptyOk"]
  /\ UNCHANGED <<txnVars, leaseVars, txnOf, ticket, lifeVars, callVars>>

NodeClose(n) ==
  /\ nodeState[n] = "open"
  /\ nodeState' = [nodeState EXCEPT ![n] = "closing"]
  /\ UNCHANGED <<txnVars, leaseVars, opVars, beginState, callVars>>

(* close calls done() once every pending handler has settled.              *)
Quiescent(n) == \A o \in Ops : NodeOf[o] = n => pc[o] \in {"idle"} \cup OpDone

NodeClosed(n) ==
  /\ nodeState[n] = "closing"
  /\ Quiescent(n)
  /\ nodeState' = [nodeState EXCEPT ![n] = "closed"]
  /\ UNCHANGED <<txnVars, leaseVars, opVars, beginState, callVars>>

------------------------------------------------------------------------------
(* finish() after its first await.                                         *)

Decide(t) ==
  /\ state[t] = "draining"
  /\ Drained(t)
  /\ state' = [state EXCEPT ![t] =
       IF want[t] = "commit" /\ ~rollbackOnly[t] THEN "committing" ELSE "rollingBack"]
  /\ failure' = [failure EXCEPT ![t] = want[t] = "commit" /\ rollbackOnly[t]]
  /\ UNCHANGED <<owner, timer, timedOut, rollbackOnly, want, outcome, db,
                 nonTxn>>

CommitReturns(t) ==
  /\ state[t] = "committing"
  /\ state' = [state EXCEPT ![t] = "closing"]
  /\ outcome' = [outcome EXCEPT ![t] = "committed"]
  /\ db' = [db EXCEPT ![t] = "committed"]
  /\ UNCHANGED <<owner, timer, timedOut, rollbackOnly, want, failure, nonTxn>>

(* commit() throws: the answer may have been lost after the database       *)
(* committed.                                                              *)
CommitThrows(t) ==
  /\ state[t] = "committing"
  /\ state' = [state EXCEPT ![t] = "recovering"]
  /\ failure' = [failure EXCEPT ![t] = TRUE]
  /\ \E made \in {"open", "committed"} : db' = [db EXCEPT ![t] = made]
  /\ UNCHANGED <<owner, timer, timedOut, rollbackOnly, want, outcome, nonTxn>>

(* What rollback() does to work that is still open, whether it returns or  *)
(* throws.                                                                 *)
Undo(t, made) == db' = [db EXCEPT ![t] = IF @ = "open" THEN made ELSE @]

(* The rollback after a failed commit: its own result is discarded.        *)
Recover(t) ==
  /\ state[t] = "recovering"
  /\ state' = [state EXCEPT ![t] = "closing"]
  /\ \E made \in {"open", "rolledBack"} : Undo(t, made)
  /\ UNCHANGED <<owner, timer, timedOut, rollbackOnly, want, outcome,
                 failure, nonTxn>>

RollbackReturns(t) ==
  /\ state[t] = "rollingBack"
  /\ state' = [state EXCEPT ![t] = "closing"]
  /\ outcome' = [outcome EXCEPT ![t] = "rolledBack"]
  /\ Undo(t, "rolledBack")
  /\ UNCHANGED <<owner, timer, timedOut, rollbackOnly, want, failure, nonTxn>>

RollbackThrows(t) ==
  /\ state[t] = "rollingBack"
  /\ state' = [state EXCEPT ![t] = "closing"]
  /\ failure' = [failure EXCEPT ![t] = TRUE]
  /\ \E made \in {"open", "rolledBack"} : Undo(t, made)
  /\ UNCHANGED <<owner, timer, timedOut, rollbackOnly, want, outcome, nonTxn>>

(* close() returns (the session's open work is rolled back) or throws (it  *)
(* stays open until the database notices); the registry forgets the        *)
(* transaction and its begin node untracks it either way.                  *)
Close(t) ==
  /\ state[t] = "closing"
  /\ state' = [state EXCEPT ![t] = "ended"]
  /\ owner' = [owner EXCEPT ![t] = Nobody]
  /\ timer' = [timer EXCEPT ![t] = FALSE]
  /\ \/ Undo(t, "rolledBack") /\ UNCHANGED failure
     \/ failure' = [failure EXCEPT ![t] = TRUE] /\ UNCHANGED db
  /\ UNCHANGED <<timedOut, rollbackOnly, want, outcome, nonTxn>>

------------------------------------------------------------------------------
(* end-transaction and finalize().                                         *)

ActionOf(c) == IF CallKind[c] = "rollback" THEN "rollback" ELSE "commit"

(* end-transaction settles the transaction of its message if get() accepts *)
(* it; finalize() settles a set of captured transactions, whatever has     *)
(* become of them since they were captured.                                *)
CallStart(c, S) ==
  /\ reply[c] = "idle"
  /\ S # {}
  /\ \/ CallKind[c] # "finalize" /\ \E t \in Txns : S = {t} /\ Admits(t)
     \/ CallKind[c] = "finalize" /\ \A t \in S : state[t] \notin Unborn
  /\ target' = [target EXCEPT ![c] = S]
  /\ reply' = [reply EXCEPT ![c] = "waiting"]
  /\ Finish(S, ActionOf(c))
  /\ UNCHANGED <<owner, timedOut, rollbackOnly, verdict, leaseVars, opVars,
                 lifeVars>>

CallRefused(c, t) ==
  /\ reply[c] = "idle"
  /\ CallKind[c] # "finalize"
  /\ state[t] \in Ending \cup {"ended"}
  /\ reply' = [reply EXCEPT ![c] = "refused"]
  /\ UNCHANGED <<txnVars, leaseVars, opVars, lifeVars, target>>

(* Fault: finalize() only asks whether the completion was rejected.        *)
CallUnchecked(c) == \A t \in target[c] : ~failure[t]

(* end-transaction reports what its own finish() call reports; finalize()  *)
(* also counts as failed a transaction somebody else rolled back.          *)
CallSucceeded(c) ==
  \A t \in target[c] :
    /\ ~failure[t]
    /\ CallKind[c] = "finalize" => outcome[t] = "committed"

CallAnswered(c) ==
  /\ reply[c] = "waiting"
  /\ \A t \in target[c] : Settled(t)
  /\ reply' = [reply EXCEPT ![c] = IF CallSucceeded(c) THEN "ok" ELSE "error"]
  /\ UNCHANGED <<txnVars, leaseVars, opVars, lifeVars, target>>

------------------------------------------------------------------------------
BeginStep(t) ==
  \/ BeginConnected(t)
  \/ BeginDiscard(t)

SettleStep(t) ==
  \/ Decide(t)
  \/ CommitReturns(t)
  \/ CommitThrows(t)
  \/ Recover(t)
  \/ RollbackReturns(t)
  \/ RollbackThrows(t)
  \/ Close(t)

OpStep(o) ==
  \/ OpGranted(o)
  \/ OpPrepared(o)
  \/ OpExecuted(o)
  \/ OpFailed(o)
  \/ OpEmpty(o)
  \/ OpEmptied(o)

Next ==
  \/ \E t \in Txns : BeginStep(t) \/ SettleStep(t) \/ Timeout(t)
  \/ \E t \in Txns, b \in Begins :
       BeginConnect(t, b) \/ BeginReuse(t, b) \/ BeginRefuse(t, b)
  \/ \E b \in Begins : BeginClose(b) \/ BeginClosed(b)
  \/ \E o \in Ops : OpStep(o)
  \/ \E o \in Ops, t \in Txns :
       OpStart(o, t) \/ OpRefused(o, t) \/ OpMisconfigured(o, t)
  \/ \E n \in Nodes : NodeClose(n) \/ NodeClosed(n)
  \/ \E c \in Callers, S \in SUBSET Txns : CallStart(c, S)
  \/ \E c \in Callers, t \in Txns : CallRefused(c, t)
  \/ \E c \in Callers : CallAnswered(c)

Spec == Init /\ [][Next]_vars

(* Driver calls return (the node documentation asks for finite database    *)
(* limits), promise callbacks run, and a closing node's close handler      *)
(* resumes.  Nothing makes a flow send messages or a timer fire.           *)
Fairness ==
  /\ \A t \in Txns : WF_vars(BeginStep(t)) /\ WF_vars(SettleStep(t))
  /\ \A o \in Ops : WF_vars(OpStep(o))
  /\ \A b \in Begins : WF_vars(BeginClosed(b))
  /\ \A n \in Nodes : WF_vars(NodeClosed(n))
  /\ \A c \in Callers : WF_vars(CallAnswered(c))

FairSpec == Spec /\ Fairness

------------------------------------------------------------------------------
(* Safety.                                                                 *)

(* DB operations of one transaction run one at a time: the promise chain   *)
(* of acquire() lets no two handlers use its connection together.          *)
OneAtATime ==
  \A o1, o2 \in Ops :
    pc[o1] \in Leased /\ pc[o2] \in Leased /\ txnOf[o1] = txnOf[o2] => o1 = o2

(* From the moment finish() commits, rolls back or closes, no handler is   *)
(* working on the connection, whoever asked for the end and whenever.      *)
QuietWhenSettling ==
  \A o \in Ops :
    pc[o] \in Leased => /\ state[txnOf[o]] \in {"active", "draining"}
                        /\ db[txnOf[o]] = "open"

(* Work that ended in an error, or was cut short by a node's close, is     *)
(* never part of a committed transaction.                                  *)
FailedWorkNeverCommits ==
  \A o \in Ops : pc[o] \in Broken => db[txnOf[o]] # "committed"

(* A caller told that the transactions are settled as it asked can rely on *)
(* it, although a timeout, a close or another caller may have got to       *)
(* finish() first.                                                         *)
RepliesAreTrue ==
  \A c \in Callers : reply[c] = "ok" =>
    \A t \in target[c] :
      db[t] = IF ActionOf(c) = "commit" THEN "committed" ELSE "rolledBack"

(* finish() reports an outcome only when the database is known to have     *)
(* reached it; a commit that threw stays unknown.                          *)
OutcomeIsTrue == \A t \in Txns : outcome[t] # "unknown" => db[t] = outcome[t]

(* A transaction whose timer fired is not committed by anyone who was      *)
(* waiting to do so.                                                       *)
TimeoutNeverCommits == \A t \in Txns : timedOut[t] => db[t] # "committed"

(* Every open connection has a begin node that has not finished closing,   *)
(* also after reuse by another begin node and for late connections: a      *)
(* redeploy leaves no session behind.                                      *)
NoOrphan ==
  \A t \in Txns : state[t] \in Managed \cup {"connecting", "late"} =>
    owner[t] \in Begins /\ beginState[owner[t]] # "closed"

(* A node's close completes only when none of its handlers still holds or  *)
(* waits for a lease, or has an empty dequeue's commit outstanding.        *)
CloseWaitsForWork ==
  \A o \in Ops : nodeState[NodeOf[o]] = "closed" =>
    pc[o] \notin Leased \cup {"waiting", "emptied"}

(* One user at a time: handlers among themselves, and the settlement after *)
(* all of them.                                                            *)
ConnectionIsExclusive == OneAtATime /\ QuietWhenSettling

(* Neither failed work nor a transaction that timed out is committed, by   *)
(* whichever of its users finishes first.                                  *)
BrokenNeverCommits == FailedWorkNeverCommits /\ TimeoutNeverCommits

(* What finish() and finalize() report is what the database did.           *)
ReportsAreTrue == OutcomeIsTrue /\ RepliesAreTrue

(* The close of a node leaves neither a connection nor a handler behind.   *)
NothingIsLeftBehind == NoOrphan /\ CloseWaitsForWork

(* What the database made of each transaction, the operations reported as  *)
(* done under it, and whether one of them failed.                          *)
Reported == {"acked", "emptied", "emptyOk", "emptyFailed"}

Phase == [t \in Txns |-> IF state[t] \in Unborn THEN "unborn" ELSE db[t]]

Members ==
  [t \in Txns |-> {o \in Ops : txnOf[o] = t /\ pc[o] \in Reported}]

Poisoned ==
  [t \in Txns |-> \E o \in Ops : txnOf[o] = t /\ pc[o] \in Broken]

Atomic == INSTANCE AtomicTransaction WITH
  phase <- Phase, members <- Members, poisoned <- Poisoned

(* The registry and its users implement AtomicTransaction: a transaction   *)
(* is settled once, with only the work reported before, and never          *)
(* committed with failed work (lib/db-transaction.js finish).              *)
ImplementsAtomic == Atomic!ASpec

(* What finalize() reports of a transaction that has ended, and what other *)
(* packages see of each.                                                   *)
ResultOf(t) ==
  IF ~failure[t] /\ outcome[t] = "committed" THEN "committed" ELSE "failed"

Shown ==
  [t \in Txns |->
     IF state[t] \in Unborn THEN "unborn"
     ELSE IF state[t] \in Ending THEN "ending"
     ELSE IF state[t] = "ended" THEN ResultOf(t) ELSE "active"]

View == INSTANCE RegistryView WITH txn <- Shown

(* What other packages see of a transaction goes from active to ending to  *)
(* one outcome that no later failure, mark or call changes.                *)
ImplementsView == View!VSpec

(* The registry keeps what it promises the flow and what it promises       *)
(* other packages (lib/db-transaction.js finish, capture, finalize).       *)
ImplementsItsContracts == ImplementsAtomic /\ ImplementsView

(* The documentation of the dequeue node: an empty managed result commits  *)
(* the earlier work.  The code reports success whenever the completion it  *)
(* shares was reached without an error, and that may be a rollback.        *)
EmptyDequeueCommits ==
  \A o \in Ops : pc[o] = "emptyOk" => db[txnOf[o]] = "committed"

------------------------------------------------------------------------------
(* Liveness.                                                               *)

(* A transaction somebody finishes gives its connection back, however many *)
(* handlers were queued on it; the close of every node completes, so a     *)
(* redeploy does not hang; every message that reached a node and every     *)
(* finalize() call is answered.  None of these happens twice to the same   *)
(* transaction, node or message, so that "each leads to its end" is: in    *)
(* the end none of them is under way.                                      *)
EverythingSettles ==
  <>[](/\ \A t \in Txns : state[t] \notin Ending
       /\ \A b \in Begins : beginState[b] # "closing"
       /\ \A n \in Nodes : nodeState[n] # "closing"
       /\ \A o \in Ops : pc[o] \in OpDone \cup {"idle"}
       /\ \A c \in Callers : reply[c] # "waiting")
==============================================================================
