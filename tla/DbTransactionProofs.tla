------------------------- MODULE DbTransactionProofs -------------------------
(***************************************************************************)
(* Proofs about DbTransaction, for any number of transactions, handlers,   *)
(* nodes and callers.  First the lease chain; then what the registry       *)
(* promises about the end of a transaction: what the database made of it,  *)
(* who is told what, and that no connection is left without a begin node;  *)
(* and that the registry and its users implement AtomicTransaction, and    *)
(* the registry RegistryView.                                              *)
(***************************************************************************)
EXTENDS DbTransaction, TLAPS

(* finish() keeps the types of what it assigns.                            *)
LEMMA FinishTypes ==
  ASSUME TypeOK, NEW S \in SUBSET Txns, NEW action \in {"commit", "rollback"},
         Finish(S, action)
  PROVE  /\ state' \in [Txns -> States]
         /\ want' \in [Txns -> {"none", "commit", "rollback"}]
         /\ timer' \in [Txns -> BOOLEAN]
  BY DEF TypeOK, Finish, States, Managed, Ending

(* Resolving a promise keeps the set of resolved promises a set of numbers. *)
LEMMA ReleaseTypes ==
  ASSUME TypeOK, NEW o \in Ops, Release(o)
  PROVE  released' \in [Txns -> SUBSET Nat]
  <1>1. \A t \in Txns : released[t] \cup {ticket[o]} \in SUBSET Nat
    <2>1. ticket[o] \in Nat
      BY DEF TypeOK
    <2>2. QED
      BY <2>1 DEF TypeOK
  <1>2. QED
    BY <1>1 DEF TypeOK, Release

(* An error exit of a handler keeps the types of what it assigns.          *)
LEMMA BreakTypes ==
  ASSUME TypeOK, NEW o \in Ops, Break(o)
  PROVE  /\ pc' \in [Ops -> Places]
         /\ rollbackOnly' \in [Txns -> BOOLEAN]
         /\ released' \in [Txns -> SUBSET Nat]
  BY ReleaseTypes DEF TypeOK, Break, MarkRollbackOnly, Places, OpDone, Broken

(* A step of finish() after its first await keeps the types.               *)
LEMMA SettleTypes ==
  ASSUME TypeOK, NEW t \in Txns, SettleStep(t)
  PROVE  TypeOK'
  <1> USE DEF TypeOK, States, Managed, Ending, Settling, verdict, txnCore, nonTxn,
              leaseVars, opVars, lifeVars, callVars, Undo
  <1>1. CASE Decide(t)
    BY <1>1 DEF Decide
  <1>2. CASE CommitReturns(t)
    BY <1>2 DEF CommitReturns
  <1>3. CASE CommitThrows(t)
    BY <1>3 DEF CommitThrows
  <1>4. CASE Recover(t)
    BY <1>4 DEF Recover
  <1>5. CASE RollbackReturns(t)
    BY <1>5 DEF RollbackReturns
  <1>6. CASE RollbackThrows(t)
    BY <1>6 DEF RollbackThrows
  <1>7. CASE Close(t)
    BY <1>7 DEF Close
  <1>8. QED
    BY <1>1, <1>2, <1>3, <1>4, <1>5, <1>6, <1>7 DEF SettleStep

(* A step of a handler keeps the types.                                    *)
LEMMA OpTypes ==
  ASSUME TypeOK, NEW o \in Ops, OpStep(o)
  PROVE  TypeOK'
  <1> USE DEF txnCore, txnVars, verdict, leaseVars, opVars, lifeVars, callVars
  <1>1. CASE OpGranted(o)
    BY <1>1, BreakTypes, ReleaseTypes DEF OpGranted, TypeOK, Places, OpDone, Leased
  <1>2. CASE OpPrepared(o)
    BY <1>2, BreakTypes, ReleaseTypes DEF OpPrepared, TypeOK, Places, OpDone, Leased
  <1>3. CASE OpExecuted(o)
    BY <1>3, ReleaseTypes DEF OpExecuted, TypeOK, Places, OpDone
  <1>4. CASE OpFailed(o)
    BY <1>4, BreakTypes DEF OpFailed, TypeOK
  <1>5. CASE OpEmpty(o)
    <2>1. {txnOf[o]} \cap Txns \in SUBSET Txns
      OBVIOUS
    <2>2. Finish({txnOf[o]} \cap Txns, "commit")
      BY <1>5 DEF OpEmpty, Finish, TypeOK
    <2>3. QED
      BY <1>5, <2>1, <2>2, FinishTypes, ReleaseTypes DEF OpEmpty, TypeOK, Places
  <1>6. CASE OpEmptied(o)
    BY <1>6 DEF OpEmptied, TypeOK, Places, OpDone
  <1>7. QED
    BY <1>1, <1>2, <1>3, <1>4, <1>5, <1>6 DEF OpStep

(* Every step keeps the types.                                             *)
LEMMA TypeStep ==
  ASSUME TypeOK, [Next]_vars
  PROVE  TypeOK'
  <1> USE DEF TypeOK, txnCore, txnVars, verdict, leaseVars, opVars, lifeVars, callVars,
              nonTxn
  <1>1. ASSUME NEW t \in Txns, BeginStep(t)
        PROVE  TypeOK'
    <2>1. CASE BeginConnected(t)
      BY <2>1 DEF BeginConnected, States, Unborn, Managed
    <2>2. CASE BeginDiscard(t)
      BY <2>2 DEF BeginDiscard, States, Unborn
    <2>3. QED
      BY <1>1, <2>1, <2>2 DEF BeginStep
  <1>2. ASSUME NEW t \in Txns, Timeout(t)
        PROVE  TypeOK'
    BY <1>2, FinishTypes DEF Timeout
  <1>3. ASSUME NEW t \in Txns, NEW b \in Begins, BeginConnect(t, b)
        PROVE  TypeOK'
    BY <1>3 DEF BeginConnect, States, Unborn
  <1>4. ASSUME NEW t \in Txns, NEW b \in Begins, BeginReuse(t, b)
        PROVE  TypeOK'
    BY <1>4 DEF BeginReuse
  <1>5. ASSUME NEW t \in Txns, NEW b \in Begins, BeginRefuse(t, b)
        PROVE  TypeOK'
    BY <1>5 DEF BeginRefuse, MarkRollbackOnly
  <1>6. ASSUME NEW b \in Begins, BeginClose(b)
        PROVE  TypeOK'
    <2>1. Tracked(b) \in SUBSET Txns
      BY DEF Tracked
    <2>2. QED
      BY <1>6, <2>1, FinishTypes DEF BeginClose, Lifecycle
  <1>7. ASSUME NEW b \in Begins, BeginClosed(b)
        PROVE  TypeOK'
    BY <1>7 DEF BeginClosed, Lifecycle
  <1>8. ASSUME NEW o \in Ops, NEW t \in Txns, OpStart(o, t)
        PROVE  TypeOK'
    BY <1>8 DEF OpStart, Places
  <1>9. ASSUME NEW o \in Ops, NEW t \in Txns, OpRefused(o, t)
        PROVE  TypeOK'
    BY <1>9 DEF OpRefused, Places, OpDone
  <1>10. ASSUME NEW o \in Ops, NEW t \in Txns, OpMisconfigured(o, t)
         PROVE  TypeOK'
    BY <1>10 DEF OpMisconfigured, MarkRollbackOnly, Places, OpDone, Broken
  <1>11. ASSUME NEW n \in Nodes, NodeClose(n) \/ NodeClosed(n)
         PROVE  TypeOK'
    BY <1>11 DEF NodeClose, NodeClosed, Lifecycle
  <1>12. ASSUME NEW c \in Callers, NEW S \in SUBSET Txns, CallStart(c, S)
         PROVE  TypeOK'
    <2>1. ActionOf(c) \in {"commit", "rollback"}
      BY DEF ActionOf
    <2>2. QED
      BY <1>12, <2>1, FinishTypes DEF CallStart
  <1>13. ASSUME NEW c \in Callers, NEW t \in Txns, CallRefused(c, t)
         PROVE  TypeOK'
    BY <1>13 DEF CallRefused
  <1>14. ASSUME NEW c \in Callers, CallAnswered(c)
         PROVE  TypeOK'
    BY <1>14 DEF CallAnswered
  <1>15. CASE UNCHANGED vars
    BY <1>15 DEF vars
  <1>16. QED
    BY <1>1, <1>2, <1>3, <1>4, <1>5, <1>6, <1>7, <1>8, <1>9, <1>10, <1>11, <1>12,
       <1>13, <1>14, <1>15, SettleTypes, OpTypes DEF Next

(* The registry, the nodes and their callers stay within their types.      *)
THEOREM TypeCorrect == Spec => []TypeOK
  <1>1. Init => TypeOK
    BY DEF Init, TypeOK, States, Unborn, Places, Lifecycle
  <1>2. TypeOK /\ [Next]_vars => TypeOK'
    BY TypeStep
  <1>3. QED
    BY <1>1, <1>2, PTL DEF Spec

------------------------------------------------------------------------------
(* The promise chain.                                                      *)

Queued == {"waiting"} \cup Leased

(* Promises resolve in the order in which they were made.                  *)
PromisesInOrder ==
  \A t \in Txns :
    /\ released[t] \subseteq 0 .. issued[t]
    /\ \A k \in released[t] : \A j \in 0 .. k : j \in released[t]

(* A handler past its first await or before it owns one promise, which it  *)
(* has not resolved, of a transaction that has been opened.                *)
QueuedOwnsPromise ==
  \A o \in Ops : pc[o] \in Queued =>
    /\ txnOf[o] \in Txns
    /\ ticket[o] \in 1 .. issued[txnOf[o]]
    /\ ticket[o] \notin released[txnOf[o]]

(* No promise has two owners.                                              *)
PromiseHasOneOwner ==
  \A o1, o2 \in Ops :
    pc[o1] \in Queued /\ pc[o2] \in Queued /\ txnOf[o1] = txnOf[o2] /\ o1 # o2
      => ticket[o1] # ticket[o2]

(* A leased handler's predecessor has resolved.                            *)
LeasedAfterPredecessor ==
  \A o \in Ops : pc[o] \in Leased => (ticket[o] - 1) \in released[txnOf[o]]

(* finish() passes its first await only when all promises have resolved,   *)
(* and no promise is made for a transaction that is not active.            *)
SettlingIsDrained ==
  \A t \in Txns :
    /\ state[t] \in Settling \cup {"ended"} => issued[t] \in released[t]
    /\ state[t] \in Unborn => issued[t] = 0

LeaseInv ==
  /\ PromisesInOrder
  /\ QueuedOwnsPromise
  /\ PromiseHasOneOwner
  /\ LeasedAfterPredecessor
  /\ SettlingIsDrained

(* Two leased handlers of one transaction would each be the other's        *)
(* unresolved predecessor.                                                 *)
LEMMA LeaseInvOneAtATime == TypeOK /\ LeaseInv => OneAtATime
  <1> SUFFICES ASSUME TypeOK, LeaseInv, NEW o1 \in Ops, NEW o2 \in Ops,
                      pc[o1] \in Leased, pc[o2] \in Leased, txnOf[o1] = txnOf[o2],
                      o1 # o2
               PROVE  FALSE
    BY DEF OneAtATime
  <1> USE DEF LeaseInv, Queued
  <1>1. /\ ticket[o1] \in Nat /\ ticket[o2] \in Nat
        /\ ticket[o1] >= 1 /\ ticket[o2] >= 1
        /\ ticket[o1] # ticket[o2]
        /\ txnOf[o1] \in Txns
    BY DEF TypeOK, QueuedOwnsPromise, PromiseHasOneOwner
  <1>2. ASSUME NEW p \in Ops, NEW q \in Ops, pc[p] \in Leased, pc[q] \in Leased,
               txnOf[p] = txnOf[q], ticket[p] < ticket[q],
               ticket[p] \in Nat, ticket[q] \in Nat, txnOf[q] \in Txns
        PROVE  FALSE
    <2>1. ticket[q] - 1 \in released[txnOf[q]]
      BY <1>2 DEF LeasedAfterPredecessor
    <2>2. ticket[p] \in 0 .. (ticket[q] - 1)
      BY <1>2
    <2>3. ticket[p] \in released[txnOf[q]]
      BY <1>2, <2>1, <2>2 DEF PromisesInOrder
    <2>4. ticket[p] \notin released[txnOf[p]]
      BY <1>2 DEF QueuedOwnsPromise
    <2>5. QED
      BY <1>2, <2>3, <2>4
  <1>3. CASE ticket[o1] < ticket[o2]
    BY <1>1, <1>2, <1>3
  <1>4. CASE ticket[o2] < ticket[o1]
    BY <1>1, <1>2, <1>4
  <1>5. QED
    BY <1>1, <1>3, <1>4

(* A handler with an unresolved promise keeps finish() at its first await. *)
LEMMA QueuedIsNotSettling ==
  ASSUME TypeOK, LeaseInv, NEW o \in Ops, pc[o] \in Queued
  PROVE  /\ txnOf[o] \in Txns
         /\ state[txnOf[o]] \in {"active", "draining"}
  <1> DEFINE t == txnOf[o]
  <1>1. /\ t \in Txns
        /\ ticket[o] \in 1 .. issued[t]
        /\ ticket[o] \notin released[t]
        /\ issued[t] \in Nat
    BY DEF LeaseInv, QueuedOwnsPromise, TypeOK
  <1>2. issued[t] \notin released[t]
    <2>1. ticket[o] \in 0 .. issued[t]
      BY <1>1
    <2>2. QED
      BY <1>1, <2>1 DEF LeaseInv, PromisesInOrder
  <1>3. issued[t] # 0
    BY <1>1
  <1>4. state[t] \notin Settling \cup {"ended"} \cup Unborn
    BY <1>1, <1>2, <1>3 DEF LeaseInv, SettlingIsDrained
  <1>5. QED
    BY <1>1, <1>4 DEF TypeOK, States, Managed, Ending

(* How a step may move the transactions without disturbing the chain: into *)
(* settling only when drained, and never back to before the connection.    *)
StateMoves ==
  \A t \in Txns :
    /\ state'[t] \in Settling \cup {"ended"} =>
         state[t] \in Settling \cup {"ended"} \/ issued[t] \in released[t]
    /\ state'[t] \in Unborn => state[t] \in Unborn

(* A step that makes and resolves no promise keeps the chain when a        *)
(* handler takes its lease only after its predecessor.                     *)
LEMMA LeaseKept ==
  ASSUME LeaseInv, UNCHANGED leaseVars, StateMoves,
         \A o \in Ops : pc'[o] \in Queued =>
           pc[o] \in Queued /\ txnOf'[o] = txnOf[o] /\ ticket'[o] = ticket[o],
         \A o \in Ops : pc'[o] \in Leased => pc[o] \in Leased \/ Granted(o)
  PROVE  LeaseInv'
  <1> USE DEF LeaseInv, leaseVars
  <1>1. PromisesInOrder'
    BY DEF PromisesInOrder
  <1>2. QueuedOwnsPromise'
    BY DEF QueuedOwnsPromise
  <1>3. PromiseHasOneOwner'
    BY DEF PromiseHasOneOwner
  <1>4. LeasedAfterPredecessor'
    BY DEF LeasedAfterPredecessor, Granted, Queued
  <1>5. SettlingIsDrained'
    BY DEF SettlingIsDrained, StateMoves
  <1>6. QED
    BY <1>1, <1>2, <1>3, <1>4, <1>5

(* A handler whose predecessor has resolved may resolve its own promise    *)
(* and leave.                                                              *)
LEMMA LeaseReleased ==
  ASSUME TypeOK, LeaseInv, NEW o \in Ops, pc[o] \in Queued, Granted(o), Release(o),
         UNCHANGED <<issued, txnOf, ticket>>, StateMoves,
         pc'[o] \notin Queued,
         \A p \in Ops : p # o => pc'[p] = pc[p]
  PROVE  LeaseInv'
  <1> DEFINE t == txnOf[o]
  <1> USE DEF LeaseInv
  <1>1. /\ t \in Txns
        /\ ticket[o] \in 1 .. issued[t]
        /\ issued[t] \in Nat
        /\ (ticket[o] - 1) \in released[t]
        /\ released' = [released EXCEPT ![t] = @ \cup {ticket[o]}]
        /\ released \in [Txns -> SUBSET Nat]
    BY DEF QueuedOwnsPromise, Granted, Release, TypeOK
  <1>2. \A u \in Txns : u # t => released'[u] = released[u]
    BY <1>1
  <1>3. released'[t] = released[t] \cup {ticket[o]}
    BY <1>1
  <1>4. PromisesInOrder'
    <2>1. released'[t] \subseteq 0 .. issued[t]
      BY <1>1, <1>3 DEF PromisesInOrder
    <2>2. ASSUME NEW k \in released'[t], NEW j \in 0 .. k
          PROVE  j \in released'[t]
      <3>1. CASE k \in released[t]
        BY <1>1, <1>3, <2>2, <3>1 DEF PromisesInOrder
      <3>2. CASE k = ticket[o]
        <4>1. j = ticket[o] \/ j \in 0 .. (ticket[o] - 1)
          BY <1>1, <2>2, <3>2
        <4>2. QED
          BY <1>1, <1>3, <4>1 DEF PromisesInOrder
      <3>3. QED
        BY <1>3, <2>2, <3>1, <3>2
    <2>3. QED
      BY <1>2, <2>1, <2>2 DEF PromisesInOrder
  <1>5. QueuedOwnsPromise'
    <2> SUFFICES ASSUME NEW p \in Ops, pc'[p] \in Queued
                 PROVE  /\ txnOf[p] \in Txns
                        /\ ticket[p] \in 1 .. issued[txnOf[p]]
                        /\ ticket[p] \notin released'[txnOf[p]]
      BY DEF QueuedOwnsPromise
    <2>1. p # o /\ pc[p] \in Queued
      OBVIOUS
    <2>2. /\ txnOf[p] \in Txns
          /\ ticket[p] \in 1 .. issued[txnOf[p]]
          /\ ticket[p] \notin released[txnOf[p]]
      BY <2>1 DEF QueuedOwnsPromise
    <2>3. txnOf[p] = t => ticket[p] # ticket[o]
      BY <2>1 DEF PromiseHasOneOwner
    <2>4. QED
      BY <1>2, <1>3, <2>2, <2>3
  <1>6. PromiseHasOneOwner'
    BY DEF PromiseHasOneOwner
  <1>7. LeasedAfterPredecessor'
    <2> SUFFICES ASSUME NEW p \in Ops, pc'[p] \in Leased
                 PROVE  (ticket[p] - 1) \in released'[txnOf[p]]
      BY DEF LeasedAfterPredecessor
    <2>1. pc[p] \in Leased
      BY DEF Queued
    <2>2. txnOf[p] \in Txns /\ (ticket[p] - 1) \in released[txnOf[p]]
      BY <2>1 DEF LeasedAfterPredecessor, QueuedOwnsPromise, Queued
    <2>3. QED
      BY <1>2, <1>3, <2>2
  <1>8. SettlingIsDrained'
    <2> SUFFICES ASSUME NEW u \in Txns
                 PROVE  /\ state'[u] \in Settling \cup {"ended"} => issued[u] \in released'[u]
                        /\ state'[u] \in Unborn => issued[u] = 0
      BY DEF SettlingIsDrained
    <2>1. released[u] \subseteq released'[u]
      BY <1>2, <1>3
    <2>2. QED
      BY <2>1 DEF SettlingIsDrained, StateMoves
  <1>9. QED
    BY <1>4, <1>5, <1>6, <1>7, <1>8

(* acquire() adds a promise after all the others.                          *)
LEMMA LeaseStarted ==
  ASSUME TypeOK, LeaseInv, NEW o \in Ops, NEW t \in Txns, OpStart(o, t)
  PROVE  LeaseInv'
  <1> USE DEF LeaseInv
  <1>1. /\ state[t] = "active"
        /\ issued' = [issued EXCEPT ![t] = @ + 1]
        /\ ticket' = [ticket EXCEPT ![o] = issued[t] + 1]
        /\ txnOf' = [txnOf EXCEPT ![o] = t]
        /\ pc' = [pc EXCEPT ![o] = "waiting"]
        /\ UNCHANGED <<state, released>>
        /\ pc[o] = "idle"
    BY DEF OpStart, Admits, txnVars, txnCore
  <1>2. /\ issued \in [Txns -> Nat] /\ ticket \in [Ops -> Nat]
        /\ released \in [Txns -> SUBSET Nat]
        /\ pc \in [Ops -> Places] /\ txnOf \in [Ops -> Txns \cup {Nobody}]
    BY DEF TypeOK
  <1>3. /\ pc'[o] = "waiting" /\ txnOf'[o] = t /\ ticket'[o] = issued[t] + 1
        /\ issued'[t] = issued[t] + 1
        /\ \A p \in Ops : p # o =>
              pc'[p] = pc[p] /\ txnOf'[p] = txnOf[p] /\ ticket'[p] = ticket[p]
        /\ \A u \in Txns : u # t => issued'[u] = issued[u]
    BY <1>1, <1>2
  <1>4. PromisesInOrder'
    <2>1. \A u \in Txns : 0 .. issued[u] \subseteq 0 .. issued'[u]
      BY <1>2, <1>3
    <2>2. QED
      BY <1>1, <2>1 DEF PromisesInOrder
  <1>5. QueuedOwnsPromise'
    <2> SUFFICES ASSUME NEW p \in Ops, pc'[p] \in Queued
                 PROVE  /\ txnOf'[p] \in Txns
                        /\ ticket'[p] \in 1 .. issued'[txnOf'[p]]
                        /\ ticket'[p] \notin released[txnOf'[p]]
      BY <1>1 DEF QueuedOwnsPromise
    <2>1. CASE p = o
      <3>1. issued[t] + 1 \notin released[t]
        BY <1>2 DEF PromisesInOrder
      <3>2. QED
        BY <1>2, <1>3, <2>1, <3>1
    <2>2. CASE p # o
      <3>1. /\ txnOf[p] \in Txns
            /\ ticket[p] \in 1 .. issued[txnOf[p]]
            /\ ticket[p] \notin released[txnOf[p]]
        BY <1>3, <2>2 DEF QueuedOwnsPromise
      <3>2. QED
        BY <1>2, <1>3, <2>2, <3>1
    <2>3. QED
      BY <2>1, <2>2
  <1>6. PromiseHasOneOwner'
    <2>1. \A p \in Ops : p # o /\ pc[p] \in Queued /\ txnOf[p] = t => ticket[p] # issued[t] + 1
      BY <1>2 DEF QueuedOwnsPromise
    <2>2. QED
      BY <1>3, <2>1 DEF PromiseHasOneOwner
  <1>7. LeasedAfterPredecessor'
    BY <1>1, <1>3 DEF LeasedAfterPredecessor, Leased
  <1>8. SettlingIsDrained'
    BY <1>1, <1>3 DEF SettlingIsDrained, Settling, Unborn
  <1>9. QED
    BY <1>4, <1>5, <1>6, <1>7, <1>8

(* finish() only ever moves active transactions to draining.               *)
LEMMA FinishMoves ==
  ASSUME TypeOK, NEW S, NEW action, Finish(S, action)
  PROVE  /\ StateMoves
         /\ \A t \in Txns : state[t] # "active" => state'[t] = state[t] /\ want'[t] = want[t]
         /\ \A t \in Txns : state[t] = "active" /\ t \in S =>
                              state'[t] = "draining" /\ want'[t] = action
         /\ \A t \in Txns : t \notin S => state'[t] = state[t] /\ want'[t] = want[t]
  BY DEF Finish, StateMoves, TypeOK, Settling, Unborn

(* A step of finish() after its first await keeps the chain.               *)
LEMMA LeaseSettle ==
  ASSUME TypeOK, LeaseInv, NEW t \in Txns, SettleStep(t)
  PROVE  LeaseInv'
  <1>1. UNCHANGED <<leaseVars, opVars>>
    BY DEF SettleStep, Decide, CommitReturns, CommitThrows, Recover, RollbackReturns,
           RollbackThrows, Close, nonTxn, leaseVars, opVars
  <1>2. StateMoves
    BY DEF SettleStep, Decide, CommitReturns, CommitThrows, Recover, RollbackReturns,
           RollbackThrows, Close, Drained, StateMoves, Settling, Unborn, TypeOK
  <1>3. QED
    BY <1>1, <1>2, LeaseKept DEF opVars

(* A step of a handler keeps the chain.                                    *)
LEMMA LeaseOp ==
  ASSUME TypeOK, LeaseInv, NEW o \in Ops, OpStep(o)
  PROVE  LeaseInv'
  <1> USE DEF leaseVars, opVars, txnVars, txnCore
  <1>1. pc \in [Ops -> Places] /\ pc[o] \in Leased => pc[o] \in Queued /\ Granted(o)
    BY DEF TypeOK, Queued, LeaseInv, LeasedAfterPredecessor, Granted
  <1>2. ASSUME state' = state
        PROVE  StateMoves
    BY <1>2 DEF StateMoves
  <1>3. ASSUME pc[o] \in Queued, Granted(o), Break(o), state' = state,
               UNCHANGED <<issued, txnOf, ticket>>
        PROVE  LeaseInv'
    <2>1. pc'[o] \notin Queued /\ \A p \in Ops : p # o => pc'[p] = pc[p]
      BY <1>3 DEF Break, TypeOK, Queued, Leased
    <2>2. QED
      BY <1>2, <1>3, <2>1, LeaseReleased DEF Break
  <1>4. CASE OpGranted(o)
    <2>1. /\ pc[o] \in Queued /\ Granted(o) /\ state' = state
          /\ UNCHANGED <<issued, txnOf, ticket>>
      BY <1>4 DEF OpGranted, Queued
    <2>2. CASE pc' = [pc EXCEPT ![o] = "refused"] /\ Release(o)
      <3>1. pc'[o] \notin Queued /\ \A p \in Ops : p # o => pc'[p] = pc[p]
        BY <2>2 DEF TypeOK, Queued, Leased
      <3>2. QED
        BY <1>2, <2>1, <2>2, <3>1, LeaseReleased
    <2>3. CASE pc' = [pc EXCEPT ![o] = "prepare"] /\ released' = released
      <3>1. \A p \in Ops : p # o => pc'[p] = pc[p]
        BY <2>3 DEF TypeOK
      <3>2. QED
        BY <1>2, <2>1, <2>3, <3>1, LeaseKept
    <2>4. QED
      BY <1>3, <1>4, <2>1, <2>2, <2>3 DEF OpGranted
  <1>5. CASE OpPrepared(o)
    <2>1. /\ pc[o] \in Queued /\ Granted(o) /\ state' = state
          /\ UNCHANGED <<issued, txnOf, ticket>>
      BY <1>1, <1>5 DEF OpPrepared, Leased, TypeOK
    <2>2. CASE pc' = [pc EXCEPT ![o] = "refused"] /\ Release(o)
      <3>1. pc'[o] \notin Queued /\ \A p \in Ops : p # o => pc'[p] = pc[p]
        BY <2>2 DEF TypeOK, Queued, Leased
      <3>2. QED
        BY <1>2, <2>1, <2>2, <3>1, LeaseReleased
    <2>3. CASE pc' = [pc EXCEPT ![o] = "executing"] /\ released' = released
      <3>1. \A p \in Ops : p # o => pc'[p] = pc[p]
        BY <2>3 DEF TypeOK
      <3>2. QED
        BY <1>2, <2>1, <2>3, <3>1, LeaseKept
    <2>4. QED
      BY <1>3, <1>5, <2>1, <2>2, <2>3 DEF OpPrepared
  <1>6. CASE OpExecuted(o)
    <2>1. /\ pc[o] \in Queued /\ Granted(o) /\ Release(o) /\ state' = state
          /\ UNCHANGED <<issued, txnOf, ticket>>
          /\ pc' = [pc EXCEPT ![o] = "acked"]
      BY <1>1, <1>6 DEF OpExecuted, Leased, TypeOK
    <2>2. pc'[o] \notin Queued /\ \A p \in Ops : p # o => pc'[p] = pc[p]
      BY <2>1 DEF TypeOK, Queued, Leased
    <2>3. QED
      BY <1>2, <2>1, <2>2, LeaseReleased
  <1>7. CASE OpFailed(o)
    BY <1>1, <1>3, <1>7 DEF OpFailed, Leased, TypeOK
  <1>8. CASE OpEmpty(o)
    <2>1. /\ pc[o] \in Queued /\ Granted(o) /\ Release(o) /\ StateMoves
          /\ UNCHANGED <<issued, txnOf, ticket>>
          /\ pc' = [pc EXCEPT ![o] = "emptied"]
      BY <1>1, <1>8, FinishMoves DEF OpEmpty, Leased, TypeOK
    <2>2. pc'[o] \notin Queued /\ \A p \in Ops : p # o => pc'[p] = pc[p]
      BY <2>1 DEF TypeOK, Queued, Leased
    <2>3. QED
      BY <2>1, <2>2, LeaseReleased
  <1>9. CASE OpEmptied(o)
    <2>1. /\ UNCHANGED <<leaseVars, txnOf, ticket, state>>
          /\ \A p \in Ops : pc'[p] \in Queued => pc'[p] = pc[p]
      BY <1>9 DEF OpEmptied, TypeOK, Queued, Leased
    <2>2. QED
      BY <1>2, <2>1, LeaseKept DEF Queued
  <1>10. QED
    BY <1>4, <1>5, <1>6, <1>7, <1>8, <1>9 DEF OpStep

(* Every step keeps the chain.                                             *)
LEMMA LeaseStep ==
  ASSUME TypeOK, LeaseInv, [Next]_vars
  PROVE  LeaseInv'
  <1> USE DEF leaseVars, opVars, nonTxn, txnVars, txnCore
  <1>1. ASSUME UNCHANGED <<leaseVars, opVars>>, StateMoves
        PROVE  LeaseInv'
    BY <1>1, LeaseKept
  <1>2. ASSUME NEW t \in Txns, BeginStep(t)
        PROVE  LeaseInv'
    BY <1>1, <1>2 DEF BeginStep, BeginConnected, BeginDiscard, StateMoves, Unborn, Settling,
                      TypeOK
  <1>3. ASSUME NEW t \in Txns, Timeout(t)
        PROVE  LeaseInv'
    BY <1>1, <1>3, FinishMoves DEF Timeout
  <1>4. ASSUME NEW t \in Txns, NEW b \in Begins,
               BeginConnect(t, b) \/ BeginReuse(t, b) \/ BeginRefuse(t, b)
        PROVE  LeaseInv'
    BY <1>1, <1>4 DEF BeginConnect, BeginReuse, BeginRefuse, StateMoves, Unborn, Settling,
                      TypeOK
  <1>5. ASSUME NEW b \in Begins, BeginClose(b) \/ BeginClosed(b)
        PROVE  LeaseInv'
    BY <1>1, <1>5, FinishMoves DEF BeginClose, BeginClosed, StateMoves
  <1>6. ASSUME NEW o \in Ops, NEW t \in Txns, OpRefused(o, t) \/ OpMisconfigured(o, t)
        PROVE  LeaseInv'
    <2>1. /\ UNCHANGED leaseVars /\ StateMoves
          /\ \A p \in Ops : pc'[p] \in Queued =>
                pc[p] = pc'[p] /\ txnOf'[p] = txnOf[p] /\ ticket'[p] = ticket[p]
      BY <1>6 DEF OpRefused, OpMisconfigured, StateMoves, Queued, Leased, TypeOK
    <2>2. QED
      BY <2>1, LeaseKept DEF Queued
  <1>7. ASSUME NEW n \in Nodes, NodeClose(n) \/ NodeClosed(n)
        PROVE  LeaseInv'
    BY <1>1, <1>7 DEF NodeClose, NodeClosed, StateMoves
  <1>8. ASSUME NEW c \in Callers, NEW S \in SUBSET Txns, CallStart(c, S)
        PROVE  LeaseInv'
    BY <1>1, <1>8, FinishMoves DEF CallStart
  <1>9. ASSUME NEW c \in Callers, NEW t \in Txns, CallRefused(c, t)
        PROVE  LeaseInv'
    BY <1>1, <1>9 DEF CallRefused, StateMoves
  <1>10. ASSUME NEW c \in Callers, CallAnswered(c)
         PROVE  LeaseInv'
    BY <1>1, <1>10 DEF CallAnswered, StateMoves
  <1>11. CASE UNCHANGED vars
    BY <1>1, <1>11 DEF vars, StateMoves
  <1>12. QED
    BY <1>2, <1>3, <1>4, <1>5, <1>6, <1>7, <1>8, <1>9, <1>10, <1>11,
       LeaseSettle, LeaseOp, LeaseStarted DEF Next

(* The promise chain of the leases holds in every reachable state.         *)
THEOREM LeaseChain == Spec => []LeaseInv
  <1>1. Init => LeaseInv
    BY DEF Init, LeaseInv, PromisesInOrder, QueuedOwnsPromise, PromiseHasOneOwner,
           LeasedAfterPredecessor, SettlingIsDrained, Queued, Leased, Settling
  <1>2. TypeOK /\ LeaseInv /\ [Next]_vars => LeaseInv'
    BY LeaseStep
  <1>3. QED
    BY <1>1, <1>2, TypeCorrect, PTL DEF Spec

(* DB operations of one transaction run one at a time (sql, enqueue and    *)
(* dequeue handlers, lib/db-transaction.js acquire).                       *)
THEOREM MutualExclusion == Spec => []OneAtATime
  BY TypeCorrect, LeaseChain, LeaseInvOneAtATime, PTL

------------------------------------------------------------------------------
(* Settlement and ownership.                                               *)

(* The action is fixed when the transaction stops being active.            *)
WantIsFixed ==
  \A t \in Txns :
    /\ state[t] \in Unborn \cup {"active"} => want[t] = "none" /\ ~timedOut[t]
    /\ state[t] \in Ending \cup {"ended"} => want[t] # "none"
    /\ timedOut[t] => want[t] = "rollback"

(* What commit(), rollback() and close() leave behind, phase by phase.     *)
VerdictFits ==
  \A t \in Txns :
    /\ db[t] # "open" => state[t] \in {"recovering", "closing", "ended"}
    /\ db[t] = "committed" => want[t] = "commit"
    /\ outcome[t] # "unknown" => state[t] \in {"closing", "ended"} /\ db[t] = outcome[t]
    /\ state[t] = "committing" => want[t] = "commit"
    /\ state[t] = "recovering" => failure[t]
    /\ state[t] = "rollingBack" /\ want[t] = "commit" => failure[t]
    /\ state[t] \in {"closing", "ended"} /\ ~failure[t] =>
         outcome[t] = IF want[t] = "commit" THEN "committed" ELSE "rolledBack"

(* A broken handler has marked its transaction in time.                    *)
BrokenIsMarked ==
  \A o \in Ops : pc[o] \in Broken =>
    /\ txnOf[o] \in Txns
    /\ rollbackOnly[txnOf[o]]
    /\ state[txnOf[o]] \notin Unborn \cup {"committing"}
    /\ db[txnOf[o]] # "committed"

(* Only an active transaction has its timer armed.                         *)
TimerMeansActive == \A t \in Txns : timer[t] => state[t] = "active"

SettleInv == WantIsFixed /\ VerdictFits /\ BrokenIsMarked

------------------------------------------------------------------------------
(* The settlement of one transaction.                                      *)

LEMMA SettleInitial == Init => SettleInv
  BY DEF Init, SettleInv, WantIsFixed, VerdictFits, BrokenIsMarked, Unborn, Ending, Settling,
         Broken

(* A step that leaves the verdict alone, at most sends active transactions *)
(* to finish() and marks transactions of newly broken handlers.            *)
LEMMA SettleKept ==
  ASSUME TypeOK, SettleInv, UNCHANGED verdict,
         \A t \in Txns : \/ state'[t] = state[t] /\ want'[t] = want[t]
                         \/ /\ state[t] \in {"none", "connecting", "late"}
                            /\ state'[t] \in Unborn \cup {"active"}
                            /\ want'[t] = want[t]
                         \/ /\ state[t] = "active" /\ state'[t] = "draining"
                            /\ want'[t] \in {"commit", "rollback"},
         \A t \in Txns : timedOut'[t] => timedOut[t] \/ want'[t] = "rollback",
         \A t \in Txns : timedOut'[t] => timedOut[t] \/ state'[t] = "draining",
         \A t \in Txns : rollbackOnly[t] => rollbackOnly'[t],
         \A o \in Ops : pc'[o] \in Broken =>
           \/ pc[o] \in Broken /\ txnOf'[o] = txnOf[o]
           \/ /\ txnOf'[o] \in Txns /\ rollbackOnly'[txnOf'[o]]
              /\ state[txnOf'[o]] \in {"active", "draining"}
  PROVE  SettleInv'
  <1> USE DEF SettleInv, verdict
  <1>1. \A t \in Txns : state'[t] \in {"recovering", "closing", "ended", "committing", "rollingBack"}
                         => state'[t] = state[t] /\ want'[t] = want[t]
    BY DEF Unborn
  <1>2. WantIsFixed'
    BY DEF WantIsFixed, Unborn, Ending, Settling
  <1>3. VerdictFits'
    <2> SUFFICES ASSUME NEW t \in Txns
                 PROVE  /\ db[t] # "open" => state'[t] \in {"recovering", "closing", "ended"}
                        /\ db[t] = "committed" => want'[t] = "commit"
                        /\ outcome[t] # "unknown" =>
                             state'[t] \in {"closing", "ended"} /\ db[t] = outcome[t]
      BY <1>1 DEF VerdictFits
    <2>1. state[t] \in {"recovering", "closing", "ended"} => state'[t] = state[t] /\ want'[t] = want[t]
      OBVIOUS
    <2>2. QED
      BY <2>1 DEF VerdictFits
  <1>4. BrokenIsMarked'
    <2> SUFFICES ASSUME NEW o \in Ops, pc'[o] \in Broken
                 PROVE  /\ txnOf'[o] \in Txns
                        /\ rollbackOnly'[txnOf'[o]]
                        /\ state'[txnOf'[o]] \notin Unborn \cup {"committing"}
                        /\ db[txnOf'[o]] # "committed"
      BY DEF BrokenIsMarked
    <2>1. CASE pc[o] \in Broken /\ txnOf'[o] = txnOf[o]
      BY <1>1, <2>1 DEF BrokenIsMarked, Unborn
    <2>2. CASE /\ txnOf'[o] \in Txns /\ rollbackOnly'[txnOf'[o]]
               /\ state[txnOf'[o]] \in {"active", "draining"}
      <3>1. db[txnOf'[o]] = "open"
        BY <2>2 DEF VerdictFits
      <3>2. QED
        BY <1>1, <2>2, <3>1 DEF Unborn
    <2>3. QED
      BY <2>1, <2>2
  <1>5. QED
    BY <1>2, <1>3, <1>4

(* A step of finish() after its first await keeps the parts.               *)
LEMMA SettleSettle ==
  ASSUME TypeOK, SettleInv, NEW t \in Txns, SettleStep(t)
  PROVE  SettleInv'
  <1> USE DEF SettleInv, WantIsFixed, VerdictFits, BrokenIsMarked, TypeOK, nonTxn, opVars,
              Unborn, Ending, Settling, Undo
  <1>1. CASE Decide(t)
    BY <1>1 DEF Decide
  <1>2. CASE CommitReturns(t)
    BY <1>2 DEF CommitReturns
  <1>3. CASE CommitThrows(t)
    BY <1>3 DEF CommitThrows
  <1>4. CASE Recover(t)
    BY <1>4 DEF Recover
  <1>5. CASE RollbackReturns(t)
    BY <1>5 DEF RollbackReturns
  <1>6. CASE RollbackThrows(t)
    BY <1>6 DEF RollbackThrows
  <1>7. CASE Close(t)
    BY <1>7 DEF Close
  <1>8. QED
    BY <1>1, <1>2, <1>3, <1>4, <1>5, <1>6, <1>7 DEF SettleStep

(* A handler that breaks off while it holds or awaits its lease marks the  *)
(* transaction before finish() can decide to commit.                       *)
LEMMA SettleBreak ==
  ASSUME TypeOK, LeaseInv, SettleInv, NEW o \in Ops, pc[o] \in Queued, Break(o),
         UNCHANGED <<txnCore, txnOf>>
  PROVE  SettleInv'
  <1>1. txnOf[o] \in Txns /\ state[txnOf[o]] \in {"active", "draining"}
    BY QueuedIsNotSettling
  <1>2. /\ rollbackOnly'[txnOf[o]]
        /\ \A t \in Txns : rollbackOnly[t] => rollbackOnly'[t]
    BY <1>1 DEF Break, MarkRollbackOnly, TypeOK, Managed, Ending
  <1>3. \A p \in Ops : p # o => pc'[p] = pc[p]
    BY DEF Break, TypeOK
  <1>4. QED
    BY <1>1, <1>2, <1>3, SettleKept DEF txnCore

(* A step of a handler keeps the parts.                                    *)
LEMMA SettleOp ==
  ASSUME TypeOK, LeaseInv, SettleInv, NEW o \in Ops, OpStep(o)
  PROVE  SettleInv'
  <1> USE DEF txnVars, txnCore
  <1>1. ASSUME UNCHANGED <<txnVars, txnOf>>,
               \A p \in Ops : pc'[p] \in Broken => pc[p] \in Broken
        PROVE  SettleInv'
    BY <1>1, SettleKept
  <1>2. CASE OpGranted(o)
    <2>1. pc[o] \in Queued /\ UNCHANGED <<txnCore, txnOf>>
      BY <1>2 DEF OpGranted, Queued
    <2>2. CASE Break(o)
      BY <2>1, <2>2, SettleBreak
    <2>3. ASSUME NEW place \in {"prepare", "refused"},
                 pc' = [pc EXCEPT ![o] = place], UNCHANGED rollbackOnly
          PROVE  SettleInv'
      BY <1>1, <2>1, <2>3 DEF TypeOK, Broken
    <2>4. QED
      BY <1>2, <2>2, <2>3 DEF OpGranted
  <1>3. CASE OpPrepared(o)
    <2>1. pc[o] \in Queued /\ UNCHANGED <<txnCore, txnOf>>
      BY <1>3 DEF OpPrepared, Queued, Leased
    <2>2. CASE Break(o)
      BY <2>1, <2>2, SettleBreak
    <2>3. ASSUME NEW place \in {"executing", "refused"},
                 pc' = [pc EXCEPT ![o] = place], UNCHANGED rollbackOnly
          PROVE  SettleInv'
      BY <1>1, <2>1, <2>3 DEF TypeOK, Broken
    <2>4. QED
      BY <1>3, <2>2, <2>3 DEF OpPrepared
  <1>4. CASE OpExecuted(o)
    BY <1>1, <1>4 DEF OpExecuted, TypeOK, Broken
  <1>5. CASE OpFailed(o)
    BY <1>5, SettleBreak DEF OpFailed, Queued, Leased
  <1>6. CASE OpEmpty(o)
    <2>1. /\ \A p \in Ops : pc'[p] \in Broken => pc[p] \in Broken
          /\ UNCHANGED <<owner, timedOut, rollbackOnly, verdict, txnOf>>
          /\ Finish({txnOf[o]}, "commit")
      BY <1>6 DEF OpEmpty, TypeOK, Broken
    <2>2. \A t \in Txns : \/ state'[t] = state[t] /\ want'[t] = want[t]
                          \/ /\ state[t] = "active" /\ state'[t] = "draining"
                             /\ want'[t] \in {"commit", "rollback"}
      BY <2>1, FinishMoves
    <2>3. QED
      BY <2>1, <2>2, SettleKept
  <1>7. CASE OpEmptied(o)
    BY <1>1, <1>7 DEF OpEmptied, TypeOK, Broken
  <1>8. QED
    BY <1>2, <1>3, <1>4, <1>5, <1>6, <1>7 DEF OpStep

(* finish(), whoever calls it, keeps the parts.                            *)
LEMMA SettleFinish ==
  ASSUME TypeOK, SettleInv, NEW S, NEW action, action \in {"commit", "rollback"},
         Finish(S, action), UNCHANGED <<verdict, rollbackOnly, pc, txnOf>>,
         \/ UNCHANGED timedOut
         \/ \A t \in Txns : timedOut'[t] =>
              timedOut[t] \/ (state'[t] = "draining" /\ want'[t] = "rollback")
  PROVE  SettleInv'
  <1>1. \A t \in Txns : \/ state'[t] = state[t] /\ want'[t] = want[t]
                        \/ /\ state[t] = "active" /\ state'[t] = "draining"
                           /\ want'[t] \in {"commit", "rollback"}
    BY FinishMoves
  <1>2. QED
    BY <1>1, SettleKept

(* Every step keeps the parts.                                             *)
LEMMA SettleAlways ==
  ASSUME TypeOK, LeaseInv, SettleInv, TimerMeansActive, [Next]_vars
  PROVE  SettleInv'
  <1> USE DEF txnVars, txnCore, nonTxn, opVars
  <1>1. ASSUME NEW t \in Txns, BeginStep(t)
        PROVE  SettleInv'
    BY <1>1, SettleKept DEF BeginStep, BeginConnected, BeginDiscard, TypeOK, Unborn
  <1>2. ASSUME NEW t \in Txns, Timeout(t)
        PROVE  SettleInv'
    <2>1. state'[t] = "draining" /\ want'[t] = "rollback"
      BY <1>2, FinishMoves DEF Timeout, TimerMeansActive
    <2>2. \A u \in Txns : timedOut'[u] => timedOut[u] \/ u = t
      BY <1>2 DEF Timeout, TypeOK
    <2>3. \A u \in Txns : timedOut'[u] =>
            timedOut[u] \/ (state'[u] = "draining" /\ want'[u] = "rollback")
      BY <2>1, <2>2
    <2>4. /\ Finish({t}, "rollback")
          /\ UNCHANGED <<verdict, rollbackOnly, pc, txnOf>>
      BY <1>2 DEF Timeout
    <2>5. QED
      BY <2>3, <2>4, SettleFinish
  <1>3. ASSUME NEW t \in Txns, NEW b \in Begins,
               BeginConnect(t, b) \/ BeginReuse(t, b) \/ BeginRefuse(t, b)
        PROVE  SettleInv'
    <2>1. CASE BeginConnect(t, b)
      BY <2>1, SettleKept DEF BeginConnect, TypeOK, Unborn
    <2>2. CASE BeginReuse(t, b)
      BY <2>2, SettleKept DEF BeginReuse
    <2>3. CASE BeginRefuse(t, b)
      BY <2>3, SettleKept DEF BeginRefuse, MarkRollbackOnly, TypeOK
    <2>4. QED
      BY <1>3, <2>1, <2>2, <2>3
  <1>4. ASSUME NEW b \in Begins, BeginClose(b)
        PROVE  SettleInv'
    BY <1>4, SettleFinish DEF BeginClose
  <1>5. ASSUME NEW b \in Begins, BeginClosed(b)
        PROVE  SettleInv'
    BY <1>5, SettleKept DEF BeginClosed
  <1>6. ASSUME NEW o \in Ops, NEW t \in Txns, OpStart(o, t) \/ OpRefused(o, t)
        PROVE  SettleInv'
    BY <1>6, SettleKept DEF OpStart, OpRefused, TypeOK, Broken
  <1>7. ASSUME NEW o \in Ops, NEW t \in Txns, OpMisconfigured(o, t)
        PROVE  SettleInv'
    <2>1. /\ state[t] = "active"
          /\ rollbackOnly' = [rollbackOnly EXCEPT ![t] = TRUE]
          /\ txnOf' = [txnOf EXCEPT ![o] = t]
          /\ pc' = [pc EXCEPT ![o] = "failed"]
          /\ UNCHANGED txnCore
      BY <1>7 DEF OpMisconfigured, Admits, MarkRollbackOnly, Managed
    <2>2. QED
      BY <2>1, SettleKept DEF TypeOK
  <1>8. ASSUME NEW n \in Nodes, NodeClose(n) \/ NodeClosed(n)
        PROVE  SettleInv'
    BY <1>8, SettleKept DEF NodeClose, NodeClosed
  <1>9. ASSUME NEW c \in Callers, NEW S \in SUBSET Txns, CallStart(c, S)
        PROVE  SettleInv'
    <2>1. ActionOf(c) \in {"commit", "rollback"}
      BY DEF ActionOf
    <2>2. QED
      BY <1>9, <2>1, SettleFinish DEF CallStart
  <1>10. ASSUME NEW c \in Callers, NEW t \in Txns, CallRefused(c, t)
         PROVE  SettleInv'
    BY <1>10, SettleKept DEF CallRefused
  <1>11. ASSUME NEW c \in Callers, CallAnswered(c)
         PROVE  SettleInv'
    BY <1>11, SettleKept DEF CallAnswered
  <1>12. CASE UNCHANGED vars
    BY <1>12, SettleKept DEF vars
  <1>13. QED
    BY <1>1, <1>2, <1>3, <1>4, <1>5, <1>6, <1>7, <1>8, <1>9, <1>10, <1>11, <1>12,
       SettleSettle, SettleOp DEF Next

------------------------------------------------------------------------------
(* Who owns a connection.                                                  *)

(* An open connection has a begin node that is not closed, and that has    *)
(* not even started to close while the transaction takes work.             *)
OwnedByLiveNode ==
  \A t \in Txns :
    /\ state[t] \in Managed \cup {"connecting", "late"} =>
         owner[t] \in Begins /\ beginState[owner[t]] # "closed"
    /\ state[t] = "active" => beginState[owner[t]] = "open"

OwnerInv == OwnedByLiveNode /\ TimerMeansActive

(* A step that changes neither owners nor begin nodes, arms no timer and   *)
(* at most sends active transactions to finish() keeps the ownership.      *)
LEMMA OwnerKept ==
  ASSUME OwnerInv, UNCHANGED <<owner, beginState>>,
         \A t \in Txns : \/ state'[t] = state[t]
                         \/ state[t] = "active" /\ state'[t] = "draining" /\ ~timer'[t],
         \A t \in Txns : timer'[t] => timer[t]
  PROVE  OwnerInv'
  <1>1. OwnedByLiveNode'
    BY DEF OwnerInv, OwnedByLiveNode, Managed, Ending
  <1>2. TimerMeansActive'
    BY DEF OwnerInv, TimerMeansActive
  <1>3. QED
    BY <1>1, <1>2 DEF OwnerInv

(* finish() disarms the timers of the transactions it takes.               *)
LEMMA FinishDisarms ==
  ASSUME TypeOK, NEW S, NEW action, Finish(S, action)
  PROVE  /\ \A t \in Txns : timer'[t] => timer[t]
         /\ \A t \in Txns : state[t] = "active" /\ t \in S => ~timer'[t]
         /\ \A t \in Txns : state'[t] # state[t] =>
                              state[t] = "active" /\ t \in S /\ state'[t] = "draining"
  BY DEF Finish, TypeOK

LEMMA OwnerFinish ==
  ASSUME TypeOK, OwnerInv, NEW S, NEW action, Finish(S, action),
         UNCHANGED <<owner, beginState>>
  PROVE  OwnerInv'
  BY FinishDisarms, OwnerKept

(* A begin node's connection arrives, or fails, or is discarded.           *)
LEMMA OwnerConnected ==
  ASSUME TypeOK, OwnerInv, NEW t \in Txns, BeginStep(t)
  PROVE  OwnerInv'
  <1> USE DEF nonTxn, lifeVars, OwnerInv
  <1>1. /\ state[t] \in {"connecting", "late"} /\ ~timer[t]
        /\ owner[t] \in Begins
      BY DEF BeginStep, BeginConnected, BeginDiscard, OwnedByLiveNode, TimerMeansActive
  <1>2. state \in [Txns -> States] /\ owner \in [Txns -> Begins \cup {Nobody}]
        /\ timer \in [Txns -> BOOLEAN]
    BY DEF TypeOK
  <1>3. CASE BeginConnected(t)
    <2>1. /\ UNCHANGED <<owner, beginState>>
          /\ state' = [state EXCEPT ![t] = IF Admitted(t) THEN "active" ELSE "late"]
          /\ timer' = [timer EXCEPT ![t] = Admitted(t) /\ owner[t] \in TimedBegins]
      BY <1>3 DEF BeginConnected
    <2>2. OwnedByLiveNode'
      BY <1>1, <1>2, <2>1 DEF OwnedByLiveNode, Admitted, Managed, Ending, Settling
    <2>3. TimerMeansActive'
      BY <1>2, <2>1 DEF TimerMeansActive
    <2>4. QED
      BY <2>2, <2>3
  <1>4. CASE BeginDiscard(t)
    <2>1. /\ UNCHANGED <<timer, beginState>>
          /\ state' = [state EXCEPT ![t] = "discarded"]
          /\ owner' = [owner EXCEPT ![t] = Nobody]
      BY <1>4 DEF BeginDiscard
    <2>2. OwnedByLiveNode'
      BY <1>2, <2>1 DEF OwnedByLiveNode, Managed, Ending, Settling
    <2>3. TimerMeansActive'
      BY <1>1, <1>2, <2>1 DEF TimerMeansActive
    <2>4. QED
      BY <2>2, <2>3
  <1>5. QED
    BY <1>3, <1>4 DEF BeginStep

(* A transaction gets its begin node, or moves to another one.             *)
LEMMA OwnerMoves ==
  ASSUME TypeOK, OwnerInv, NEW t \in Txns, NEW b \in Begins,
         BeginConnect(t, b) \/ BeginReuse(t, b) \/ BeginRefuse(t, b)
  PROVE  OwnerInv'
  <1> USE DEF nonTxn, lifeVars, txnCore, OwnerInv, TypeOK
  <1>1. CASE BeginConnect(t, b)
    BY <1>1 DEF BeginConnect, OwnedByLiveNode, TimerMeansActive, Managed, Ending, Settling
  <1>2. CASE BeginReuse(t, b)
    BY <1>2 DEF BeginReuse, Admits, OwnedByLiveNode, TimerMeansActive, Managed, Ending, Settling
  <1>3. CASE BeginRefuse(t, b)
    BY <1>3, OwnerKept DEF BeginRefuse
  <1>4. QED
    BY <1>1, <1>2, <1>3

(* A closing begin node leaves no transaction it owns active, and a closed *)
(* one owns none.                                                          *)
LEMMA OwnerCloses ==
  ASSUME TypeOK, OwnerInv, NEW b \in Begins, BeginClose(b) \/ BeginClosed(b)
  PROVE  OwnerInv'
  <1> USE DEF nonTxn, lifeVars, OwnerInv, TypeOK
  <1>1. CASE BeginClose(b)
    <2>1. /\ UNCHANGED owner
          /\ beginState' = [beginState EXCEPT ![b] = "closing"]
          /\ Finish(Tracked(b), "rollback")
      BY <1>1 DEF BeginClose
    <2>2. \A u \in Txns : state'[u] = "active" => state[u] = "active" /\ owner[u] # b
      BY <2>1, FinishDisarms DEF Tracked, Finish
    <2>3. OwnedByLiveNode'
      BY <2>1, <2>2, FinishDisarms DEF OwnedByLiveNode, Managed, Ending
    <2>4. TimerMeansActive'
      BY <2>1, FinishDisarms DEF TimerMeansActive
    <2>5. QED
      BY <2>3, <2>4
  <1>2. CASE BeginClosed(b)
    <2>1. \A u \in Tracked(b) : state[u] \notin Managed \cup {"connecting", "late"}
      BY <1>2 DEF BeginClosed, Tracked, OwnedByLiveNode, Managed
    <2>2. QED
      BY <1>2, <2>1 DEF BeginClosed, Tracked, OwnedByLiveNode, TimerMeansActive, Managed
  <1>3. QED
    BY <1>1, <1>2

(* A step of finish() after its first await keeps the ownership.           *)
LEMMA OwnerSettle ==
  ASSUME TypeOK, OwnerInv, NEW t \in Txns, SettleStep(t)
  PROVE  OwnerInv'
  <1> USE DEF nonTxn, lifeVars, OwnerInv, OwnedByLiveNode, TimerMeansActive, TypeOK, Managed,
              Ending, Settling
  <1>1. CASE Decide(t)
    BY <1>1 DEF Decide
  <1>2. CASE CommitReturns(t)
    BY <1>2 DEF CommitReturns
  <1>3. CASE CommitThrows(t)
    BY <1>3 DEF CommitThrows
  <1>4. CASE Recover(t)
    BY <1>4 DEF Recover
  <1>5. CASE RollbackReturns(t)
    BY <1>5 DEF RollbackReturns
  <1>6. CASE RollbackThrows(t)
    BY <1>6 DEF RollbackThrows
  <1>7. CASE Close(t)
    BY <1>7 DEF Close
  <1>8. QED
    BY <1>1, <1>2, <1>3, <1>4, <1>5, <1>6, <1>7 DEF SettleStep

(* A handler's step changes no owner, and ends an active transaction only  *)
(* through finish().                                                       *)
LEMMA OwnerOp ==
  ASSUME TypeOK, OwnerInv, NEW o \in Ops, OpStep(o)
  PROVE  OwnerInv'
  <1> USE DEF lifeVars, txnVars, txnCore
  <1>1. CASE OpEmpty(o)
    BY <1>1, OwnerFinish DEF OpEmpty
  <1>2. CASE OpGranted(o) \/ OpPrepared(o) \/ OpExecuted(o) \/ OpFailed(o) \/ OpEmptied(o)
    BY <1>2, OwnerKept DEF OpGranted, OpPrepared, OpExecuted, OpFailed, OpEmptied
  <1>3. QED
    BY <1>1, <1>2 DEF OpStep

(* Every step keeps the ownership.                                         *)
LEMMA OwnerStep ==
  ASSUME TypeOK, OwnerInv, [Next]_vars
  PROVE  OwnerInv'
  <1> USE DEF lifeVars, txnVars, txnCore
  <1>1. ASSUME NEW t \in Txns, Timeout(t)
        PROVE  OwnerInv'
    BY <1>1, OwnerFinish DEF Timeout, nonTxn
  <1>2. ASSUME NEW t \in Txns, BeginStep(t)
        PROVE  OwnerInv'
    BY <1>2, OwnerConnected
  <1>3. ASSUME NEW c \in Callers, NEW S \in SUBSET Txns, CallStart(c, S)
        PROVE  OwnerInv'
    BY <1>3, OwnerFinish DEF CallStart
  <1>4. ASSUME NEW c \in Callers, NEW t \in Txns, CallRefused(c, t)
        PROVE  OwnerInv'
    BY <1>4, OwnerKept DEF CallRefused
  <1>5. ASSUME NEW c \in Callers, CallAnswered(c)
        PROVE  OwnerInv'
    BY <1>5, OwnerKept DEF CallAnswered
  <1>6. ASSUME NEW n \in Nodes, NodeClose(n) \/ NodeClosed(n)
        PROVE  OwnerInv'
    BY <1>6, OwnerKept DEF NodeClose, NodeClosed
  <1>7. ASSUME NEW o \in Ops, NEW t \in Txns,
               OpStart(o, t) \/ OpRefused(o, t) \/ OpMisconfigured(o, t)
        PROVE  OwnerInv'
    BY <1>7, OwnerKept DEF OpStart, OpRefused, OpMisconfigured
  <1>8. CASE UNCHANGED vars
    BY <1>8, OwnerKept DEF vars, nonTxn
  <1>9. ASSUME NEW t \in Txns, NEW b \in Begins,
               BeginConnect(t, b) \/ BeginReuse(t, b) \/ BeginRefuse(t, b)
        PROVE  OwnerInv'
    BY <1>9, OwnerMoves
  <1>10. ASSUME NEW b \in Begins, BeginClose(b) \/ BeginClosed(b)
         PROVE  OwnerInv'
    BY <1>10, OwnerCloses
  <1>11. QED
    BY <1>1, <1>2, <1>3, <1>4, <1>5, <1>6, <1>7, <1>8, <1>9, <1>10, OwnerSettle, OwnerOp
       DEF Next

------------------------------------------------------------------------------
(* The theorems about a transaction, its handlers and its owner.           *)

(* The settlement invariant rests on the promise chain, which keeps        *)
(* finish() waiting for every handler, and on timers being disarmed.       *)
THEOREM Settlement == Spec => [](SettleInv /\ OwnerInv)
  <1>1. Init => SettleInv /\ OwnerInv
    BY SettleInitial DEF Init, OwnerInv, OwnedByLiveNode, TimerMeansActive, Managed, Ending,
                         Settling
  <1>2. TypeOK /\ LeaseInv /\ SettleInv /\ OwnerInv /\ [Next]_vars => (SettleInv /\ OwnerInv)'
    BY SettleAlways, OwnerStep DEF OwnerInv
  <1>3. QED
    BY <1>1, <1>2, TypeCorrect, LeaseChain, PTL DEF Spec

(* No handler uses the connection once finish() commits, rolls back or     *)
(* closes.                                                                 *)
THEOREM QuietSettlement == Spec => []QuietWhenSettling
  <1>1. TypeOK /\ LeaseInv /\ SettleInv => QuietWhenSettling
    <2> SUFFICES ASSUME TypeOK, LeaseInv, SettleInv, NEW o \in Ops, pc[o] \in Leased
                 PROVE  /\ state[txnOf[o]] \in {"active", "draining"}
                        /\ db[txnOf[o]] = "open"
      BY DEF QuietWhenSettling
    <2>1. txnOf[o] \in Txns /\ state[txnOf[o]] \in {"active", "draining"}
      BY QueuedIsNotSettling DEF Queued
    <2>2. QED
      BY <2>1 DEF SettleInv, VerdictFits
  <1>2. QED
    BY <1>1, TypeCorrect, LeaseChain, Settlement, PTL

(* Failed or interrupted work is never part of a committed transaction.    *)
THEOREM FailureRollsBack == Spec => []FailedWorkNeverCommits
  <1>1. SettleInv => FailedWorkNeverCommits
    BY DEF SettleInv, BrokenIsMarked, FailedWorkNeverCommits
  <1>2. QED
    BY <1>1, Settlement, PTL

(* An outcome the registry reports is what the database did.               *)
THEOREM OutcomesAreTrue == Spec => []OutcomeIsTrue
  <1>1. SettleInv => OutcomeIsTrue
    BY DEF SettleInv, VerdictFits, OutcomeIsTrue
  <1>2. QED
    BY <1>1, Settlement, PTL

(* A transaction whose timer fired is not committed.                       *)
THEOREM TimeoutRollsBack == Spec => []TimeoutNeverCommits
  <1>1. SettleInv => TimeoutNeverCommits
    BY DEF SettleInv, WantIsFixed, VerdictFits, TimeoutNeverCommits
  <1>2. QED
    BY <1>1, Settlement, PTL

(* Every open connection has a begin node that has not finished closing.   *)
THEOREM NoOrphans == Spec => []NoOrphan
  <1>1. OwnerInv => NoOrphan
    BY DEF OwnerInv, OwnedByLiveNode, NoOrphan
  <1>2. QED
    BY <1>1, Settlement, PTL

------------------------------------------------------------------------------
(* What callers are told.                                                  *)

(* A caller's transactions are being settled, by its own action if it is   *)
(* an end-transaction input; one told "ok" has seen them end well.         *)
ReplyInv ==
  \A c \in Callers :
    /\ reply[c] \in {"waiting", "ok", "error"} =>
         \A t \in target[c] :
           /\ state[t] \in Ending \cup {"ended"}
           /\ CallKind[c] # "finalize" => want[t] = ActionOf(c)
    /\ reply[c] = "ok" =>
         \A t \in target[c] :
           /\ state[t] = "ended" /\ ~failure[t]
           /\ CallKind[c] = "finalize" => outcome[t] = "committed"

(* Nothing about a transaction changes any more once it has ended, and its *)
(* action not once it is being settled.                                    *)
EndedStays ==
  \A t \in Txns :
    /\ state[t] \in Ending \cup {"ended"} =>
         state'[t] \in Ending \cup {"ended"} /\ want'[t] = want[t]
    /\ state[t] = "ended" =>
         state'[t] = "ended" /\ failure'[t] = failure[t] /\ outcome'[t] = outcome[t]

LEMMA ReplyKept ==
  ASSUME TypeOK, ReplyInv, EndedStays, UNCHANGED callVars
  PROVE  ReplyInv'
  <1>1. \A c \in Callers : target[c] \subseteq Txns
    BY DEF TypeOK
  <1>2. QED
    BY <1>1 DEF ReplyInv, EndedStays, callVars, ActionOf

LEMMA EndedStaysAlways ==
  ASSUME TypeOK, [Next]_vars
  PROVE  EndedStays
  <1> USE DEF EndedStays, TypeOK
  <1>1. ASSUME UNCHANGED <<state, want, verdict>>
        PROVE  EndedStays
    BY <1>1 DEF verdict
  <1>2. ASSUME NEW S, NEW action, Finish(S, action), UNCHANGED verdict
        PROVE  EndedStays
    BY <1>2, FinishMoves DEF verdict, Ending, Settling
  <1>3. ASSUME NEW t \in Txns, SettleStep(t)
        PROVE  EndedStays
    <2> USE DEF Ending, Settling
    <2>1. CASE Decide(t)
      BY <2>1 DEF Decide
    <2>2. CASE CommitReturns(t)
      BY <2>2 DEF CommitReturns
    <2>3. CASE CommitThrows(t)
      BY <2>3 DEF CommitThrows
    <2>4. CASE Recover(t)
      BY <2>4 DEF Recover
    <2>5. CASE RollbackReturns(t)
      BY <2>5 DEF RollbackReturns
    <2>6. CASE RollbackThrows(t)
      BY <2>6 DEF RollbackThrows
    <2>7. CASE Close(t)
      BY <2>7 DEF Close
    <2>8. QED
      BY <1>3, <2>1, <2>2, <2>3, <2>4, <2>5, <2>6, <2>7 DEF SettleStep
  <1>4. ASSUME NEW o \in Ops, OpStep(o)
        PROVE  EndedStays
    <2>1. CASE OpEmpty(o)
      BY <1>2, <2>1 DEF OpEmpty
    <2>2. CASE OpGranted(o) \/ OpPrepared(o) \/ OpExecuted(o) \/ OpFailed(o) \/ OpEmptied(o)
      BY <1>1, <2>2 DEF OpGranted, OpPrepared, OpExecuted, OpFailed, OpEmptied, txnVars, txnCore
    <2>3. QED
      BY <1>4, <2>1, <2>2 DEF OpStep
  <1>5. ASSUME NEW t \in Txns, BeginStep(t) \/ Timeout(t)
        PROVE  EndedStays
    <2>1. CASE Timeout(t)
      BY <1>2, <2>1 DEF Timeout
    <2>2. CASE BeginStep(t)
      BY <2>2 DEF BeginStep, BeginConnected, BeginDiscard, verdict, Ending, Settling
    <2>3. QED
      BY <1>5, <2>1, <2>2
  <1>6. ASSUME NEW t \in Txns, NEW b \in Begins,
               BeginConnect(t, b) \/ BeginReuse(t, b) \/ BeginRefuse(t, b)
        PROVE  EndedStays
    <2>1. CASE BeginConnect(t, b)
      BY <2>1 DEF BeginConnect, verdict, Ending, Settling
    <2>2. CASE BeginReuse(t, b) \/ BeginRefuse(t, b)
      BY <1>1, <2>2 DEF BeginReuse, BeginRefuse, txnCore
    <2>3. QED
      BY <1>6, <2>1, <2>2
  <1>7. ASSUME NEW b \in Begins, BeginClose(b) \/ BeginClosed(b)
        PROVE  EndedStays
    BY <1>1, <1>2, <1>7 DEF BeginClose, BeginClosed
  <1>8. ASSUME NEW o \in Ops, NEW t \in Txns,
               OpStart(o, t) \/ OpRefused(o, t) \/ OpMisconfigured(o, t)
        PROVE  EndedStays
    BY <1>1, <1>8 DEF OpStart, OpRefused, OpMisconfigured, txnVars, txnCore
  <1>9. ASSUME NEW n \in Nodes, NodeClose(n) \/ NodeClosed(n)
        PROVE  EndedStays
    BY <1>1, <1>9 DEF NodeClose, NodeClosed, txnVars, txnCore
  <1>10. ASSUME NEW c \in Callers, NEW S \in SUBSET Txns, CallStart(c, S)
         PROVE  EndedStays
    BY <1>2, <1>10 DEF CallStart
  <1>11. ASSUME NEW c \in Callers, NEW t \in Txns, CallRefused(c, t)
         PROVE  EndedStays
    BY <1>1, <1>11 DEF CallRefused, txnVars, txnCore
  <1>12. ASSUME NEW c \in Callers, CallAnswered(c)
         PROVE  EndedStays
    BY <1>1, <1>12 DEF CallAnswered, txnVars, txnCore
  <1>13. CASE UNCHANGED vars
    BY <1>1, <1>13 DEF vars, txnVars, txnCore
  <1>14. QED
    BY <1>3, <1>4, <1>5, <1>6, <1>7, <1>8, <1>9, <1>10, <1>11, <1>12, <1>13 DEF Next

(* An input or a finalize() call has its transactions settled by the time  *)
(* it waits for them.                                                      *)
LEMMA ReplyStart ==
  ASSUME TypeOK, ReplyInv, EndedStays, NEW c \in Callers, NEW S \in SUBSET Txns,
         CallStart(c, S)
  PROVE  ReplyInv'
  <1>1. /\ reply[c] = "idle"
        /\ reply' = [reply EXCEPT ![c] = "waiting"]
        /\ target' = [target EXCEPT ![c] = S]
        /\ Finish(S, ActionOf(c))
        /\ reply \in [Callers -> {"idle", "refused", "waiting", "ok", "error"}]
        /\ target \in [Callers -> SUBSET Txns]
    BY DEF CallStart, TypeOK
  <1>2. ASSUME NEW t \in S
        PROVE  /\ state'[t] \in Ending \cup {"ended"}
               /\ CallKind[c] # "finalize" => want'[t] = ActionOf(c)
    <2>1. CASE state[t] = "active"
      BY <1>1, <1>2, <2>1, FinishMoves DEF Ending
    <2>2. CASE state[t] # "active"
      <3>1. CallKind[c] = "finalize" /\ state[t] \in Ending \cup {"ended"}
        BY <1>2, <2>2 DEF CallStart, Admits, TypeOK, States, Managed
      <3>2. QED
        BY <1>2, <3>1 DEF EndedStays
    <2>3. QED
      BY <2>1, <2>2
  <1>3. ASSUME NEW d \in Callers, d # c
        PROVE  reply'[d] = reply[d] /\ target'[d] = target[d] /\ target[d] \subseteq Txns
    BY <1>1, <1>3
  <1>4. reply'[c] = "waiting" /\ target'[c] = S
    BY <1>1
  <1>5. QED
    BY <1>2, <1>3, <1>4 DEF ReplyInv, EndedStays, ActionOf

(* An answer is given when every transaction has ended.                    *)
LEMMA ReplyAnswered ==
  ASSUME TypeOK, ReplyInv, NEW c \in Callers, CallAnswered(c)
  PROVE  ReplyInv'
  <1>1. /\ reply[c] = "waiting"
        /\ \A t \in target[c] : state[t] = "ended"
        /\ reply' = [reply EXCEPT ![c] = IF CallSucceeded(c) THEN "ok" ELSE "error"]
        /\ UNCHANGED <<target, state, want, failure, outcome>>
        /\ reply \in [Callers -> {"idle", "refused", "waiting", "ok", "error"}]
    BY DEF CallAnswered, Settled, TypeOK, txnVars, txnCore, verdict
  <1>2. QED
    BY <1>1 DEF ReplyInv, CallSucceeded, ActionOf

LEMMA ReplyStep ==
  ASSUME TypeOK, ReplyInv, [Next]_vars
  PROVE  ReplyInv'
  <1> USE DEF callVars
  <1>1. EndedStays
    BY EndedStaysAlways
  <1>2. ASSUME NEW c \in Callers, NEW S \in SUBSET Txns, CallStart(c, S)
        PROVE  ReplyInv'
    BY <1>1, <1>2, ReplyStart
  <1>3. ASSUME NEW c \in Callers, CallAnswered(c)
        PROVE  ReplyInv'
    BY <1>3, ReplyAnswered
  <1>4. ASSUME NEW c \in Callers, NEW t \in Txns, CallRefused(c, t)
        PROVE  ReplyInv'
    <2>1. /\ UNCHANGED <<target, state, want, failure, outcome>>
          /\ reply' = [reply EXCEPT ![c] = "refused"]
          /\ reply \in [Callers -> {"idle", "refused", "waiting", "ok", "error"}]
      BY <1>4 DEF CallRefused, TypeOK, txnVars, txnCore, verdict
    <2>2. QED
      BY <2>1 DEF ReplyInv, ActionOf
  <1>5. ASSUME NEW t \in Txns, BeginStep(t) \/ SettleStep(t) \/ Timeout(t)
        PROVE  UNCHANGED callVars
    BY <1>5 DEF BeginStep, BeginConnected, BeginDiscard, SettleStep, Decide, CommitReturns,
                CommitThrows, Recover, RollbackReturns, RollbackThrows, Close, Timeout, nonTxn
  <1>6. ASSUME NEW t \in Txns, NEW b \in Begins,
               BeginConnect(t, b) \/ BeginReuse(t, b) \/ BeginRefuse(t, b)
        PROVE  UNCHANGED callVars
    BY <1>6 DEF BeginConnect, BeginReuse, BeginRefuse, nonTxn
  <1>7. ASSUME NEW b \in Begins, BeginClose(b) \/ BeginClosed(b)
        PROVE  UNCHANGED callVars
    BY <1>7 DEF BeginClose, BeginClosed
  <1>8. ASSUME NEW o \in Ops, OpStep(o)
        PROVE  UNCHANGED callVars
    BY <1>8 DEF OpStep, OpGranted, OpPrepared, OpExecuted, OpFailed, OpEmpty, OpEmptied
  <1>9. ASSUME NEW o \in Ops, NEW t \in Txns,
               OpStart(o, t) \/ OpRefused(o, t) \/ OpMisconfigured(o, t)
        PROVE  UNCHANGED callVars
    BY <1>9 DEF OpStart, OpRefused, OpMisconfigured
  <1>10. ASSUME NEW n \in Nodes, NodeClose(n) \/ NodeClosed(n)
         PROVE  UNCHANGED callVars
    BY <1>10 DEF NodeClose, NodeClosed
  <1>11. CASE UNCHANGED vars
    BY <1>1, <1>11, ReplyKept DEF vars, nonTxn
  <1>12. QED
    BY <1>1, <1>2, <1>3, <1>4, <1>5, <1>6, <1>7, <1>8, <1>9, <1>10, <1>11, ReplyKept DEF Next

(* An end-transaction input or a finalize() caller told that the           *)
(* transactions are settled as asked can rely on it.                       *)
THEOREM AnswersAreTrue == Spec => []RepliesAreTrue
  <1>1. Init => ReplyInv
    BY DEF Init, ReplyInv
  <1>2. TypeOK /\ ReplyInv /\ [Next]_vars => ReplyInv'
    BY ReplyStep
  <1>3. TypeOK /\ SettleInv /\ ReplyInv => RepliesAreTrue
    <2> SUFFICES ASSUME TypeOK, SettleInv, ReplyInv,
                        NEW c \in Callers, reply[c] = "ok", NEW t \in target[c]
                 PROVE  db[t] = IF ActionOf(c) = "commit" THEN "committed" ELSE "rolledBack"
      BY DEF RepliesAreTrue
    <2>1. t \in Txns
      BY DEF TypeOK
    <2>2. /\ state[t] = "ended" /\ ~failure[t]
          /\ CallKind[c] = "finalize" => outcome[t] = "committed"
          /\ CallKind[c] # "finalize" => want[t] = ActionOf(c)
      BY DEF ReplyInv
    <2>3. /\ outcome[t] = IF want[t] = "commit" THEN "committed" ELSE "rolledBack"
          /\ outcome[t] # "unknown" => db[t] = outcome[t]
      BY <2>1, <2>2 DEF SettleInv, VerdictFits
    <2>4. QED
      BY <2>2, <2>3 DEF ActionOf
  <1>4. QED
    BY <1>1, <1>2, <1>3, TypeCorrect, Settlement, PTL DEF Spec

------------------------------------------------------------------------------
(* Closing a node.                                                         *)

(* Once a node's close has waited for its handlers, later inputs end       *)
(* before their first await.                                               *)
ClosedIsQuiet ==
  \A o \in Ops : nodeState[NodeOf[o]] = "closed" => pc[o] \in {"idle"} \cup OpDone

LEMMA ClosedStep ==
  ASSUME TypeOK, ClosedIsQuiet, [Next]_vars
  PROVE  ClosedIsQuiet'
  <1> USE NodeOfAssumption DEF ClosedIsQuiet, lifeVars, opVars, nonTxn
  <1>1. ASSUME UNCHANGED <<pc, nodeState>>
        PROVE  ClosedIsQuiet'
    BY <1>1
  <1>2. ASSUME NEW o \in Ops, OpStep(o)
        PROVE  ClosedIsQuiet'
    <2>1. /\ UNCHANGED nodeState
          /\ \A p \in Ops : p # o => pc'[p] = pc[p]
          /\ pc[o] \notin {"idle"} \cup OpDone \/ pc'[o] = pc[o]
      <3> USE DEF TypeOK, OpDone, Broken, Leased, Break
      <3>1. CASE OpGranted(o)
        BY <3>1 DEF OpGranted
      <3>2. CASE OpPrepared(o)
        BY <3>2 DEF OpPrepared
      <3>3. CASE OpExecuted(o) \/ OpFailed(o) \/ OpEmpty(o) \/ OpEmptied(o)
        BY <3>3 DEF OpExecuted, OpFailed, OpEmpty, OpEmptied
      <3>4. QED
        BY <1>2, <3>1, <3>2, <3>3 DEF OpStep
    <2>2. QED
      BY <2>1
  <1>3. ASSUME NEW o \in Ops, NEW t \in Txns,
               OpStart(o, t) \/ OpRefused(o, t) \/ OpMisconfigured(o, t)
        PROVE  ClosedIsQuiet'
    <2>1. /\ UNCHANGED nodeState
          /\ \A p \in Ops : p # o => pc'[p] = pc[p]
          /\ nodeState[NodeOf[o]] = "open" \/ pc'[o] \in OpDone
      BY <1>3 DEF OpStart, OpRefused, OpMisconfigured, TypeOK, OpDone, Broken
    <2>2. QED
      BY <2>1
  <1>4. ASSUME NEW n \in Nodes, NodeClose(n) \/ NodeClosed(n)
        PROVE  ClosedIsQuiet'
    BY <1>4 DEF NodeClose, NodeClosed, Quiescent, TypeOK
  <1>5. ASSUME NEW t \in Txns, BeginStep(t) \/ SettleStep(t) \/ Timeout(t)
        PROVE  UNCHANGED <<pc, nodeState>>
    BY <1>5 DEF BeginStep, BeginConnected, BeginDiscard, SettleStep, Decide, CommitReturns,
                CommitThrows, Recover, RollbackReturns, RollbackThrows, Close, Timeout
  <1>6. ASSUME NEW t \in Txns, NEW b \in Begins,
               BeginConnect(t, b) \/ BeginReuse(t, b) \/ BeginRefuse(t, b)
        PROVE  UNCHANGED <<pc, nodeState>>
    BY <1>6 DEF BeginConnect, BeginReuse, BeginRefuse
  <1>7. ASSUME NEW b \in Begins, BeginClose(b) \/ BeginClosed(b)
        PROVE  UNCHANGED <<pc, nodeState>>
    BY <1>7 DEF BeginClose, BeginClosed
  <1>8. ASSUME NEW c \in Callers, NEW S \in SUBSET Txns, CallStart(c, S)
        PROVE  UNCHANGED <<pc, nodeState>>
    BY <1>8 DEF CallStart
  <1>9. ASSUME NEW c \in Callers, NEW t \in Txns, CallRefused(c, t)
        PROVE  UNCHANGED <<pc, nodeState>>
    BY <1>9 DEF CallRefused
  <1>10. ASSUME NEW c \in Callers, CallAnswered(c)
         PROVE  UNCHANGED <<pc, nodeState>>
    BY <1>10 DEF CallAnswered
  <1>11. CASE UNCHANGED vars
    BY <1>11 DEF vars
  <1>12. QED
    BY <1>1, <1>2, <1>3, <1>4, <1>5, <1>6, <1>7, <1>8, <1>9, <1>10, <1>11 DEF Next

(* A closed sql, enqueue or dequeue node has no handler at work            *)
(* (lib/db-operation.js).                                                  *)
THEOREM ClosedNodesAreQuiet == Spec => []CloseWaitsForWork
  <1>1. Init => ClosedIsQuiet
    BY NodeOfAssumption DEF Init, ClosedIsQuiet
  <1>2. TypeOK /\ ClosedIsQuiet /\ [Next]_vars => ClosedIsQuiet'
    BY ClosedStep
  <1>3. ClosedIsQuiet => CloseWaitsForWork
    BY DEF ClosedIsQuiet, CloseWaitsForWork, OpDone, Broken, Leased
  <1>4. QED
    BY <1>1, <1>2, <1>3, TypeCorrect, PTL DEF Spec

------------------------------------------------------------------------------
(* Refinement of AtomicTransaction.                                        *)

(* A step is invisible when it changes neither verdict nor what has been   *)
(* reported or has failed.                                                 *)
LEMMA Invisible ==
  ASSUME UNCHANGED db,
         \A t \in Txns : (state'[t] \in Unborn) <=> (state[t] \in Unborn),
         \A o \in Ops : pc[o] \in Reported \cup Broken \/ pc'[o] \in Reported \cup Broken =>
           /\ txnOf'[o] = txnOf[o]
           /\ (pc'[o] \in Reported) <=> (pc[o] \in Reported)
           /\ (pc'[o] \in Broken) <=> (pc[o] \in Broken)
  PROVE  UNCHANGED Atomic!avars
  <1>1. Phase' = Phase
    BY DEF Phase
  <1>2. Members' = Members
    BY DEF Members
  <1>3. Poisoned' = Poisoned
    BY DEF Poisoned
  <1>4. QED
    BY <1>1, <1>2, <1>3 DEF Atomic!avars

(* A step of finish() that changes what the database made of the           *)
(* transaction shows as a change of its phase alone.                       *)
LEMMA PhaseMoves ==
  ASSUME TypeOK, NEW t \in Txns, NEW made, state[t] \notin Unborn,
         db' = [db EXCEPT ![t] = made], UNCHANGED <<pc, txnOf>>,
         \A u \in Txns : (state'[u] \in Unborn) <=> (state[u] \in Unborn)
  PROVE  /\ Phase[t] = db[t]
         /\ Phase' = [Phase EXCEPT ![t] = made]
         /\ UNCHANGED <<Members, Poisoned>>
  <1>1. Phase[t] = db[t]
    BY DEF Phase
  <1>2. Phase' = [Phase EXCEPT ![t] = made]
    BY DEF Phase, TypeOK
  <1>3. Members' = Members /\ Poisoned' = Poisoned
    BY DEF Members, Poisoned
  <1>4. QED
    BY <1>1, <1>2, <1>3

(* finish() settles the abstract transaction with the call that changes    *)
(* the database; the others are invisible.                                 *)
LEMMA SettleRefines ==
  ASSUME TypeOK, SettleInv, NEW t \in Txns, SettleStep(t)
  PROVE  [Atomic!ANext]_(Atomic!avars)
  <1>1. /\ UNCHANGED <<pc, txnOf>>
        /\ state[t] \notin Unborn
        /\ \A u \in Txns : (state'[u] \in Unborn) <=> (state[u] \in Unborn)
    BY DEF SettleStep, Decide, CommitReturns, CommitThrows, Recover, RollbackReturns,
           RollbackThrows, Close, nonTxn, opVars, Unborn, TypeOK
  <1>2. ASSUME UNCHANGED db
        PROVE  UNCHANGED Atomic!avars
    BY <1>1, <1>2, Invisible
  <1>3. ASSUME db[t] = "open", state[t] = "committing", db' = [db EXCEPT ![t] = "committed"]
        PROVE  Atomic!Commit(t)
    <2>1. ~Poisoned[t]
      BY <1>3 DEF SettleInv, BrokenIsMarked, Poisoned
    <2>2. QED
      BY <1>1, <1>3, <2>1, PhaseMoves DEF Atomic!Commit
  <1>4. ASSUME NEW made \in {"open", "rolledBack"}, Undo(t, made)
        PROVE  Atomic!RollBack(t) \/ UNCHANGED Atomic!avars
    <2>1. CASE db[t] = "open" /\ made = "rolledBack"
      <3>1. db' = [db EXCEPT ![t] = "rolledBack"]
        BY <1>4, <2>1 DEF Undo
      <3>2. QED
        BY <1>1, <2>1, <3>1, PhaseMoves DEF Atomic!RollBack
    <2>2. CASE db[t] # "open" \/ made = "open"
      <3>1. UNCHANGED db
        BY <1>4, <2>2 DEF Undo, TypeOK
      <3>2. QED
        BY <1>2, <3>1
    <2>3. QED
      BY <1>4, <2>1, <2>2
  <1>5. Atomic!Commit(t) \/ Atomic!RollBack(t) => Atomic!ANext
    BY DEF Atomic!ANext
  <1>6. state[t] = "committing" => db[t] = "open"
    BY DEF SettleInv, VerdictFits
  <1>7. CASE Decide(t)
    BY <1>2, <1>7 DEF Decide
  <1>8. CASE CommitReturns(t)
    BY <1>3, <1>5, <1>6, <1>8 DEF CommitReturns
  <1>9. CASE CommitThrows(t)
    <2>1. CASE db' = [db EXCEPT ![t] = "open"]
      <3>1. UNCHANGED db
        BY <1>6, <1>9, <2>1 DEF CommitThrows, TypeOK
      <3>2. QED
        BY <1>2, <3>1
    <2>2. CASE db' = [db EXCEPT ![t] = "committed"]
      BY <1>3, <1>5, <1>6, <1>9, <2>2 DEF CommitThrows
    <2>3. QED
      BY <1>9, <2>1, <2>2 DEF CommitThrows
  <1>10. CASE Recover(t)
    BY <1>4, <1>5, <1>10 DEF Recover
  <1>11. CASE RollbackReturns(t)
    BY <1>4, <1>5, <1>11 DEF RollbackReturns
  <1>12. CASE RollbackThrows(t)
    BY <1>4, <1>5, <1>12 DEF RollbackThrows
  <1>13. CASE Close(t)
    BY <1>2, <1>4, <1>5, <1>13 DEF Close
  <1>14. QED
    BY <1>7, <1>8, <1>9, <1>10, <1>11, <1>12, <1>13 DEF SettleStep

(* An error of an operation poisons a transaction that is still open.      *)
LEMMA ErrorRefines ==
  ASSUME TypeOK, SettleInv, NEW o \in Ops, NEW t \in Txns, NEW place \in Broken,
         state[t] \in {"active", "draining"}, UNCHANGED <<state, db>>,
         pc[o] \notin Reported, txnOf[o] = t \/ pc[o] = "idle",
         pc' = [pc EXCEPT ![o] = place], txnOf' = [txnOf EXCEPT ![o] = t]
  PROVE  Atomic!Poison(t)
  <1>1. Phase[t] = "open" /\ Phase' = Phase
    BY DEF Phase, SettleInv, VerdictFits, Unborn
  <1>2. /\ pc'[o] = place /\ txnOf'[o] = t
        /\ place \notin Reported
        /\ \A p \in Ops : p # o => pc'[p] = pc[p] /\ txnOf'[p] = txnOf[p]
    BY DEF TypeOK, Broken, Reported
  <1>3. Members' = Members
    BY <1>2 DEF Members
  <1>4. Poisoned' = [Poisoned EXCEPT ![t] = TRUE]
    <2>1. Poisoned'[t] = TRUE
      BY <1>2 DEF Poisoned
    <2>2. \A u \in Txns : u # t => Poisoned'[u] = Poisoned[u]
      BY <1>2 DEF Poisoned, Broken
    <2>3. QED
      BY <2>1, <2>2 DEF Poisoned
  <1>5. QED
    BY <1>1, <1>3, <1>4 DEF Atomic!Poison

(* A reported success belongs to a transaction that is still open.         *)
LEMMA SuccessRefines ==
  ASSUME TypeOK, SettleInv, NEW o \in Ops, NEW t \in Txns, NEW place \in Reported,
         state[t] \in {"active", "draining"}, UNCHANGED <<db, txnOf>>,
         \A u \in Txns : (state'[u] \in Unborn) <=> (state[u] \in Unborn),
         pc[o] \in Leased, txnOf[o] = t, pc' = [pc EXCEPT ![o] = place]
  PROVE  Atomic!Apply(t, o)
  <1>1. Phase[t] = "open" /\ Phase' = Phase
    BY DEF Phase, SettleInv, VerdictFits, Unborn
  <1>2. /\ pc'[o] = place
        /\ place \notin Broken /\ pc[o] \notin Broken
        /\ \A p \in Ops : p # o => pc'[p] = pc[p]
    BY DEF TypeOK, Broken, Reported, Leased
  <1>3. Members' = [Members EXCEPT ![t] = @ \cup {o}]
    <2>1. Members'[t] = Members[t] \cup {o}
      BY <1>2 DEF Members
    <2>2. \A u \in Txns : u # t => Members'[u] = Members[u]
      BY <1>2 DEF Members
    <2>3. QED
      BY <2>1, <2>2 DEF Members
  <1>4. Poisoned' = Poisoned
    BY <1>2 DEF Poisoned
  <1>5. QED
    BY <1>1, <1>3, <1>4 DEF Atomic!Apply

(* A handler's error exit, result and empty result are the abstract        *)
(* operations; waiting for and taking a lease is invisible.                *)
LEMMA OpRefines ==
  ASSUME TypeOK, LeaseInv, SettleInv, NEW o \in Ops, OpStep(o)
  PROVE  [Atomic!ANext]_(Atomic!avars)
  <1> DEFINE t == txnOf[o]
  <1> USE DEF txnVars, txnCore, verdict
  <1>1. ASSUME pc[o] \in Queued, Break(o), UNCHANGED <<txnCore, txnOf>>
        PROVE  Atomic!Poison(t)
    <2>1. t \in Txns /\ state[t] \in {"active", "draining"}
      BY <1>1, QueuedIsNotSettling
    <2>2. \E place \in Broken : pc' = [pc EXCEPT ![o] = place]
      BY <1>1 DEF Break, Broken
    <2>3. txnOf' = [txnOf EXCEPT ![o] = t]
      BY <1>1 DEF TypeOK
    <2>4. pc[o] \notin Reported
      BY <1>1 DEF Reported, Queued, Leased
    <2>5. QED
      BY <1>1, <2>1, <2>2, <2>3, <2>4, ErrorRefines
  <1>2. ASSUME NEW place \in {"prepare", "executing", "refused"}, pc[o] \in Queued,
               pc' = [pc EXCEPT ![o] = place], UNCHANGED <<state, db, txnOf>>
        PROVE  UNCHANGED Atomic!avars
    BY <1>2, Invisible DEF TypeOK, Queued, Leased, Reported, Broken
  <1>3. ASSUME NEW place \in Reported, pc[o] \in Leased, pc' = [pc EXCEPT ![o] = place],
               UNCHANGED <<db, txnOf>>,
               \A u \in Txns : (state'[u] \in Unborn) <=> (state[u] \in Unborn)
        PROVE  Atomic!Apply(t, o)
    <2>1. t \in Txns /\ state[t] \in {"active", "draining"}
      BY <1>3, QueuedIsNotSettling DEF Queued
    <2>2. QED
      BY <1>3, <2>1, SuccessRefines
  <1>4. t \in Txns /\ (Atomic!Poison(t) \/ Atomic!Apply(t, o)) => Atomic!ANext
    BY DEF Atomic!ANext
  <1>5. pc[o] \in Queued => t \in Txns
    BY QueuedIsNotSettling
  <1>6. CASE OpGranted(o)
    <2>1. pc[o] \in Queued /\ UNCHANGED <<txnCore, txnOf>>
      BY <1>6 DEF OpGranted, Queued
    <2>2. QED
      BY <1>1, <1>2, <1>4, <1>5, <1>6, <2>1 DEF OpGranted
  <1>7. CASE OpPrepared(o)
    <2>1. pc[o] \in Queued /\ UNCHANGED <<txnCore, txnOf>>
      BY <1>7 DEF OpPrepared, Queued, Leased
    <2>2. QED
      BY <1>1, <1>2, <1>4, <1>5, <1>7, <2>1 DEF OpPrepared
  <1>8. CASE OpExecuted(o)
    BY <1>3, <1>4, <1>5, <1>8 DEF OpExecuted, Reported, Leased, Queued
  <1>9. CASE OpFailed(o)
    BY <1>1, <1>4, <1>5, <1>9 DEF OpFailed, Leased, Queued
  <1>10. CASE OpEmpty(o)
    <2>1. \A u \in Txns : (state'[u] \in Unborn) <=> (state[u] \in Unborn)
      BY <1>10, FinishMoves DEF OpEmpty, Unborn
    <2>2. /\ pc' = [pc EXCEPT ![o] = "emptied"] /\ pc[o] \in Leased
          /\ UNCHANGED <<db, txnOf>>
      BY <1>10 DEF OpEmpty, Leased
    <2>3. QED
      BY <1>3, <1>4, <1>5, <2>1, <2>2 DEF Reported, Queued
  <1>11. CASE OpEmptied(o)
    BY <1>11, Invisible DEF OpEmptied, TypeOK, Reported, Broken
  <1>12. QED
    BY <1>6, <1>7, <1>8, <1>9, <1>10, <1>11 DEF OpStep

(* Every step is an abstract step or invisible.                            *)
LEMMA StepRefines ==
  ASSUME TypeOK, LeaseInv, SettleInv, [Next]_vars
  PROVE  [Atomic!ANext]_(Atomic!avars)
  <1> USE DEF txnVars, txnCore, verdict, nonTxn, opVars
  <1>1. ASSUME UNCHANGED <<db, pc, txnOf>>,
               \A u \in Txns : (state'[u] \in Unborn) <=> (state[u] \in Unborn)
        PROVE  UNCHANGED Atomic!avars
    BY <1>1, Invisible
  <1>2. ASSUME NEW t \in Txns, BeginStep(t)
        PROVE  [Atomic!ANext]_(Atomic!avars)
    <2>1. /\ UNCHANGED <<db, pc, txnOf>>
          /\ state[t] \in Unborn
      BY <1>2 DEF BeginStep, BeginConnected, BeginDiscard, Unborn
    <2>2. CASE state' = [state EXCEPT ![t] = "active"]
      <3>1. Phase[t] = "unborn" /\ Phase' = [Phase EXCEPT ![t] = "open"]
        BY <2>1, <2>2 DEF Phase, TypeOK, Unborn, SettleInv, VerdictFits
      <3>2. Members' = Members /\ Poisoned' = Poisoned
        BY <2>1 DEF Members, Poisoned
      <3>3. QED
        BY <3>1, <3>2 DEF Atomic!ANext, Atomic!Open
    <2>3. ASSUME NEW s \in {"late", "discarded"}, state' = [state EXCEPT ![t] = s]
          PROVE  UNCHANGED Atomic!avars
      BY <1>1, <2>1, <2>3 DEF TypeOK, Unborn
    <2>4. QED
      BY <1>2, <2>2, <2>3 DEF BeginStep, BeginConnected, BeginDiscard
  <1>3. ASSUME NEW t \in Txns, Timeout(t)
        PROVE  UNCHANGED Atomic!avars
    BY <1>1, <1>3, FinishMoves DEF Timeout, Unborn
  <1>4. ASSUME NEW t \in Txns, NEW b \in Begins,
               BeginConnect(t, b) \/ BeginReuse(t, b) \/ BeginRefuse(t, b)
        PROVE  UNCHANGED Atomic!avars
    BY <1>1, <1>4 DEF BeginConnect, BeginReuse, BeginRefuse, TypeOK, Unborn
  <1>5. ASSUME NEW b \in Begins, BeginClose(b) \/ BeginClosed(b)
        PROVE  UNCHANGED Atomic!avars
    BY <1>1, <1>5, FinishMoves DEF BeginClose, BeginClosed, Unborn
  <1>6. ASSUME NEW o \in Ops, NEW t \in Txns, OpStart(o, t) \/ OpRefused(o, t)
        PROVE  UNCHANGED Atomic!avars
    BY <1>6, Invisible DEF OpStart, OpRefused, TypeOK, Reported, Broken
  <1>7. ASSUME NEW o \in Ops, NEW t \in Txns, OpMisconfigured(o, t)
        PROVE  Atomic!ANext
    <2>1. /\ state[t] = "active" /\ pc[o] = "idle"
          /\ UNCHANGED <<state, db>>
          /\ pc' = [pc EXCEPT ![o] = "failed"] /\ txnOf' = [txnOf EXCEPT ![o] = t]
      BY <1>7 DEF OpMisconfigured, Admits
    <2>2. Atomic!Poison(t)
      BY <2>1, ErrorRefines DEF Reported, Broken
    <2>3. QED
      BY <2>2 DEF Atomic!ANext
  <1>8. ASSUME NEW n \in Nodes, NodeClose(n) \/ NodeClosed(n)
        PROVE  UNCHANGED Atomic!avars
    BY <1>1, <1>8 DEF NodeClose, NodeClosed
  <1>9. ASSUME NEW c \in Callers, NEW S \in SUBSET Txns, CallStart(c, S)
        PROVE  UNCHANGED Atomic!avars
    BY <1>1, <1>9, FinishMoves DEF CallStart, Unborn
  <1>10. ASSUME NEW c \in Callers, NEW t \in Txns, CallRefused(c, t)
         PROVE  UNCHANGED Atomic!avars
    BY <1>1, <1>10 DEF CallRefused
  <1>11. ASSUME NEW c \in Callers, CallAnswered(c)
         PROVE  UNCHANGED Atomic!avars
    BY <1>1, <1>11 DEF CallAnswered
  <1>12. CASE UNCHANGED vars
    BY <1>1, <1>12 DEF vars
  <1>13. QED
    BY <1>2, <1>3, <1>4, <1>5, <1>6, <1>7, <1>8, <1>9, <1>10, <1>11, <1>12,
       SettleRefines, OpRefines DEF Next

(* The registry and its users implement AtomicTransaction.                 *)
THEOREM Refinement == Spec => ImplementsAtomic
  <1>1. Init => Atomic!AInit
    BY DEF Init, Atomic!AInit, Phase, Members, Poisoned, Unborn, Reported, Broken
  <1>2. TypeOK /\ LeaseInv /\ SettleInv /\ [Next]_vars => [Atomic!ANext]_(Atomic!avars)
    BY StepRefines
  <1>3. QED
    BY <1>1, <1>2, TypeCorrect, LeaseChain, Settlement, PTL
       DEF Spec, ImplementsAtomic, Atomic!ASpec

(* A step within these places, or outside what they depend on, does not    *)
(* show.                                                                   *)
LEMMA ShownStays ==
  ASSUME TypeOK, TypeOK',
         \A u \in Txns :
           \/ {state[u], state'[u]} \subseteq Unborn
           \/ {state[u], state'[u]} \subseteq Ending
           \/ state[u] = "active" /\ state'[u] = "active"
           \/ /\ state'[u] = state[u]
              /\ failure'[u] = failure[u]
              /\ outcome'[u] = outcome[u]
  PROVE  UNCHANGED Shown
  <1>1. ASSUME NEW u \in Txns PROVE Shown'[u] = Shown[u]
    <2>1. CASE {state[u], state'[u]} \subseteq Unborn
      BY <2>1 DEF Shown
    <2>2. CASE {state[u], state'[u]} \subseteq Ending
      BY <2>2 DEF Shown, Unborn, Ending, Settling
    <2>3. CASE state[u] = "active" /\ state'[u] = "active"
      BY <2>3 DEF Shown, Unborn, Ending, Settling
    <2>4. CASE /\ state'[u] = state[u]
               /\ failure'[u] = failure[u]
               /\ outcome'[u] = outcome[u]
      BY <2>4 DEF Shown, ResultOf
    <2>5. QED
      BY <2>1, <2>2, <2>3, <2>4
  <1>2. QED
    BY <1>1 DEF Shown

(* finish() is the end of those that were active.                          *)
LEMMA FinishShows ==
  ASSUME TypeOK, TypeOK', NEW S \in SUBSET Txns, NEW action, Finish(S, action),
         UNCHANGED <<failure, outcome>>
  PROVE  View!VNext
  <1> DEFINE first == {t \in S : state[t] = "active"}
  <1>1. \A t \in Txns : state'[t] = IF t \in first THEN "draining" ELSE state[t]
    BY DEF Finish
  <1>2. \A t \in first : Shown[t] = "active"
    BY DEF Shown, Unborn, Ending, Settling
  <1>3. ASSUME NEW t \in Txns
        PROVE  Shown'[t] = IF t \in first THEN "ending" ELSE Shown[t]
    <2>1. CASE t \in first
      BY <1>1, <2>1 DEF Shown, Unborn, Ending, Settling
    <2>2. CASE t \notin first
      BY <1>1, <2>2 DEF Shown, ResultOf
    <2>3. QED
      BY <2>1, <2>2
  <1>4. Shown' = [t \in Txns |-> IF t \in first THEN "ending" ELSE Shown[t]]
    BY <1>3 DEF Shown
  <1>5. View!End(first)
    BY <1>2, <1>4 DEF View!End
  <1>6. first \in SUBSET Txns
    OBVIOUS
  <1>7. QED
    BY <1>5, <1>6 DEF View!VNext

(* A step of one transaction changes what is shown of it alone.            *)
LEMMA ShownAlone ==
  ASSUME TypeOK, NEW t \in Txns, NEW s, state' = [state EXCEPT ![t] = s],
         \A u \in Txns \ {t} : failure'[u] = failure[u] /\ outcome'[u] = outcome[u]
  PROVE  Shown' = [Shown EXCEPT ![t] = Shown'[t]]
  <1>1. ASSUME NEW u \in Txns, u # t PROVE Shown'[u] = Shown[u]
    <2>1. state'[u] = state[u] /\ failure'[u] = failure[u] /\ outcome'[u] = outcome[u]
      BY <1>1 DEF TypeOK
    <2>2. QED
      BY <2>1 DEF Shown, ResultOf
  <1>2. QED
    BY <1>1 DEF Shown

(* Only a connection that is handed out begins, only close() settles.      *)
LEMMA OneShows ==
  ASSUME TypeOK, TypeOK', NEW t \in Txns, BeginStep(t) \/ SettleStep(t)
  PROVE  [View!VNext]_Shown
  <1>1. ASSUME state[t] \in Unborn, state' = [state EXCEPT ![t] = "active"],
               UNCHANGED <<failure, outcome>>
        PROVE  View!VNext
    <2>1. Shown[t] = "unborn" /\ Shown'[t] = "active"
      BY <1>1 DEF Shown, TypeOK, Unborn, Ending, Settling
    <2>2. View!Begin(t)
      BY <1>1, <2>1, ShownAlone DEF View!Begin
    <2>3. QED
      BY <2>2 DEF View!VNext
  <1>2. CASE Close(t)
    <2>1. state[t] = "closing" /\ state'[t] = "ended"
      BY <1>2 DEF Close, TypeOK
    <2>2. Shown[t] = "ending" /\ Shown'[t] \in {"committed", "failed"}
      BY <2>1 DEF Shown, ResultOf, Unborn, Ending, Settling
    <2>3. \A u \in Txns \ {t} : failure'[u] = failure[u] /\ outcome'[u] = outcome[u]
      BY <1>2 DEF Close, TypeOK
    <2>4. View!Settle(t, Shown'[t])
      BY <1>2, <2>2, <2>3, ShownAlone DEF View!Settle, Close
    <2>5. QED
      BY <2>2, <2>4 DEF View!VNext, View!Outcomes
  <1>3. CASE SettleStep(t) /\ ~Close(t)
    <2>1. {state[t], state'[t]} \subseteq Ending
      BY <1>3 DEF SettleStep, Decide, CommitReturns, CommitThrows, Recover,
                  RollbackReturns, RollbackThrows, Ending, Settling, TypeOK
    <2>2. \A u \in Txns \ {t} : /\ state'[u] = state[u]
                               /\ failure'[u] = failure[u]
                               /\ outcome'[u] = outcome[u]
      BY <1>3 DEF SettleStep, Decide, CommitReturns, CommitThrows, Recover,
                  RollbackReturns, RollbackThrows, TypeOK
    <2>3. QED
      BY <2>1, <2>2, ShownStays
  <1>4. CASE BeginStep(t)
    <2>1. /\ state[t] \in Unborn
          /\ UNCHANGED <<failure, outcome>>
          /\ \E s \in {"active", "late", "discarded"} : state' = [state EXCEPT ![t] = s]
      BY <1>4 DEF BeginStep, BeginConnected, BeginDiscard, Unborn, verdict
    <2>2. ASSUME NEW s \in {"late", "discarded"}, state' = [state EXCEPT ![t] = s]
          PROVE  UNCHANGED Shown
      BY <2>1, <2>2, ShownStays DEF TypeOK, Unborn
    <2>3. QED
      BY <1>1, <2>1, <2>2
  <1>5. QED
    BY <1>2, <1>3, <1>4

(* Every step is a step of the view or does not show.                      *)
LEMMA StepShows ==
  ASSUME TypeOK, TypeOK', [Next]_vars
  PROVE  [View!VNext]_Shown
  <1> USE DEF txnVars, txnCore, verdict
  <1>1. ASSUME UNCHANGED <<state, failure, outcome>>
        PROVE  UNCHANGED Shown
    BY <1>1, ShownStays
  <1>2. ASSUME NEW t \in Txns, Timeout(t) PROVE View!VNext
    BY <1>2, FinishShows DEF Timeout
  <1>3. ASSUME NEW t \in Txns, NEW b \in Begins, BeginConnect(t, b)
        PROVE  UNCHANGED Shown
    BY <1>3, ShownStays DEF BeginConnect, TypeOK, Unborn
  <1>4. ASSUME NEW t \in Txns, NEW b \in Begins, BeginReuse(t, b) \/ BeginRefuse(t, b)
        PROVE  UNCHANGED Shown
    BY <1>1, <1>4 DEF BeginReuse, BeginRefuse
  <1>5. ASSUME NEW b \in Begins, BeginClose(b) PROVE View!VNext
    BY <1>5, FinishShows DEF BeginClose, Tracked
  <1>6. ASSUME NEW b \in Begins, BeginClosed(b) PROVE UNCHANGED Shown
    BY <1>1, <1>6 DEF BeginClosed
  <1>7. ASSUME NEW o \in Ops, OpEmpty(o) PROVE [View!VNext]_Shown
    <2>1. CASE txnOf[o] \in Txns
      BY <1>7, <2>1, FinishShows DEF OpEmpty
    <2>2. CASE txnOf[o] \notin Txns
      BY <1>1, <1>7, <2>2 DEF OpEmpty, Finish, TypeOK
    <2>3. QED
      BY <2>1, <2>2
  <1>8. ASSUME NEW o \in Ops, OpStep(o), ~OpEmpty(o) PROVE UNCHANGED Shown
    BY <1>1, <1>8 DEF OpStep, OpGranted, OpPrepared, OpExecuted, OpFailed, OpEmptied
  <1>9. ASSUME NEW o \in Ops, NEW t \in Txns,
               OpStart(o, t) \/ OpRefused(o, t) \/ OpMisconfigured(o, t)
        PROVE  UNCHANGED Shown
    BY <1>1, <1>9 DEF OpStart, OpRefused, OpMisconfigured
  <1>10. ASSUME NEW n \in Nodes, NodeClose(n) \/ NodeClosed(n) PROVE UNCHANGED Shown
    BY <1>1, <1>10 DEF NodeClose, NodeClosed
  <1>11. ASSUME NEW c \in Callers, NEW S \in SUBSET Txns, CallStart(c, S) PROVE View!VNext
    BY <1>11, FinishShows DEF CallStart
  <1>12. ASSUME NEW c \in Callers, CallAnswered(c) \/ \E t \in Txns : CallRefused(c, t)
         PROVE  UNCHANGED Shown
    BY <1>1, <1>12 DEF CallAnswered, CallRefused
  <1>13. CASE UNCHANGED vars
    BY <1>1, <1>13 DEF vars
  <1>14. QED
    BY <1>2, <1>3, <1>4, <1>5, <1>6, <1>7, <1>8, <1>9, <1>10, <1>11, <1>12, <1>13,
       OneShows DEF Next

(* What capture() and finalize() let other packages see of the registry is *)
(* RegistryView, from which SmoComposite takes its steps.                  *)
THEOREM RegistryIsView == Spec => ImplementsView
  <1>1. Init => View!VInit
    <2>1. ASSUME Init, NEW u \in Txns PROVE Shown[u] = "unborn"
      BY <2>1 DEF Init, Shown, Unborn
    <2>2. QED
      BY <2>1 DEF View!VInit, Shown
  <1>2. TypeOK /\ TypeOK' /\ [Next]_vars => [View!VNext]_Shown
    BY StepShows
  <1>3. QED
    BY <1>1, <1>2, TypeCorrect, PTL DEF Spec, ImplementsView, View!VSpec

(* The registry keeps both contracts: with the flow and with the packages  *)
(* that capture and finalize its transactions.                             *)
THEOREM ContractsAreKept == Spec => ImplementsItsContracts
  BY Refinement, RegistryIsView, PTL DEF ImplementsItsContracts

(* A connection has one user at a time, the settlement included: acquire() *)
(* and finish() of the registry.                                           *)
THEOREM ExclusiveUse == Spec => []ConnectionIsExclusive
  BY MutualExclusion, QuietSettlement, PTL DEF ConnectionIsExclusive

(* What failed or timed out is not committed by anyone.                    *)
THEOREM BrokenWorkIsUndone == Spec => []BrokenNeverCommits
  BY FailureRollsBack, TimeoutRollsBack, PTL DEF BrokenNeverCommits

(* Outcomes and answers of finish() and finalize() are what the database   *)
(* did.                                                                    *)
THEOREM ReportsAreTruthful == Spec => []ReportsAreTrue
  BY OutcomesAreTrue, AnswersAreTrue, PTL DEF ReportsAreTrue

(* Closed nodes leave neither a connection nor a handler behind.           *)
THEOREM CloseIsClean == Spec => []NothingIsLeftBehind
  BY NoOrphans, ClosedNodesAreQuiet, PTL DEF NothingIsLeftBehind

==============================================================================
