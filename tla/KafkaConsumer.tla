---------------------------- MODULE KafkaConsumer -----------------------------
(***************************************************************************)
(* Manual commits of the oci-kafka-consumer node: each partition holds one *)
(* record or batch that the flow confirms through a commit token, while    *)
(* the group's rebalances take partitions away and give them back.         *)
(*                                                                         *)
(* Offsets run from 1 to Last in each partition.  A step is a callback of  *)
(* the native client, a turn of the event loop, or the answer of a commit. *)
(***************************************************************************)
EXTENDS Naturals

CONSTANTS
  Partitions,
  Last,           \* newest offset of each partition
  Limit,          \* batchLimit
  MaxRebalances,  \* bound: times partitions are taken away
  MaxFaults,      \* bound: commits that fail
  MaxTokens       \* bound: deliveries

ASSUME SizeAssumption == Last \in Nat \ {0} /\ Limit \in Nat \ {0}
ASSUME BoundAssumption == MaxRebalances \in Nat /\ MaxFaults \in Nat /\ MaxTokens \in Nat

VARIABLES
  mode,        \* outputMode
  running,     \* consumer.run() has begun
  closing,     \* closing
  assigned,    \* partitions the group gave this consumer
  position,    \* the native client's read position of each partition
  paused,      \* partitions paused in the native client
  tokens,      \* tokens handed out
  entry,       \* what each token stands for: records first .. next - 1 of part
  pending,     \* tokens in pendingCommits
  queued,      \* those whose dispatchHandle is set: not sent yet
  committing,  \* those whose committing flag is set
  calls,       \* commitOffsets() of each token: none, sent, applied, fenced off
  committed,   \* the group's committed offset of each partition
  rebalances,  \* times partitions were taken away
  faults,      \* commits that failed
  requested,   \* records whose token the flow has confirmed
  answered     \* tokens whose commit was answered with success

client == <<assigned, position, paused>>
holds  == <<tokens, entry, pending, queued, committing>>
bounds == <<rebalances, faults>>
vars   == <<mode, running, closing, client, holds, calls, committed, bounds, requested, answered>>

Offsets == 1 .. Last
Tokens  == 1 .. MaxTokens
Records == Partitions \X Offsets
Covered(t) == {entry[t].part} \X (entry[t].first .. entry[t].next - 1)

TypeOK ==
  /\ mode \in {"individual", "batch"}
  /\ running \in BOOLEAN /\ closing \in BOOLEAN
  /\ assigned \subseteq Partitions /\ paused \subseteq Partitions
  /\ position \in [Partitions -> 1 .. Last + 1]
  /\ tokens \in 0 .. MaxTokens
  /\ entry \in [1 .. tokens -> [part : Partitions, first : Offsets, next : 2 .. Last + 1]]
  /\ pending \subseteq 1 .. tokens
  /\ queued \subseteq pending /\ committing \subseteq 1 .. tokens
  /\ calls \in [Tokens -> {"none", "sent", "applied", "fenced"}]
  /\ committed \in [Partitions -> 1 .. Last + 1]
  /\ rebalances \in 0 .. MaxRebalances /\ faults \in 0 .. MaxFaults
  /\ requested \subseteq Records /\ answered \subseteq 1 .. tokens

Init ==
  /\ mode \in {"individual", "batch"}
  /\ running = FALSE
  /\ closing = FALSE
  /\ assigned = {}
  /\ position = [p \in Partitions |-> 1]
  /\ paused = {}
  /\ tokens = 0
  /\ entry = [t \in {} |-> 0]
  /\ pending = {}
  /\ queued = {}
  /\ committing = {}
  /\ calls = [t \in Tokens |-> "none"]
  /\ committed = [p \in Partitions |-> 1]
  /\ rebalances = 0
  /\ faults = 0
  /\ requested = {}
  /\ answered = {}

(* start(): connect, subscribe and run, unless close came first.           *)
Start ==
  /\ ~running /\ ~closing
  /\ running' = TRUE
  /\ UNCHANGED <<mode, closing, client, holds, calls, committed, bounds, requested, answered>>

------------------------------------------------------------------------------
(* Rebalances.                                                             *)

Holding(p) == {t \in pending : entry[t].part = p}

(* The pause of a dropped entry ends with it.                              *)
Resumed(parts) == paused \ {p \in parts : Holding(p) # {}}

(* onRebalance(): the entries of these partitions are dropped; the broker  *)
(* no longer takes their commits.                                          *)
Invalidate(parts) ==
  LET dropped == UNION {Holding(p) : p \in parts} IN
  /\ pending' = pending \ dropped
  /\ queued' = queued \ dropped
  /\ paused' = Resumed(parts)
  /\ calls' = [t \in Tokens |-> IF calls[t] = "sent" /\ entry[t].part \in parts THEN "fenced" ELSE calls[t]]

(* Partitions are revoked, or all of them are lost.                        *)
Revoke(parts) ==
  /\ ~closing /\ parts # {} /\ parts \subseteq assigned
  /\ rebalances < MaxRebalances
  /\ rebalances' = rebalances + 1
  /\ assigned' = assigned \ parts
  /\ Invalidate(parts)
  /\ UNCHANGED <<mode, running, closing, position, tokens, entry, committing, committed, faults, requested, answered>>

(* An assigned partition is read from the group's committed offset.        *)
Assign(parts) ==
  /\ running /\ ~closing /\ parts # {} /\ parts \cap assigned = {}
  /\ assigned' = assigned \cup parts
  /\ position' = [p \in Partitions |-> IF p \in parts THEN committed[p] ELSE position[p]]
  /\ Invalidate(parts)
  /\ UNCHANGED <<mode, running, closing, tokens, entry, committing, committed, bounds, requested, answered>>

------------------------------------------------------------------------------
(* Deliveries.                                                             *)

Delivers(p, n) ==
  /\ ~closing /\ p \in assigned \ paused
  /\ position[p] + n <= Last + 1

Hold(p, n) ==
  /\ tokens < MaxTokens
  /\ tokens' = tokens + 1
  /\ entry' = [t \in 1 .. tokens + 1 |->
                 IF t = tokens + 1 THEN [part |-> p, first |-> position[p], next |-> position[p] + n] ELSE entry[t]]
  /\ pending' = pending \cup {tokens + 1}
  /\ position' = [position EXCEPT ![p] = @ + n]

(* emitRecord(): the partition is paused and the record sent at once.      *)
EmitRecord(p) ==
  /\ mode = "individual"
  /\ Delivers(p, 1)
  /\ Hold(p, 1)
  /\ paused' = paused \cup {p}
  /\ UNCHANGED <<mode, running, closing, assigned, queued, committing, calls, committed, bounds, requested, answered>>

(* Fault: a batch is held whether or not one is held already.              *)
BlockedNever(p) == FALSE

Blocked(p) == Holding(p) # {}

(* emitBatch(): the batch is sent a turn later, when the partition is      *)
(* paused; a batch that comes before that turn pauses it and is not        *)
(* resolved, so it comes again.                                            *)
EmitBatch(p, n) ==
  /\ mode = "batch"
  /\ Delivers(p, n)
  /\ \/ /\ Blocked(p)
        /\ paused' = paused \cup {p}
        /\ UNCHANGED <<position, tokens, entry, pending, queued>>
     \/ /\ ~Blocked(p)
        /\ Hold(p, n)
        /\ queued' = queued \cup {tokens + 1}
        /\ UNCHANGED paused
  /\ UNCHANGED <<mode, running, closing, assigned, committing, calls, committed, bounds, requested, answered>>

Dispatch(t) ==
  /\ t \in queued
  /\ queued' = queued \ {t}
  /\ paused' = paused \cup {entry[t].part}
  /\ UNCHANGED <<mode, running, closing, assigned, position, tokens, entry, pending, committing, calls, committed, bounds, requested, answered>>

------------------------------------------------------------------------------
(* commitMessage(), called by the commit node with a token.  A token that  *)
(* is stale, not sent yet or being committed is refused.                   *)
Commit(t) ==
  /\ ~closing /\ t \in pending \ (queued \cup committing)
  /\ committing' = committing \cup {t}
  /\ calls' = [calls EXCEPT ![t] = "sent"]
  /\ requested' = requested \cup Covered(t)
  /\ UNCHANGED <<mode, running, closing, client, tokens, entry, pending, queued, committed, bounds, answered>>

(* The broker takes the commit of a consumer that owns the partition.      *)
Apply(t) ==
  /\ calls[t] = "sent"
  /\ calls' = [calls EXCEPT ![t] = "applied"]
  /\ committed' = [committed EXCEPT ![entry[t].part] = entry[t].next]
  /\ UNCHANGED <<mode, running, closing, client, holds, bounds, requested, answered>>

(* Fault: the entry is not looked at again after the call.                 *)
StillHeldAlways(t) == TRUE

StillHeld(t) == ~closing /\ t \in pending

(* Fault: the flag of a failed commit stays set.                           *)
UnlockNot(t) == committing

Unlock(t) == committing \ {t}

CommitAnswers(t) ==
  /\ calls[t] = "applied"
  /\ calls' = [calls EXCEPT ![t] = "none"]
  /\ \/ /\ StillHeld(t)
        /\ paused' = paused \ {entry[t].part}
        /\ pending' = pending \ {t}
        /\ answered' = answered \cup {t}
        /\ UNCHANGED committing
     \/ /\ ~StillHeld(t)
        /\ committing' = Unlock(t)
        /\ UNCHANGED <<paused, pending, answered>>
  /\ UNCHANGED <<mode, running, closing, assigned, position, tokens, entry, queued, committed, bounds, requested>>

(* A commit that fails may have been taken by the broker.                  *)
CommitFails(t) ==
  /\ \/ calls[t] = "fenced" /\ UNCHANGED faults
     \/ /\ calls[t] \in {"sent", "applied"}
        /\ faults < MaxFaults
        /\ faults' = faults + 1
  /\ calls' = [calls EXCEPT ![t] = "none"]
  /\ committing' = Unlock(t)
  /\ UNCHANGED <<mode, running, closing, client, tokens, entry, pending, queued, committed, rebalances, requested, answered>>

(* close: every entry is dropped, then the consumer disconnects.           *)
Close ==
  /\ ~closing
  /\ closing' = TRUE
  /\ pending' = {}
  /\ queued' = queued \ pending
  /\ UNCHANGED <<mode, running, client, tokens, entry, committing, calls, committed, bounds, requested, answered>>

------------------------------------------------------------------------------

Delivery(p) == EmitRecord(p) \/ \E n \in 1 .. Limit : EmitBatch(p, n)

Answer(t) == Apply(t) \/ CommitAnswers(t) \/ CommitFails(t)

Next ==
  \/ Start \/ Close
  \/ \E parts \in SUBSET Partitions : Revoke(parts) \/ Assign(parts)
  \/ \E p \in Partitions : Delivery(p)
  \/ \E t \in Tokens : Dispatch(t) \/ Commit(t) \/ Answer(t)

Spec == Init /\ [][Next]_vars

(* The client delivers what a partition has, timers fire, commits are      *)
(* answered and the flow confirms what it was sent, again after a failure. *)
(* The group owes this consumer nothing.                                   *)
Fairness ==
  /\ WF_vars(Start)
  /\ \A p \in Partitions : WF_vars(Delivery(p))
  /\ \A t \in Tokens : WF_vars(Dispatch(t)) /\ WF_vars(Commit(t)) /\ WF_vars(Answer(t))

FairSpec == Spec /\ Fairness

------------------------------------------------------------------------------
(* Properties.                                                             *)

(* A committed offset confirms every earlier record of its partition, so   *)
(* it never passes one the flow has not confirmed, in whatever order the   *)
(* tokens of several deliveries are used.                                  *)
OnlyConfirmedIsCommitted ==
  \A p \in Partitions : \A o \in Offsets : o < committed[p] => <<p, o>> \in requested

(* A partition holds one delivery at most and is paused exactly while it   *)
(* does, but for the turn in which a batch waits for its dispatch: a pause *)
(* left behind by a rebalance silences the partition for its next owner, a *)
(* missing one lets the client read on.                                    *)
HeldIsPaused ==
  ~closing =>
    /\ \A s, t \in pending : entry[s].part = entry[t].part => s = t
    /\ \A t \in pending \ queued : entry[t].part \in paused
    /\ \A p \in paused : Holding(p) # {}

(* The group's offsets and the paused partitions both follow what the flow *)
(* holds and what it has confirmed.                                        *)
HeldUntilConfirmed == OnlyConfirmedIsCommitted /\ HeldIsPaused

(* Success is reported only to a flow whose delivery this consumer still   *)
(* owns and whose records the group has committed: an answer that comes    *)
(* after a rebalance or close reports an error.                            *)
AnswersAreTrue ==
  [][\A t \in answered' \ answered :
       t \in pending /\ entry[t].part \in assigned /\ entry[t].next <= committed[entry[t].part] /\ ~closing]_vars

(* A partition that stays with this consumer is confirmed to its end when  *)
(* the flow confirms what it is sent: no rebalance and no failed commit    *)
(* leaves it paused or locked.                                             *)
EachIsConfirmed ==
  \A p \in Partitions : <>[](p \in assigned /\ ~closing) => <>(committed[p] = Last + 1)
==============================================================================
