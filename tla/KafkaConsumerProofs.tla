------------------------- MODULE KafkaConsumerProofs --------------------------
(* Proofs about KafkaConsumer, for any number of partitions, offsets and   *)
(* deliveries.                                                             *)
EXTENDS KafkaConsumer, TLAPS

(* Entries cover at least one record.                                      *)
EntryInv == \A t \in 1 .. tokens : entry[t].first < entry[t].next

(* A held entry ends at the read position of its partition, which is       *)
(* assigned; the group stands at its first record or just behind it.       *)
PendingInv ==
  \A t \in pending :
    /\ entry[t].part \in assigned
    /\ entry[t].next = position[entry[t].part]
    /\ committed[entry[t].part] \in {entry[t].first, entry[t].next}
    /\ calls[t] = "applied" => committed[entry[t].part] = entry[t].next

OneInv == \A s, t \in pending : entry[s].part = entry[t].part => s = t

(* A partition that holds nothing is read from where the group stands.     *)
PositionInv ==
  ~closing => \A p \in assigned : position[p] = committed[p] \/ \E t \in pending : entry[t].part = p

HoldInv == EntryInv /\ PendingInv /\ OneInv /\ PositionInv

(* A commit under way belongs to one delivery that starts no later than    *)
(* the group stands and that the flow has confirmed.                       *)
CallInv ==
  /\ queued \cap committing = {}
  /\ \A t \in Tokens : calls[t] # "none" => t \in committing
  /\ \A t \in Tokens : calls[t] = "sent" =>
       /\ t \in pending \/ closing
       /\ Covered(t) \subseteq requested
       /\ entry[t].first <= committed[entry[t].part]
  /\ \A s, t \in Tokens : calls[s] = "sent" /\ calls[t] = "sent" /\ entry[s].part = entry[t].part => s = t

PauseInv ==
  ~closing =>
    /\ \A t \in pending \ queued : entry[t].part \in paused
    /\ \A p \in paused : \E t \in pending : entry[t].part = p

(* Only a batch waits for a dispatch, and a closed node holds nothing.     *)
ModeInv ==
  /\ mode = "individual" => queued = {}
  /\ closing => pending = {}

IInv ==
  /\ TypeOK /\ ModeInv /\ HoldInv /\ CallInv /\ PauseInv
  /\ OnlyConfirmedIsCommitted

------------------------------------------------------------------------------
(* What every step keeps.                                                  *)

(* Only batches wait, and close drops everything.                          *)
LEMMA ModeStep ==
  ASSUME ModeInv, [Next]_vars
  PROVE  ModeInv'
<1> USE DEF ModeInv, holds, client
<1>1. CASE Start \/ UNCHANGED vars
  BY <1>1 DEF Start, vars
<1>2. CASE Close
  BY <1>2 DEF Close
<1>3. ASSUME NEW parts \in SUBSET Partitions, Revoke(parts) \/ Assign(parts)
      PROVE  ModeInv'
  BY <1>3 DEF Revoke, Assign, Invalidate
<1>4. ASSUME NEW p \in Partitions, EmitRecord(p)
      PROVE  ModeInv'
  BY <1>4 DEF EmitRecord, Delivers, Hold
<1>5. ASSUME NEW p \in Partitions, NEW n \in 1 .. Limit, EmitBatch(p, n)
      PROVE  ModeInv'
  BY <1>5 DEF EmitBatch, Delivers, Hold
<1>6. ASSUME NEW t \in Tokens, Dispatch(t) \/ Commit(t) \/ Answer(t)
      PROVE  ModeInv'
  BY <1>6 DEF Dispatch, Commit, Answer, Apply, CommitAnswers, CommitFails, StillHeld
<1> QED BY <1>1, <1>2, <1>3, <1>4, <1>5, <1>6 DEF Next, Delivery

USE SizeAssumption, BoundAssumption
    DEF client, holds, bounds, Offsets, Tokens, Records, Covered, Holding, Resumed, Unlock, StillHeld

(* What a new delivery does to the tokens.                                 *)
Added(p, n) ==
  /\ tokens' = tokens + 1 /\ tokens' \in Tokens
  /\ entry' \in [1 .. tokens' -> [part : Partitions, first : Offsets, next : 2 .. Last + 1]]
  /\ \A t \in 1 .. tokens : entry'[t] = entry[t]
  /\ entry'[tokens'].part = p
  /\ entry'[tokens'].first = position[p]
  /\ entry'[tokens'].next = position[p] + n
  /\ pending' = pending \cup {tokens'} /\ tokens' \notin pending /\ pending' \subseteq 1 .. tokens'
  /\ position' \in [Partitions -> 1 .. Last + 1]
  /\ position'[p] = position[p] + n
  /\ \A q \in Partitions \ {p} : position'[q] = position[q]
  /\ calls[tokens'] = "none"

LEMMA HoldAdds ==
  ASSUME TypeOK, CallInv, NEW p \in Partitions, NEW n \in Nat \ {0},
         position[p] + n <= Last + 1, Hold(p, n)
  PROVE  Added(p, n)
<1> USE DEF TypeOK, Hold
<1>1. tokens' = tokens + 1 /\ tokens' \in Tokens /\ pending' = pending \cup {tokens'} /\ tokens' \notin pending
  OBVIOUS
<1>2. position[p] \in Offsets /\ position[p] + n \in 2 .. Last + 1
  OBVIOUS
<1>3. [part |-> p, first |-> position[p], next |-> position[p] + n]
        \in [part : Partitions, first : Offsets, next : 2 .. Last + 1]
  BY <1>2
<1>4. entry' \in [1 .. tokens' -> [part : Partitions, first : Offsets, next : 2 .. Last + 1]]
  BY <1>3
<1>5. /\ \A t \in 1 .. tokens : entry'[t] = entry[t]
      /\ entry'[tokens'] = [part |-> p, first |-> position[p], next |-> position[p] + n]
  OBVIOUS
<1>6. /\ position' \in [Partitions -> 1 .. Last + 1]
      /\ position'[p] = position[p] + n
      /\ \A q \in Partitions \ {p} : position'[q] = position[q]
  BY <1>2
<1>7. calls[tokens'] = "none"
  BY <1>1 DEF CallInv
<1>8. pending' \subseteq 1 .. tokens'
  <2>1. \A t \in pending : t \in 1 .. tokens + 1
    OBVIOUS
  <2> QED BY <1>1, <2>1
<1> QED BY <1>1, <1>4, <1>5, <1>6, <1>7, <1>8 DEF Added

(* The types are kept.                                                     *)
LEMMA TypeStep ==
  ASSUME TypeOK, CallInv, [Next]_vars
  PROVE  TypeOK'
<1>1. CASE Start \/ Close \/ UNCHANGED vars
  BY <1>1 DEF Start, Close, vars, TypeOK
<1>2. ASSUME NEW parts \in SUBSET Partitions, Revoke(parts) \/ Assign(parts)
      PROVE  TypeOK'
  <2>1. calls' \in [Tokens -> {"none", "sent", "applied", "fenced"}]
    BY <1>2 DEF Revoke, Assign, Invalidate, TypeOK
  <2>2. position' \in [Partitions -> 1 .. Last + 1]
    BY <1>2 DEF Revoke, Assign, TypeOK
  <2>3. pending' \subseteq pending /\ queued' \subseteq pending' /\ paused' \subseteq paused
    BY <1>2 DEF Revoke, Assign, Invalidate, TypeOK
  <2>4. assigned' \subseteq Partitions /\ rebalances' \in 0 .. MaxRebalances
    BY <1>2 DEF Revoke, Assign, TypeOK
  <2> QED BY <1>2, <2>1, <2>2, <2>3, <2>4 DEF Revoke, Assign, TypeOK
<1>3. ASSUME NEW p \in Partitions, EmitRecord(p)
      PROVE  TypeOK'
  <2>1. Hold(p, 1) /\ position[p] + 1 <= Last + 1 /\ queued' = queued /\ paused' = paused \cup {p}
    BY <1>3 DEF EmitRecord, Delivers, TypeOK
  <2>2. /\ UNCHANGED <<mode, running, closing, assigned, committing, calls, committed>>
        /\ UNCHANGED <<rebalances, faults, requested, answered>>
    BY <1>3 DEF EmitRecord, TypeOK
  <2>3. Added(p, 1)
    BY <2>1, HoldAdds
  <2>4. queued' \subseteq pending' /\ committing' \subseteq 1 .. tokens' /\ answered' \subseteq 1 .. tokens'
    BY <2>1, <2>2, <2>3 DEF Added, TypeOK
  <2>5. paused' \subseteq Partitions
    <3>1. paused \subseteq Partitions
      BY DEF TypeOK
    <3>2. paused' = paused \cup {p}
      BY <2>1
    <3> QED BY <3>1, <3>2
  <2>6. /\ mode' \in {"individual", "batch"} /\ running' \in BOOLEAN /\ closing' \in BOOLEAN
        /\ assigned' \subseteq Partitions /\ rebalances' \in 0 .. MaxRebalances /\ faults' \in 0 .. MaxFaults
        /\ calls' \in [Tokens -> {"none", "sent", "applied", "fenced"}]
        /\ committed' \in [Partitions -> 1 .. Last + 1] /\ requested' \subseteq Records
    BY <2>2 DEF TypeOK
  <2>7. /\ tokens' \in 0 .. MaxTokens /\ pending' \subseteq 1 .. tokens'
        /\ position' \in [Partitions -> 1 .. Last + 1]
        /\ entry' \in [1 .. tokens' -> [part : Partitions, first : Offsets, next : 2 .. Last + 1]]
    BY <2>3 DEF Added
  <2> QED BY <2>4, <2>5, <2>6, <2>7, Zenon DEF TypeOK
<1>4. ASSUME NEW p \in Partitions, NEW n \in 1 .. Limit, EmitBatch(p, n)
      PROVE  TypeOK'
  <2>1. CASE Blocked(p)
    BY <1>4, <2>1 DEF EmitBatch, TypeOK
  <2>2. CASE ~Blocked(p)
    <3>1. Hold(p, n) /\ position[p] + n <= Last + 1 /\ queued' = queued \cup {tokens + 1}
      BY <1>4, <2>2 DEF EmitBatch, Delivers, TypeOK
    <3>2. /\ UNCHANGED <<mode, running, closing, assigned, paused, committing, calls, committed>>
          /\ UNCHANGED <<rebalances, faults, requested, answered>>
      BY <1>4, <2>2 DEF EmitBatch, TypeOK
    <3>3. Added(p, n)
      BY <3>1, HoldAdds
    <3>4. queued' \subseteq pending' /\ committing' \subseteq 1 .. tokens' /\ answered' \subseteq 1 .. tokens'
      BY <3>1, <3>2, <3>3 DEF Added, TypeOK
    <3> QED BY <3>2, <3>3, <3>4, SMTT(60) DEF Added, TypeOK
  <2> QED BY <2>1, <2>2
<1>5. ASSUME NEW t \in Tokens, Dispatch(t)
      PROVE  TypeOK'
  BY <1>5 DEF Dispatch, TypeOK
<1>6. ASSUME NEW t \in Tokens, Commit(t)
      PROVE  TypeOK'
  <2>1. Covered(t) \subseteq Records
    BY <1>6 DEF Commit, TypeOK
  <2>2. calls' \in [Tokens -> {"none", "sent", "applied", "fenced"}]
    BY <1>6 DEF Commit, TypeOK
  <2> QED BY <1>6, <2>1, <2>2 DEF Commit, TypeOK
<1>7. ASSUME NEW t \in Tokens, Answer(t)
      PROVE  TypeOK'
  <2>1. calls' \in [Tokens -> {"none", "sent", "applied", "fenced"}]
    BY <1>7 DEF Answer, Apply, CommitAnswers, CommitFails, TypeOK
  <2>2. t \in 1 .. tokens
    BY <1>7 DEF Answer, Apply, CommitAnswers, CommitFails, CallInv, TypeOK
  <2>3. committed' \in [Partitions -> 1 .. Last + 1]
    <3>1. entry[t].next \in 1 .. Last + 1
      BY <2>2 DEF TypeOK
    <3> QED BY <1>7, <3>1 DEF Answer, Apply, CommitAnswers, CommitFails, TypeOK
  <2>4. t \notin queued
    BY <1>7 DEF Answer, Apply, CommitAnswers, CommitFails, CallInv
  <2>5. pending' \subseteq pending /\ queued' \subseteq pending' /\ paused' \subseteq paused
    BY <1>7, <2>4 DEF Answer, Apply, CommitAnswers, CommitFails, TypeOK
  <2>6. committing' \subseteq committing /\ answered' \subseteq answered \cup {t}
    BY <1>7 DEF Answer, Apply, CommitAnswers, CommitFails
  <2>7. faults' \in 0 .. MaxFaults
    BY <1>7, SMTT(60) DEF Answer, Apply, CommitAnswers, CommitFails, TypeOK
  <2>8. /\ UNCHANGED <<mode, running, closing, assigned, position>>
        /\ UNCHANGED <<tokens, entry, rebalances, requested>>
    BY <1>7 DEF Answer, Apply, CommitAnswers, CommitFails, TypeOK
  <2> QED BY <2>1, <2>3, <2>2, <2>5, <2>6, <2>7, <2>8 DEF TypeOK
<1> QED BY <1>1, <1>2, <1>3, <1>4, <1>5, <1>6, <1>7 DEF Next, Delivery

(* A held token is in use.                                                 *)
LEMMA EntryTyped ==
  ASSUME TypeOK
  PROVE  \A t \in pending : t \in 1 .. tokens /\ t \in Tokens /\ entry[t].part \in Partitions
<1>1. \A t \in 1 .. tokens : t \in Tokens /\ entry[t] \in [part : Partitions, first : Offsets, next : 2 .. Last + 1]
  BY DEF TypeOK
<1>2. pending \subseteq 1 .. tokens
  BY DEF TypeOK
<1> QED BY <1>1, <1>2

(* Whatever is held was read from where the group stands.                  *)
LEMMA HoldStep ==
  ASSUME TypeOK, TypeOK', HoldInv, CallInv, PauseInv, ModeInv, [Next]_vars
  PROVE  HoldInv'
<1> USE DEF HoldInv
<1>1. CASE Start \/ Close \/ UNCHANGED vars
  BY <1>1 DEF Start, Close, vars, EntryInv, PendingInv, OneInv, PositionInv
<1>2. ASSUME NEW parts \in SUBSET Partitions, Revoke(parts) \/ Assign(parts)
      PROVE  HoldInv'
  <2>1. UNCHANGED <<entry, tokens, closing, committed>> /\ ~closing
    BY <1>2 DEF Revoke, Assign
  <2>2. pending' = {t \in pending : entry[t].part \notin parts}
    <3>1. \A t \in pending : entry[t].part \in Partitions
      BY EntryTyped
    <3> QED BY <1>2, <3>1 DEF Revoke, Assign, Invalidate
  <2>3. \A t \in Tokens : calls'[t] = "applied" => calls[t] = "applied"
    BY <1>2 DEF Revoke, Assign, Invalidate, TypeOK
  <2>4. \A p \in Partitions \ parts : position'[p] = position[p] /\ (p \in assigned' <=> p \in assigned)
    BY <1>2 DEF Revoke, Assign, TypeOK
  <2>5. \A p \in parts : p \in assigned' => position'[p] = committed[p]
    BY <1>2 DEF Revoke, Assign, TypeOK
  <2>6. EntryInv' /\ OneInv'
    BY <2>1, <2>2 DEF EntryInv, OneInv
  <2>7. PendingInv'
    BY <2>1, <2>2, <2>3, <2>4, EntryTyped DEF PendingInv
  <2>8. PositionInv'
    <3> SUFFICES ASSUME NEW p \in assigned'
                 PROVE  position'[p] = committed'[p] \/ \E t \in pending' : entry'[t].part = p
      BY DEF PositionInv
    <3>1. p \in Partitions
      BY DEF TypeOK
    <3> QED BY <2>1, <2>2, <2>4, <2>5, <3>1 DEF PositionInv
  <2> QED BY <2>6, <2>7, <2>8
<1>3. ASSUME NEW p \in Partitions, NEW n \in Nat \ {0}, Delivers(p, n), Hold(p, n), Holding(p) = {},
             UNCHANGED <<closing, assigned, committed, calls>>
      PROVE  HoldInv'
  <2>1. Added(p, n)
    BY <1>3, HoldAdds DEF Delivers
  <2>2. p \in assigned /\ ~closing /\ \A t \in pending : entry[t].part # p
    BY <1>3 DEF Delivers
  <2>3. position[p] = committed[p] /\ position[p] \in Nat
    BY <2>2 DEF PositionInv, TypeOK
  <2>4. pending \subseteq 1 .. tokens
    BY DEF TypeOK
  <2>5. \A t \in 1 .. tokens' : t \in 1 .. tokens \/ t = tokens'
    BY <2>1 DEF Added, TypeOK
  <2>6. /\ \A t \in 1 .. tokens : entry'[t] = entry[t]
        /\ entry'[tokens'].part = p /\ entry'[tokens'].first = position[p]
        /\ entry'[tokens'].next = position[p] + n
        /\ pending' = pending \cup {tokens'} /\ calls'[tokens'] = "none"
    BY <1>3, <2>1 DEF Added
  <2>7. position'[p] = position[p] + n /\ \A q \in Partitions \ {p} : position'[q] = position[q]
    BY <2>1 DEF Added
  <2>8. EntryInv'
    BY <2>5, <2>6, <2>3 DEF EntryInv
  <2>9. PendingInv'
    <3>1. \A t \in pending : entry'[t] = entry[t] /\ entry[t].part \in Partitions \ {p} /\ t \in Tokens
      BY <2>2, <2>4, <2>6, EntryTyped
    <3> QED BY <1>3, <2>2, <2>3, <2>6, <2>7, <3>1 DEF PendingInv
  <2>10. OneInv'
    <3>1. \A t \in pending : entry'[t] = entry[t] /\ entry[t].part # p
      BY <2>2, <2>4, <2>6
    <3> QED BY <2>6, <3>1 DEF OneInv
  <2>11. PositionInv'
    BY <1>3, <2>1, <2>2, <2>4 DEF Added, PositionInv, TypeOK
  <2> QED BY <2>8, <2>9, <2>10, <2>11
<1>4. ASSUME NEW p \in Partitions, EmitRecord(p)
      PROVE  HoldInv'
  <2>1. Delivers(p, 1) /\ Hold(p, 1) /\ UNCHANGED <<closing, assigned, committed, calls>> /\ mode = "individual"
    BY <1>4 DEF EmitRecord
  <2>2. ~closing /\ p \notin paused /\ queued = {}
    BY <2>1 DEF Delivers, ModeInv
  <2>3. Holding(p) = {}
    BY <2>2 DEF PauseInv
  <2> QED BY <1>3, <2>1, <2>3
<1>5. ASSUME NEW p \in Partitions, NEW n \in 1 .. Limit, EmitBatch(p, n)
      PROVE  HoldInv'
  <2>1. CASE Blocked(p)
    BY <1>5, <2>1 DEF EmitBatch, EntryInv, PendingInv, OneInv, PositionInv
  <2>2. CASE ~Blocked(p)
    BY <1>3, <1>5, <2>2 DEF EmitBatch, Blocked
  <2> QED BY <2>1, <2>2
<1>6. ASSUME NEW t \in Tokens, Dispatch(t) \/ Commit(t)
      PROVE  HoldInv'
  <2>1. UNCHANGED <<entry, position, tokens, closing, assigned, committed, pending>>
    BY <1>6 DEF Dispatch, Commit
  <2>2. \A s \in Tokens : calls'[s] = "applied" => calls[s] = "applied"
    BY <1>6 DEF Dispatch, Commit, TypeOK
  <2> QED BY <2>1, <2>2, EntryTyped DEF EntryInv, PendingInv, OneInv, PositionInv
<1>7. ASSUME NEW t \in Tokens, Apply(t)
      PROVE  HoldInv'
  <2>1. t \in 1 .. tokens /\ entry[t].part \in Partitions
    BY <1>7 DEF Apply, CallInv, TypeOK
  <2>2. \A q \in Partitions : committed'[q] = IF q = entry[t].part THEN entry[t].next ELSE committed[q]
    BY <1>7, <2>1 DEF Apply, TypeOK
  <2>3. UNCHANGED <<pending, entry, position, tokens, closing, assigned>>
    BY <1>7 DEF Apply
  <2>4. closing \/ t \in pending
    BY <1>7 DEF Apply, CallInv
  <2>5. \A s \in Tokens : s # t => calls'[s] = calls[s]
    BY <1>7 DEF Apply, TypeOK
  <2>6. \A s \in pending : entry[s].part \in Partitions /\ s \in Tokens
    BY EntryTyped
  <2>7. PendingInv'
    BY <2>1, <2>2, <2>3, <2>4, <2>5, <2>6 DEF PendingInv, OneInv, ModeInv
  <2>8. EntryInv' /\ OneInv'
    BY <2>3 DEF EntryInv, OneInv
  <2>9. PositionInv'
    BY <2>2, <2>3, <2>4, <2>6 DEF PositionInv, TypeOK
  <2> QED BY <2>7, <2>8, <2>9
<1>8. ASSUME NEW t \in Tokens, CommitAnswers(t)
      PROVE  HoldInv'
  <2>1. UNCHANGED <<entry, position, tokens, closing, assigned, committed>>
    BY <1>8 DEF CommitAnswers
  <2>2. pending' = pending \/ (t \in pending /\ pending' = pending \ {t})
    BY <1>8 DEF CommitAnswers
  <2>3. calls[t] = "applied" /\ \A s \in Tokens : calls'[s] = IF s = t THEN "none" ELSE calls[s]
    BY <1>8 DEF CommitAnswers, TypeOK
  <2>4. EntryInv' /\ OneInv'
    BY <2>1, <2>2 DEF EntryInv, OneInv
  <2>5. PendingInv'
    BY <2>1, <2>2, <2>3 DEF PendingInv, TypeOK
  <2>6. PositionInv'
    BY <2>1, <2>2, <2>3 DEF PositionInv, PendingInv
  <2> QED BY <2>4, <2>5, <2>6
<1>9. ASSUME NEW t \in Tokens, CommitFails(t)
      PROVE  HoldInv'
  <2>1. UNCHANGED <<entry, position, tokens, closing, assigned, committed, pending>>
    BY <1>9 DEF CommitFails
  <2>2. \A s \in Tokens : calls'[s] = IF s = t THEN "none" ELSE calls[s]
    BY <1>9 DEF CommitFails, TypeOK
  <2> QED BY <2>1, <2>2 DEF EntryInv, PendingInv, OneInv, PositionInv, TypeOK
<1> QED BY <1>1, <1>2, <1>4, <1>5, <1>6, <1>7, <1>8, <1>9 DEF Next, Delivery, Answer

(* A commit under way was asked for by the flow and skips nothing.         *)
LEMMA CallStep ==
  ASSUME TypeOK, HoldInv, CallInv, ModeInv, [Next]_vars
  PROVE  CallInv'
<1>0. \A t \in Tokens : calls[t] # "none" => t \in 1 .. tokens /\ entry[t].part \in Partitions
  BY DEF CallInv, TypeOK
<1>1. CASE Start \/ Close \/ UNCHANGED vars
  BY <1>1 DEF Start, Close, vars, CallInv
<1>2. ASSUME NEW parts \in SUBSET Partitions, Revoke(parts) \/ Assign(parts)
      PROVE  CallInv'
  <2>1. UNCHANGED <<entry, committing, requested, committed, closing>> /\ queued' \subseteq queued
    BY <1>2 DEF Revoke, Assign, Invalidate
  <2>2. \A t \in Tokens : /\ calls'[t] # "none" => calls[t] # "none"
                          /\ calls'[t] = "sent" => calls[t] = "sent" /\ entry[t].part \notin parts
    BY <1>2 DEF Revoke, Assign, Invalidate, TypeOK
  <2>3. \A t \in pending : entry[t].part \notin parts => t \in pending'
    BY <1>2 DEF Revoke, Assign, Invalidate
  <2> QED BY <2>1, <2>2, <2>3 DEF CallInv
<1>3. ASSUME NEW p \in Partitions, NEW n \in Nat \ {0}, Hold(p, n), position[p] + n <= Last + 1,
             queued' \subseteq queued \cup {tokens'},
             UNCHANGED <<closing, committing, committed, requested, calls>>
      PROVE  CallInv'
  <2>1. Added(p, n)
    BY <1>3, HoldAdds
  <2>2. \A t \in 1 .. tokens : entry'[t] = entry[t]
    BY <2>1 DEF Added
  <2>3. pending \subseteq pending' /\ tokens' \notin committing
    BY <2>1 DEF Added, TypeOK
  <2> QED BY <1>0, <1>3, <2>2, <2>3 DEF CallInv
<1>4. ASSUME NEW p \in Partitions, EmitRecord(p)
      PROVE  CallInv'
  BY <1>3, <1>4 DEF EmitRecord, Delivers
<1>5. ASSUME NEW p \in Partitions, NEW n \in 1 .. Limit, EmitBatch(p, n)
      PROVE  CallInv'
  <2>1. CASE Blocked(p)
    BY <1>5, <2>1 DEF EmitBatch, CallInv
  <2>2. CASE ~Blocked(p)
    <3>1. tokens' = tokens + 1
      BY <1>5, <2>2 DEF EmitBatch, Hold
    <3> QED BY <1>3, <1>5, <2>2, <3>1 DEF EmitBatch, Delivers
  <2> QED BY <2>1, <2>2
<1>6. ASSUME NEW t \in Tokens, Dispatch(t)
      PROVE  CallInv'
  BY <1>6 DEF Dispatch, CallInv
<1>7. ASSUME NEW t \in Tokens, Commit(t)
      PROVE  CallInv'
  <2>1. /\ UNCHANGED <<entry, pending, queued, committed, closing>>
        /\ ~closing /\ t \in pending /\ t \notin queued
        /\ committing' = committing \cup {t}
        /\ requested \subseteq requested' /\ Covered(t) \subseteq requested'
    BY <1>7 DEF Commit
  <2>2. \A s \in Tokens : calls'[s] = IF s = t THEN "sent" ELSE calls[s]
    BY <1>7 DEF Commit, TypeOK
  <2>3. entry[t].first <= committed[entry[t].part]
    <3>1. t \in 1 .. tokens /\ entry[t].first \in Nat /\ entry[t].next \in Nat
      BY <2>1 DEF TypeOK
    <3> QED BY <2>1, <3>1 DEF HoldInv, EntryInv, PendingInv
  <2>4. \A s \in Tokens : calls[s] = "sent" /\ entry[s].part = entry[t].part => s = t
    BY <2>1 DEF CallInv, HoldInv, OneInv
  <2> QED BY <2>1, <2>2, <2>3, <2>4 DEF CallInv
<1>8. ASSUME NEW t \in Tokens, Apply(t)
      PROVE  CallInv'
  <2>1. UNCHANGED <<entry, pending, queued, committing, requested, closing>> /\ calls[t] = "sent"
    BY <1>8 DEF Apply
  <2>2. \A s \in Tokens : calls'[s] = IF s = t THEN "applied" ELSE calls[s]
    BY <1>8 DEF Apply, TypeOK
  <2>3. \A q \in Partitions : q # entry[t].part => committed'[q] = committed[q]
    BY <1>8 DEF Apply, TypeOK
  <2>4. \A s \in Tokens : s # t /\ calls[s] = "sent" => entry[s].part \in Partitions \ {entry[t].part}
    BY <1>0, <2>1 DEF CallInv
  <2> QED BY <2>1, <2>2, <2>3, <2>4 DEF CallInv
<1>9. ASSUME NEW t \in Tokens, CommitAnswers(t) \/ CommitFails(t)
      PROVE  CallInv'
  <2>1. UNCHANGED <<entry, queued, committed, requested, closing>>
    BY <1>9 DEF CommitAnswers, CommitFails
  <2>2. \A s \in Tokens : calls'[s] = IF s = t THEN "none" ELSE calls[s]
    BY <1>9 DEF CommitAnswers, CommitFails, TypeOK
  <2>3. pending \ {t} \subseteq pending' /\ committing \ {t} \subseteq committing' /\ committing' \subseteq committing
    BY <1>9 DEF CommitAnswers, CommitFails
  <2> QED BY <2>1, <2>2, <2>3 DEF CallInv
<1> QED BY <1>1, <1>2, <1>4, <1>5, <1>6, <1>7, <1>8, <1>9 DEF Next, Delivery, Answer

(* Pauses follow the deliveries that are held.                             *)
LEMMA PauseStep ==
  ASSUME TypeOK, HoldInv, CallInv, ModeInv, PauseInv, [Next]_vars
  PROVE  PauseInv'
<1>1. CASE Start \/ Close \/ UNCHANGED vars
  BY <1>1 DEF Start, Close, vars, PauseInv
<1>2. ASSUME NEW parts \in SUBSET Partitions, Revoke(parts) \/ Assign(parts)
      PROVE  PauseInv'
  <2>1. UNCHANGED <<entry, closing>>
    BY <1>2 DEF Revoke, Assign
  <2>2. pending' = {t \in pending : entry[t].part \notin parts}
    <3>1. \A t \in pending : entry[t].part \in Partitions
      BY EntryTyped
    <3> QED BY <1>2, <3>1 DEF Revoke, Assign, Invalidate
  <2>3. queued' = {t \in queued : entry[t].part \notin parts}
    <3>1. \A t \in queued : t \in pending
      BY DEF TypeOK
    <3> QED BY <1>2, <3>1 DEF Revoke, Assign, Invalidate
  <2>4. paused' = paused \ {p \in parts : \E t \in pending : entry[t].part = p}
    BY <1>2 DEF Revoke, Assign, Invalidate
  <2> QED BY <2>1, <2>2, <2>3, <2>4 DEF PauseInv
<1>3. ASSUME NEW p \in Partitions, NEW n \in Nat \ {0}, Hold(p, n), position[p] + n <= Last + 1,
             \/ paused' = paused \cup {p} /\ queued' = queued
             \/ paused' = paused /\ queued' = queued \cup {tokens'},
             UNCHANGED closing
      PROVE  PauseInv'
  <2>1. Added(p, n)
    BY <1>3, HoldAdds
  <2>2. \A t \in pending : entry'[t] = entry[t]
    BY <2>1 DEF Added, TypeOK
  <2>3. pending' = pending \cup {tokens'} /\ entry'[tokens'].part = p
    BY <2>1 DEF Added
  <2> QED BY <1>3, <2>2, <2>3 DEF PauseInv
<1>4. ASSUME NEW p \in Partitions, EmitRecord(p)
      PROVE  PauseInv'
  BY <1>3, <1>4 DEF EmitRecord, Delivers
<1>5. ASSUME NEW p \in Partitions, NEW n \in 1 .. Limit, EmitBatch(p, n)
      PROVE  PauseInv'
  <2>1. CASE Blocked(p)
    BY <1>5, <2>1 DEF EmitBatch, Blocked, PauseInv
  <2>2. CASE ~Blocked(p)
    <3>1. tokens' = tokens + 1
      BY <1>5, <2>2 DEF EmitBatch, Hold
    <3> QED BY <1>3, <1>5, <2>2, <3>1 DEF EmitBatch, Delivers
  <2> QED BY <2>1, <2>2
<1>6. ASSUME NEW t \in Tokens, Dispatch(t)
      PROVE  PauseInv'
  BY <1>6 DEF Dispatch, PauseInv, TypeOK
<1>7. ASSUME NEW t \in Tokens, Commit(t) \/ Apply(t) \/ CommitFails(t)
      PROVE  PauseInv'
  BY <1>7 DEF Commit, Apply, CommitFails, PauseInv
<1>8. ASSUME NEW t \in Tokens, CommitAnswers(t)
      PROVE  PauseInv'
  BY <1>8 DEF CommitAnswers, PauseInv, HoldInv, OneInv
<1> QED BY <1>1, <1>2, <1>4, <1>5, <1>6, <1>7, <1>8 DEF Next, Delivery, Answer

(* Only a commit of confirmed records moves the group.                     *)
LEMMA ConfirmedStep ==
  ASSUME TypeOK, CallInv, OnlyConfirmedIsCommitted, [Next]_vars
  PROVE  OnlyConfirmedIsCommitted'
<1>1. ASSUME NEW t \in Tokens, Apply(t)
      PROVE  OnlyConfirmedIsCommitted'
  <2>1. t \in 1 .. tokens /\ calls[t] = "sent" /\ requested' = requested
    BY <1>1 DEF Apply, CallInv, TypeOK
  <2>2. entry[t].part \in Partitions /\ entry[t].first \in Nat /\ entry[t].next \in Nat
    BY <2>1 DEF TypeOK
  <2>3. \A q \in Partitions : committed[q] \in Nat /\ committed'[q] = IF q = entry[t].part THEN entry[t].next ELSE committed[q]
    BY <1>1, <2>2 DEF Apply, TypeOK
  <2>4. \A o \in entry[t].first .. entry[t].next - 1 : <<entry[t].part, o>> \in requested
    BY <2>1 DEF CallInv
  <2>5. entry[t].first <= committed[entry[t].part]
    BY <2>1 DEF CallInv
  <2>6. ASSUME NEW o \in Offsets, o < entry[t].next
        PROVE  <<entry[t].part, o>> \in requested
    <3>1. CASE o < entry[t].first
      BY <2>2, <2>3, <2>5, <3>1 DEF OnlyConfirmedIsCommitted
    <3>2. CASE o >= entry[t].first
      BY <2>2, <2>4, <2>6, <3>2
    <3> QED BY <2>2, <3>1, <3>2
  <2> QED BY <2>1, <2>3, <2>6 DEF OnlyConfirmedIsCommitted
<1>2. CASE UNCHANGED committed /\ requested \subseteq requested'
  BY <1>2 DEF OnlyConfirmedIsCommitted
<1>3. CASE Start \/ Close \/ UNCHANGED vars
  BY <1>2, <1>3 DEF Start, Close, vars
<1>4. ASSUME NEW parts \in SUBSET Partitions, Revoke(parts) \/ Assign(parts)
      PROVE  OnlyConfirmedIsCommitted'
  BY <1>2, <1>4 DEF Revoke, Assign
<1>5. ASSUME NEW p \in Partitions, Delivery(p)
      PROVE  OnlyConfirmedIsCommitted'
  BY <1>2, <1>5 DEF Delivery, EmitRecord, EmitBatch
<1>6. ASSUME NEW t \in Tokens, Dispatch(t) \/ Commit(t) \/ CommitAnswers(t) \/ CommitFails(t)
      PROVE  OnlyConfirmedIsCommitted'
  BY <1>2, <1>6 DEF Dispatch, Commit, CommitAnswers, CommitFails
<1> QED BY <1>1, <1>3, <1>4, <1>5, <1>6 DEF Next, Answer

------------------------------------------------------------------------------
(* Theorems.                                                               *)

(* The inductive invariant: it contains the types, the deliveries held and *)
(* how the commits under way relate to the group's position.               *)
THEOREM ConsumerInvariant == Spec => []IInv
<1>1. Init => IInv
  <2> SUFFICES ASSUME Init PROVE IInv
    OBVIOUS
  <2> USE DEF Init
  <2>1. TypeOK
    <3>1. entry \in [1 .. tokens -> [part : Partitions, first : Offsets, next : 2 .. Last + 1]]
      <4>1. 1 .. tokens = {}
        OBVIOUS
      <4> QED BY <4>1
    <3>2. mode \in {"individual", "batch"} /\ running \in BOOLEAN /\ closing \in BOOLEAN
      OBVIOUS
    <3>3. /\ position \in [Partitions -> 1 .. Last + 1]
          /\ committed \in [Partitions -> 1 .. Last + 1]
          /\ calls \in [Tokens -> {"none", "sent", "applied", "fenced"}]
      OBVIOUS
    <3> QED BY <3>1, <3>2, <3>3 DEF TypeOK
  <2>2. HoldInv /\ CallInv /\ PauseInv /\ ModeInv
    BY DEF HoldInv, EntryInv, PendingInv, OneInv, PositionInv, CallInv, PauseInv, ModeInv
  <2>3. OnlyConfirmedIsCommitted
    BY DEF OnlyConfirmedIsCommitted
  <2> QED BY <2>1, <2>2, <2>3 DEF IInv
<1>2. IInv /\ [Next]_vars => IInv'
  <2> SUFFICES ASSUME IInv, [Next]_vars PROVE IInv'
    OBVIOUS
  <2>1. TypeOK /\ HoldInv /\ CallInv /\ PauseInv /\ ModeInv /\ OnlyConfirmedIsCommitted
    BY DEF IInv
  <2>2. TypeOK' /\ ModeInv'
    BY <2>1, TypeStep, ModeStep
  <2>3. HoldInv' /\ CallInv' /\ PauseInv' /\ OnlyConfirmedIsCommitted'
    BY <2>1, <2>2, HoldStep, CallStep, PauseStep, ConfirmedStep
  <2> QED BY <2>2, <2>3 DEF IInv
<1> QED BY <1>1, <1>2, PTL DEF Spec

(* No committed offset passes a record that the flow has not confirmed.    *)
THEOREM CommitsAreConfirmed == Spec => []OnlyConfirmedIsCommitted
<1>1. IInv => OnlyConfirmedIsCommitted
  BY DEF IInv
<1> QED BY <1>1, ConsumerInvariant, PTL

(* Partitions hold one delivery at most and are paused while they do.      *)
THEOREM PausesFollowDeliveries == Spec => []HeldIsPaused
<1>1. IInv => HeldIsPaused
  BY DEF IInv, HoldInv, OneInv, PauseInv, HeldIsPaused
<1> QED BY <1>1, ConsumerInvariant, PTL

(* A flow that is told of success still owned its delivery, and the group  *)
(* has committed it.                                                       *)
THEOREM SuccessIsTrue == Spec => AnswersAreTrue
<1>1. IInv /\ [Next]_vars =>
        [\A t \in answered' \ answered :
           t \in pending /\ entry[t].part \in assigned /\ entry[t].next <= committed[entry[t].part] /\ ~closing]_vars
  <2> SUFFICES ASSUME IInv, [Next]_vars, NEW t \in answered' \ answered
               PROVE  t \in pending /\ entry[t].part \in assigned /\ entry[t].next <= committed[entry[t].part] /\ ~closing
    OBVIOUS
  <2>1. CommitAnswers(t) /\ StillHeld(t)
    BY DEF Next, Start, Close, Revoke, Assign, Delivery, EmitRecord, EmitBatch, Dispatch, Commit, Answer, Apply, CommitAnswers, CommitFails, vars
  <2>2. t \in pending /\ ~closing /\ calls[t] = "applied"
    BY <2>1 DEF CommitAnswers
  <2>3. entry[t].part \in assigned /\ entry[t].next = committed[entry[t].part] /\ entry[t].next \in Nat
    BY <2>2 DEF IInv, HoldInv, PendingInv, TypeOK
  <2> QED BY <2>2, <2>3
<1> QED BY <1>1, ConsumerInvariant, PTL DEF Spec, AnswersAreTrue

(* Offsets and pauses follow what the flow holds and has confirmed, across *)
(* rebalances and failed commits.                                          *)
THEOREM DeliveriesAreHeld == Spec => []HeldUntilConfirmed
  BY CommitsAreConfirmed, PausesFollowDeliveries, PTL DEF HeldUntilConfirmed

==============================================================================
