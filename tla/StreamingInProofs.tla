-------------------------- MODULE StreamingInProofs ---------------------------
(***************************************************************************)
(* Proofs about StreamingIn for any number of records, any start, any      *)
(* batch size and any number of failures.                                  *)
(***************************************************************************)
EXTENDS StreamingIn, Integers, TLAPS

(* Every record a group is responsible for and that lies before n.         *)
Before(n) == {o \in Start .. Last : o < n}

(* What the flow confirmed covers the group's position, the cursor and the *)
(* records the node believes committed.                                    *)
PassedInv ==
  /\ Before(group) \subseteq requested
  /\ Before(cursor) \subseteq requested
  /\ Before(committed + 1) \subseteq requested

(* The held entry ends with its last record, and skips confirmed ones only.*)
HeldInv ==
  pending # 0 =>
    /\ entry[pending].next # 0
    /\ entry[pending].next - 1 \in entry[pending].records
    /\ \A o \in entry[pending].records : o < entry[pending].next
    /\ Before(entry[pending].next) \subseteq requested \cup entry[pending].records

(* A commit under way moves the group over confirmed records only.         *)
CommitInv ==
  \A t \in Tokens : committing[t] # "no" =>
    /\ t <= tokens
    /\ entry[t].records \subseteq requested
    /\ Before(entry[t].next) \subseteq requested

ConfirmedInv == TypeOK /\ PassedInv /\ HeldInv /\ CommitInv

------------------------------------------------------------------------------
(* Helpers of the loop.                                                    *)

(* A failed call keeps the cursor and the entry, or loses both.            *)
LEMMA FailureFacts ==
  ASSUME TypeOK, NEW kind \in Kinds, NEW t, CursorFailure(kind, t)
  PROVE  /\ cursor' \in {0, cursor} /\ pending' \in {0, pending}
         /\ halted' \in BOOLEAN
         /\ \/ cursor' = cursor /\ pending' = pending
            \/ cursor' = 0 /\ pending' = 0 /\ t \in {0, pending}
BY DEF CursorFailure, TypeOK

(* Highest() of an entry that ends with its last record.                   *)
LEMMA HighestIs ==
  ASSUME NEW R \in SUBSET Offsets, NEW m \in R, \A o \in R : o <= m
  PROVE  Highest(R) \in R
BY DEF Highest

(* The constants are numbers.                                              *)
LEMMA Numbers == /\ Last \in Nat /\ Start \in 1 .. Last + 1 /\ Limit \in Nat \ {0}
                 /\ MaxTokens \in Nat /\ MaxFaults \in Nat
BY LastAssumption, BoundAssumption

(* A group starts where nothing it is responsible for lies before it.      *)
LEMMA PositionFacts ==
  ASSUME TypeOK, PassedInv
  PROVE  /\ Position \in 1 .. Last + 1
         /\ Before(Position) \subseteq requested
<1>1. CASE group # 0
  BY <1>1, Numbers DEF Position, TypeOK, PassedInv
<1>2. CASE group = 0
  BY <1>2, Numbers DEF Position, Before
<1> QED BY <1>1, <1>2

------------------------------------------------------------------------------
(* The actions, one by one.                                                *)

(* A join keeps the group's position, and the loop goes on from it.        *)
LEMMA JoinStep ==
  ASSUME ConfirmedInv, Join
  PROVE  ConfirmedInv'
<1>1. Position \in 1 .. Last + 1 /\ Before(Position) \subseteq requested
  BY PositionFacts DEF ConfirmedInv
<1>2. /\ at = "join" /\ group' = Position /\ joined' \in BOOLEAN /\ pending' = pending
      /\ \/ at' = "stopped" /\ cursor' = cursor
         \/ at' = "read" /\ cursor' = Position
      /\ UNCHANGED <<halted, closing, tokens, entry, committing, beating, committed, faults, requested, answered>>
  BY DEF Join, Stop, ConfirmedInv, TypeOK
<1>3. TypeOK'
  BY <1>1, <1>2, Numbers DEF ConfirmedInv, TypeOK
<1>4. PassedInv'
  BY <1>1, <1>2 DEF ConfirmedInv, PassedInv, Before
<1>5. HeldInv' /\ CommitInv'
  BY <1>2 DEF ConfirmedInv, HeldInv, CommitInv, Before
<1> QED BY <1>3, <1>4, <1>5 DEF ConfirmedInv

(* Failed joins, reads and heartbeats: only cursor and entry can be lost.  *)
LEMMA LossStep ==
  ASSUME ConfirmedInv,
         cursor' \in {0, cursor}, pending' \in {0, pending}, halted' \in BOOLEAN,
         beating' \subseteq Tokens, faults' \in 0 .. MaxFaults,
         joined' = joined, closing' \in BOOLEAN,
         at' \in {"join", "read", "hold", "pause", "stopped"},
         at' = "read" => cursor' # 0,
         pending' # 0 => at' = "hold" /\ cursor' # 0,
         group' \in {0, group},
         UNCHANGED <<tokens, entry, committing, committed, requested, answered>>
  PROVE  ConfirmedInv'
<1>1. TypeOK'
  BY Numbers DEF ConfirmedInv, TypeOK
<1>2. PassedInv'
  BY Numbers DEF ConfirmedInv, PassedInv, Before
<1>3. HeldInv' /\ CommitInv'
  BY DEF ConfirmedInv, HeldInv, CommitInv, Before
<1> QED BY <1>1, <1>2, <1>3 DEF ConfirmedInv

(* A join or a read fails while nothing is held.                           *)
LEMMA LoopFailsStep ==
  ASSUME ConfirmedInv, NEW kind \in Kinds, JoinFails(kind) \/ ReadFails(kind)
  PROVE  ConfirmedInv'
<1>1. pending = 0
  BY DEF JoinFails, ReadFails, ConfirmedInv, TypeOK
<1>2. /\ cursor' \in {0, cursor} /\ pending' = 0 /\ halted' \in BOOLEAN
      /\ at' \in {"stopped", "pause"}
  <2>1. CASE Stop
    BY <1>1, <2>1 DEF Stop, ConfirmedInv, TypeOK
  <2>2. CASE CursorFailure(kind, 0) /\ at' = IF halted' THEN "stopped" ELSE "pause"
    BY <1>1, <2>2, FailureFacts DEF ConfirmedInv
  <2> QED BY <2>1, <2>2 DEF JoinFails, ReadFails, Caught
<1>3. /\ faults' \in 0 .. MaxFaults
      /\ UNCHANGED <<joined, closing, tokens, entry, committing, beating, committed, group, requested, answered>>
  BY Numbers DEF JoinFails, ReadFails, CallFails, ConfirmedInv, TypeOK
<1>4. closing' \in BOOLEAN /\ beating' \subseteq Tokens
  BY <1>3 DEF ConfirmedInv, TypeOK
<1> QED BY <1>1, <1>2, <1>3, <1>4, LossStep

(* The loop goes on, a heartbeat starts, the node closes, the group goes.  *)
LEMMA WaitStep ==
  ASSUME ConfirmedInv, Continue \/ Resume \/ Beat \/ Close \/ GroupExpires
  PROVE  ConfirmedInv'
<1>1. CASE Continue \/ Resume
  <2>1. /\ pending = 0 /\ UNCHANGED <<cursor, joined, closing, halted, held, group, faults, requested, answered>>
        /\ at' \in {"stopped", "pause", "read", "join"}
        /\ at' = "read" => cursor # 0
    BY <1>1 DEF Continue, Resume, Freed, ConfirmedInv, TypeOK
  <2> QED BY <2>1, LossStep DEF held, ConfirmedInv, TypeOK
<1>2. CASE Beat
  <2>1. beating' \subseteq Tokens
    BY <1>2, Numbers DEF Beat, ConfirmedInv, TypeOK, Tokens
  <2> QED BY <1>2, <2>1, LossStep DEF Beat, loop, ConfirmedInv, TypeOK
<1>3. CASE Close
  BY <1>3, LossStep DEF Close, loop, ConfirmedInv, TypeOK
<1>4. CASE GroupExpires
  <2>1. faults' \in 0 .. MaxFaults
    BY <1>4, Numbers DEF GroupExpires, CallFails, ConfirmedInv, TypeOK
  <2> QED BY <1>4, <2>1, LossStep DEF GroupExpires, loop, held, ConfirmedInv, TypeOK
<1> QED BY <1>1, <1>2, <1>3, <1>4

(* A heartbeat is answered or fails.                                       *)
LEMMA BeatenStep ==
  ASSUME ConfirmedInv, NEW t \in Tokens, Beaten(t)
  PROVE  ConfirmedInv'
<1>1. /\ t # 0 /\ beating' \subseteq Tokens
      /\ UNCHANGED <<at, joined, closing, tokens, entry, committing, committed, group, requested, answered>>
  BY DEF Beaten, Tokens, ConfirmedInv, TypeOK
<1>2. CASE UNCHANGED <<cursor, pending, halted, faults>>
  BY <1>1, <1>2, LossStep DEF ConfirmedInv, TypeOK
<1>3. CASE CallFails /\ \E kind \in Kinds : CursorFailure(kind, t)
  <2>1. faults' \in 0 .. MaxFaults
    BY <1>3, Numbers DEF CallFails, ConfirmedInv, TypeOK
  <2>2. /\ cursor' \in {0, cursor} /\ pending' \in {0, pending} /\ halted' \in BOOLEAN
        /\ \/ cursor' = cursor /\ pending' = pending
           \/ cursor' = 0 /\ pending' = 0 /\ t = pending
    BY <1>1, <1>3, FailureFacts DEF ConfirmedInv
  <2>3. at' = "read" => cursor' # 0
    BY <1>1, <2>2 DEF ConfirmedInv, TypeOK
  <2>4. pending' # 0 => at' = "hold" /\ cursor' # 0
    BY <1>1, <2>2 DEF ConfirmedInv, TypeOK
  <2>5. at' \in {"join", "read", "hold", "pause", "stopped"} /\ closing' \in BOOLEAN
    BY <1>1 DEF ConfirmedInv, TypeOK
  <2> QED BY <1>1, <2>1, <2>2, <2>3, <2>4, <2>5, LossStep
<1> QED BY <1>2, <1>3 DEF Beaten

(* A read passes over what is confirmed and holds the rest.                *)
LEMMA ReadStep ==
  ASSUME ConfirmedInv, NEW n \in 0 .. Limit, Read(n)
  PROVE  ConfirmedInv'
<1> DEFINE fresh == Uncommitted(cursor .. cursor + n - 1)
<1>1. /\ cursor \in 1 .. Last + 1 /\ n \in Nat /\ cursor + n <= Last + 1
      /\ tokens \in Nat /\ committed \in Nat /\ pending = 0
      /\ UNCHANGED <<joined, closing, committing, beating, committed, group, faults, requested, answered>>
  BY Numbers DEF Read, ConfirmedInv, TypeOK
<1>2. /\ fresh = {o \in cursor .. cursor + n - 1 : o > committed}
      /\ fresh \subseteq Offsets
  BY <1>1, Numbers DEF Uncommitted, Offsets
<1>3. Before(cursor + n) \subseteq requested \cup fresh
  <2> SUFFICES ASSUME NEW o \in Start .. Last, o < cursor + n, o \notin fresh
               PROVE  o \in requested
    BY DEF Before
  <2>1. CASE o < cursor
    BY <2>1 DEF ConfirmedInv, PassedInv, Before
  <2>2. CASE ~(o < cursor)
    <3>1. o < committed + 1
      BY <2>2, <1>1, <1>2, Numbers
    <3> QED BY <3>1 DEF ConfirmedInv, PassedInv, Before
  <2> QED BY <2>1, <2>2
<1> HIDE DEF fresh
<1>4. CASE closing /\ Stop /\ UNCHANGED <<tokens, entry>>
  <2>1. at' = "stopped" /\ UNCHANGED <<cursor, pending, halted, tokens, entry>>
    BY <1>4 DEF Stop
  <2> QED BY <1>1, <2>1, LossStep DEF ConfirmedInv, TypeOK
<1>5. CASE /\ fresh = {} /\ cursor' = cursor + n /\ at' = "pause"
           /\ UNCHANGED <<pending, halted, tokens, entry>>
  <2>1. TypeOK'
    BY <1>1, <1>5, Numbers DEF ConfirmedInv, TypeOK
  <2>2. PassedInv'
    BY <1>1, <1>3, <1>5 DEF ConfirmedInv, PassedInv, Before
  <2>3. HeldInv' /\ CommitInv'
    BY <1>1, <1>5 DEF ConfirmedInv, HeldInv, CommitInv, Before
  <2> QED BY <2>1, <2>2, <2>3 DEF ConfirmedInv
<1>6. CASE /\ fresh # {} /\ tokens < MaxTokens /\ tokens' = tokens + 1
           /\ entry' = [entry EXCEPT ![tokens + 1] = [records |-> fresh, next |-> cursor + n]]
           /\ pending' = tokens + 1 /\ at' = "hold" /\ UNCHANGED <<cursor, halted>>
  <2>1. tokens + 1 \in Tokens /\ tokens' \in 0 .. MaxTokens /\ pending' \in 0 .. tokens'
    BY <1>1, <1>6, Numbers DEF Tokens
  <2>2. [records |-> fresh, next |-> cursor + n] \in [records : SUBSET Offsets, next : 0 .. Last + 1]
    BY <1>1, <1>2
  <2>3. entry' \in [Tokens -> [records : SUBSET Offsets, next : 0 .. Last + 1]]
    BY <1>6, <2>2 DEF ConfirmedInv, TypeOK
  <2>4. TypeOK'
    BY <1>1, <1>6, <2>1, <2>3 DEF ConfirmedInv, TypeOK
  <2>5. PassedInv'
    BY <1>1, <1>6 DEF ConfirmedInv, PassedInv, Before
  <2>6. entry'[pending'].records = fresh /\ entry'[pending'].next = cursor + n
    BY <1>6, <2>1 DEF ConfirmedInv, TypeOK
  <2>7. HeldInv'
    <3>1. cursor + n # 0 /\ \A o \in fresh : o < cursor + n
      BY <1>1, <1>2
    <3>2. (cursor + n) - 1 \in fresh
      BY <1>1, <1>2, <1>6
    <3>3. Before(cursor + n) \subseteq requested' \cup fresh
      BY <1>1, <1>3
    <3> QED BY <2>6, <3>1, <3>2, <3>3 DEF HeldInv, Before
  <2>8. \A t \in Tokens : committing[t] # "no" => t <= tokens /\ entry'[t] = entry[t]
    BY <1>1, <1>6 DEF ConfirmedInv, CommitInv, TypeOK, Tokens
  <2>9. CommitInv'
    BY <1>1, <1>6, <2>8 DEF ConfirmedInv, CommitInv, Before, Tokens
  <2> QED BY <2>4, <2>5, <2>7, <2>9 DEF ConfirmedInv
<1> QED BY <1>1, <1>4, <1>5, <1>6 DEF Read, fresh

(* The flow confirms the held entry.                                       *)
LEMMA CommitStep ==
  ASSUME ConfirmedInv, NEW t \in Tokens, Commit(t)
  PROVE  ConfirmedInv'
<1>1. /\ pending = t /\ t # 0 /\ t <= tokens
      /\ committing' = [committing EXCEPT ![t] = IF t \in beating THEN "waiting" ELSE "sent"]
      /\ requested' = requested \cup entry[t].records
      /\ UNCHANGED <<at, cursor, joined, closing, halted, pending, tokens, entry, beating,
                     committed, group, faults, answered>>
  BY DEF Commit, Accepts, loop, Tokens
<1>2. entry[t].records \subseteq Offsets
  BY DEF ConfirmedInv, TypeOK
<1>3. TypeOK'
  BY <1>1, <1>2 DEF ConfirmedInv, TypeOK
<1>4. PassedInv' /\ HeldInv'
  BY <1>1 DEF ConfirmedInv, PassedInv, HeldInv, Before
<1>5. Before(entry[t].next) \subseteq requested'
  BY <1>1 DEF ConfirmedInv, HeldInv
<1>6. CommitInv'
  BY <1>1, <1>5 DEF ConfirmedInv, CommitInv, TypeOK, Before
<1> QED BY <1>3, <1>4, <1>6 DEF ConfirmedInv

(* The commit is sent, answered or fails.                                  *)
LEMMA AnswerStep ==
  ASSUME ConfirmedInv, NEW t \in Tokens,
         CommitResumes(t) \/ CommitAnswers(t) \/ \E kind \in Kinds : CommitFails(t, kind)
  PROVE  ConfirmedInv'
<1>1. t # 0 /\ committing[t] # "no"
  BY DEF Tokens, CommitResumes, CommitAnswers, CommitFails
<1>2. /\ t <= tokens /\ entry[t].records \subseteq requested
      /\ Before(entry[t].next) \subseteq requested
      /\ entry[t].next \in 0 .. Last + 1 /\ entry[t].records \subseteq Offsets
  BY <1>1 DEF ConfirmedInv, CommitInv, TypeOK
<1>3. ASSUME committing' \in [Tokens -> {"no", "waiting", "sent"}],
             \A u \in Tokens : committing'[u] # "no" => committing[u] # "no",
             UNCHANGED <<tokens, entry, requested>>
      PROVE  CommitInv'
  BY <1>3 DEF ConfirmedInv, CommitInv, Before
<1>4. /\ committing' \in [Tokens -> {"no", "waiting", "sent"}]
      /\ \A u \in Tokens : committing'[u] # "no" => committing[u] # "no"
      /\ UNCHANGED <<at, joined, closing, tokens, entry, beating, requested>>
  BY <1>1 DEF CommitResumes, CommitAnswers, CommitFails, loop, ConfirmedInv, TypeOK
<1>5. CommitInv'
  BY <1>3, <1>4
<1>6. CASE CommitResumes(t)
  <2>1. UNCHANGED <<cursor, halted, pending, committed, group, faults, answered>>
    BY <1>6 DEF CommitResumes, loop
  <2>2. TypeOK'
    BY <1>4, <2>1 DEF ConfirmedInv, TypeOK
  <2>3. PassedInv' /\ HeldInv'
    BY <1>4, <2>1 DEF ConfirmedInv, PassedInv, HeldInv, Before
  <2> QED BY <1>5, <2>2, <2>3 DEF ConfirmedInv
<1>7. CASE CommitAnswers(t) /\ ~StillHeld(t)
  <2>1. group' = entry[t].next /\ UNCHANGED <<cursor, halted, pending, committed, faults, answered>>
    BY <1>7 DEF CommitAnswers
  <2>2. TypeOK'
    BY <1>2, <1>4, <2>1 DEF ConfirmedInv, TypeOK
  <2>3. PassedInv' /\ HeldInv'
    BY <1>2, <1>4, <2>1 DEF ConfirmedInv, PassedInv, HeldInv, Before
  <2> QED BY <1>5, <2>2, <2>3 DEF ConfirmedInv
<1>8. CASE CommitAnswers(t) /\ StillHeld(t)
  <2>1. /\ pending = t /\ at = "hold" /\ pending' = 0
        /\ group' = entry[t].next /\ cursor' = entry[t].next
        /\ committed' = IF Highest(entry[t].records) > committed
                        THEN Highest(entry[t].records) ELSE committed
        /\ answered' = answered \cup entry[t].records
        /\ UNCHANGED <<halted, faults>>
    BY <1>1, <1>8 DEF CommitAnswers, StillHeld, ConfirmedInv, TypeOK
  <2>2. /\ entry[t].next - 1 \in entry[t].records
        /\ \A o \in entry[t].records : o < entry[t].next
    BY <1>1, <2>1 DEF ConfirmedInv, HeldInv
  <2>3. \A o \in entry[t].records : o <= entry[t].next - 1
    BY <1>2, <2>2, Numbers DEF Offsets
  <2>4. Highest(entry[t].records) \in entry[t].records
    BY <1>2, <2>2, <2>3, HighestIs
  <2>5. Highest(entry[t].records) \in Offsets /\ Highest(entry[t].records) < entry[t].next
    BY <1>2, <2>2, <2>4
  <2>6. committed' \in 0 .. Last /\ Before(committed' + 1) \subseteq requested
    <3>1. CASE committed' = committed
      BY <3>1 DEF ConfirmedInv, TypeOK, PassedInv
    <3>2. CASE committed' = Highest(entry[t].records)
      <4>1. Before(committed' + 1) \subseteq Before(entry[t].next)
        BY <3>2, <2>5, <1>2, Numbers DEF Before, Offsets
      <4> QED BY <4>1, <1>2, <2>5, <3>2, Numbers DEF Offsets
    <3> QED BY <2>1, <3>1, <3>2
  <2>7. TypeOK'
    BY <1>2, <1>4, <2>1, <2>6 DEF ConfirmedInv, TypeOK
  <2>8. PassedInv' /\ HeldInv'
    BY <1>2, <1>4, <2>1, <2>6 DEF ConfirmedInv, PassedInv, HeldInv, Before
  <2> QED BY <1>5, <2>7, <2>8 DEF ConfirmedInv
<1>9. ASSUME NEW kind \in Kinds, CommitFails(t, kind) PROVE ConfirmedInv'
  <2>1. /\ group' \in {group, entry[t].next} /\ UNCHANGED <<committed, answered>>
        /\ faults' \in 0 .. MaxFaults
    BY <1>9, Numbers DEF CommitFails, CallFails, ConfirmedInv, TypeOK
  <2>2. /\ cursor' \in {0, cursor} /\ pending' \in {0, pending} /\ halted' \in BOOLEAN
        /\ \/ cursor' = cursor /\ pending' = pending
           \/ cursor' = 0 /\ pending' = 0 /\ t = pending
    BY <1>1, <1>9, FailureFacts DEF CommitFails, ConfirmedInv
  <2>3. at' = "read" => cursor' # 0
    BY <1>1, <1>4, <2>2 DEF ConfirmedInv, TypeOK
  <2>4. TypeOK'
    <3>1. /\ at' \in {"join", "read", "hold", "pause", "stopped"}
          /\ joined' \in BOOLEAN /\ closing' \in BOOLEAN
          /\ tokens' \in 0 .. MaxTokens
          /\ entry' \in [Tokens -> [records : SUBSET Offsets, next : 0 .. Last + 1]]
          /\ beating' \subseteq Tokens
          /\ committed' \in 0 .. Last
          /\ requested' \subseteq Offsets /\ answered' \subseteq requested'
      BY <1>4, <2>1 DEF ConfirmedInv, TypeOK
    <3>2. group' \in 0 .. Last + 1
      BY <1>2, <2>1 DEF ConfirmedInv, TypeOK
    <3>3. cursor' \in 0 .. Last + 1
      BY <2>2, Numbers DEF ConfirmedInv, TypeOK
    <3>4. pending' \in 0 .. tokens'
      BY <1>4, <2>2, Numbers DEF ConfirmedInv, TypeOK
    <3>5. pending' # 0 => at' = "hold" /\ cursor' # 0
      BY <1>1, <1>4, <2>2 DEF ConfirmedInv, TypeOK
    <3>6. committing' \in [Tokens -> {"no", "waiting", "sent"}]
      BY <1>4
    <3> QED BY <2>1, <2>2, <2>3, <3>1, <3>2, <3>3, <3>4, <3>5, <3>6, Zenon DEF TypeOK
  <2>5. PassedInv' /\ HeldInv'
    BY <1>2, <1>4, <2>1, <2>2, Numbers DEF ConfirmedInv, PassedInv, HeldInv, Before
  <2> QED BY <1>5, <2>4, <2>5 DEF ConfirmedInv
<1> QED BY <1>6, <1>7, <1>8, <1>9

------------------------------------------------------------------------------
(* The invariant, and what follows from it.                                *)

(* What has been confirmed covers what a commit, the cursor and the group  *)
(* pass.                                                                   *)
THEOREM StreamInvariant == Spec => []ConfirmedInv
<1>1. Init => ConfirmedInv
  <2> SUFFICES ASSUME Init PROVE ConfirmedInv
    OBVIOUS
  <2>1. [records |-> {}, next |-> 0] \in [records : SUBSET Offsets, next : 0 .. Last + 1]
    BY Numbers
  <2>2. /\ entry \in [Tokens -> [records : SUBSET Offsets, next : 0 .. Last + 1]]
        /\ committing \in [Tokens -> {"no", "waiting", "sent"}]
    BY <2>1 DEF Init
  <2>3. TypeOK
    <3>1. /\ cursor \in 0 .. Last + 1 /\ group \in 0 .. Last + 1 /\ committed \in 0 .. Last
          /\ pending \in 0 .. tokens /\ tokens \in 0 .. MaxTokens /\ faults \in 0 .. MaxFaults
      BY Numbers DEF Init
    <3>2. /\ at \in {"join", "read", "hold", "pause", "stopped"}
          /\ joined \in BOOLEAN /\ closing \in BOOLEAN /\ halted \in BOOLEAN
          /\ pending # 0 => at = "hold" /\ cursor # 0
          /\ at = "read" => cursor # 0
      BY DEF Init
    <3>3. /\ beating \subseteq Tokens
          /\ requested \subseteq Offsets /\ answered \subseteq requested
      BY DEF Init
    <3> QED BY <2>2, <3>1, <3>2, <3>3, Zenon DEF TypeOK
  <2>4. Before(0) = {} /\ Before(0 + 1) = {}
    BY Numbers, LastAssumption DEF Before
  <2>5. PassedInv
    BY <2>4 DEF Init, PassedInv
  <2>6. HeldInv /\ CommitInv
    BY DEF Init, HeldInv, CommitInv
  <2> QED BY <2>3, <2>5, <2>6 DEF ConfirmedInv
<1>2. ConfirmedInv /\ [Next]_vars => ConfirmedInv'
  <2> SUFFICES ASSUME ConfirmedInv, [Next]_vars PROVE ConfirmedInv'
    OBVIOUS
  <2>1. CASE Loop
    BY <2>1, JoinStep, ReadStep, LoopFailsStep, WaitStep DEF Loop
  <2>2. CASE Beat \/ Close \/ GroupExpires
    BY <2>2, WaitStep
  <2>3. ASSUME NEW t \in Tokens, Commit(t) \/ Answers(t) PROVE ConfirmedInv'
    BY <2>3, CommitStep, BeatenStep, AnswerStep DEF Answers
  <2>4. CASE UNCHANGED vars
    BY <2>4 DEF vars, loop, held, ConfirmedInv, TypeOK, PassedInv, HeldInv, CommitInv, Before
  <2> QED BY <2>1, <2>2, <2>3, <2>4 DEF Next
<1> QED BY <1>1, <1>2, PTL DEF Spec

(* Type correctness.                                                       *)
THEOREM TypeCorrect == Spec => []TypeOK
<1>1. ConfirmedInv => TypeOK
  BY DEF ConfirmedInv
<1> QED BY <1>1, StreamInvariant, PTL

(* Neither the group nor the cursor passes an unconfirmed record.          *)
THEOREM NothingIsSkipped == Spec => []OnlyConfirmedIsPassed
<1>1. ConfirmedInv => OnlyConfirmedIsPassed
  BY DEF ConfirmedInv, PassedInv, Before, OnlyConfirmedIsPassed
<1> QED BY <1>1, StreamInvariant, PTL

(* A halted loop is at the entry it held, or has stopped.                  *)
HaltedInv == halted => at \in {"hold", "stopped"}

(* No loop goes on to read once it is halted.                              *)
LEMMA HaltedStays == Spec => []HaltedInv
<1>1. Init => HaltedInv
  BY DEF Init, HaltedInv
<1>2. ConfirmedInv /\ HaltedInv /\ [Next]_vars => HaltedInv'
  <2> SUFFICES ASSUME ConfirmedInv, HaltedInv, [Next]_vars PROVE HaltedInv'
    OBVIOUS
  <2>1. CASE Join \/ Continue \/ Resume
    BY <2>1 DEF Join, Stop, Continue, Resume, Ends, HaltedInv
  <2>2. ASSUME NEW n \in 0 .. Limit, Read(n) PROVE HaltedInv'
    BY <2>2 DEF Read, Stop, HaltedInv
  <2>3. ASSUME NEW kind \in Kinds, JoinFails(kind) \/ ReadFails(kind) PROVE HaltedInv'
    BY <2>3 DEF JoinFails, ReadFails, Caught, Stop, HaltedInv
  <2>4. CASE Beat \/ Close \/ GroupExpires
    BY <2>4 DEF Beat, Close, GroupExpires, loop, HaltedInv
  <2>5. ASSUME NEW t \in Tokens, Commit(t) \/ CommitResumes(t) \/ CommitAnswers(t) PROVE HaltedInv'
    BY <2>5 DEF Commit, CommitResumes, CommitAnswers, loop, HaltedInv
  <2>6. ASSUME NEW t \in Tokens, NEW kind \in Kinds, CursorFailure(kind, t), at' = at PROVE HaltedInv'
    <3>1. t # 0
      BY DEF Tokens
    <3>2. CASE UNCHANGED <<cursor, pending, halted>>
      BY <2>6, <3>2 DEF HaltedInv
    <3>3. CASE t \in {0, pending}
      BY <2>6, <3>1, <3>3 DEF ConfirmedInv, TypeOK, HaltedInv
    <3> QED BY <2>6, <3>2, <3>3 DEF CursorFailure
  <2>7. ASSUME NEW t \in Tokens, Beaten(t) PROVE HaltedInv'
    <3>1. CASE UNCHANGED <<cursor, pending, halted, faults>>
      BY <2>7, <3>1 DEF Beaten, HaltedInv
    <3>2. CASE CallFails /\ \E kind \in Kinds : CursorFailure(kind, t)
      BY <2>6, <2>7, <3>2 DEF Beaten
    <3> QED BY <2>7, <3>1, <3>2 DEF Beaten
  <2>8. ASSUME NEW t \in Tokens, NEW kind \in Kinds, CommitFails(t, kind) PROVE HaltedInv'
    BY <2>6, <2>8 DEF CommitFails
  <2>9. CASE UNCHANGED vars
    BY <2>9 DEF vars, loop, HaltedInv
  <2> QED BY <2>1, <2>2, <2>3, <2>4, <2>5, <2>7, <2>8, <2>9 DEF Next, Loop, Answers
<1> QED BY <1>1, <1>2, StreamInvariant, PTL DEF Spec

(* A node that is closing or has lost its position sends nothing.          *)
THEOREM NothingIsSentLate == Spec => NoLateOutput
<1>1. ConfirmedInv /\ HaltedInv /\ [Next]_vars => [closing \/ halted => tokens' = tokens]_vars
  <2> SUFFICES ASSUME HaltedInv, closing \/ halted, [Next]_vars PROVE tokens' = tokens
    OBVIOUS
  <2>1. ASSUME NEW n \in 0 .. Limit, Read(n) PROVE tokens' = tokens
    BY <2>1 DEF Read, HaltedInv
  <2>2. CASE Join \/ Continue \/ Resume
    BY <2>2 DEF Join, Continue, Resume, held
  <2>3. ASSUME NEW kind \in Kinds, JoinFails(kind) \/ ReadFails(kind) PROVE tokens' = tokens
    BY <2>3 DEF JoinFails, ReadFails
  <2>4. CASE Beat \/ Close \/ GroupExpires
    BY <2>4 DEF Beat, Close, GroupExpires, held
  <2>5. ASSUME NEW t \in Tokens, Commit(t) \/ Answers(t) PROVE tokens' = tokens
    BY <2>5 DEF Commit, Answers, Beaten, CommitResumes, CommitAnswers, CommitFails
  <2>6. CASE UNCHANGED vars
    BY <2>6 DEF vars, held
  <2> QED BY <2>1, <2>2, <2>3, <2>4, <2>5, <2>6 DEF Next, Loop
<1> QED BY <1>1, HaltedStays, StreamInvariant, PTL DEF Spec, NoLateOutput

(* What was answered with success lies no later than what is believed      *)
(* committed, so uncommittedRecords() passes over it.                      *)
AnsweredInv == \A o \in answered : o <= committed

(* The commit that is answered moves both, any other step neither.         *)
LEMMA AnsweredStays == Spec => []AnsweredInv
<1>1. Init => AnsweredInv
  BY DEF Init, AnsweredInv
<1>2. ConfirmedInv /\ AnsweredInv /\ [Next]_vars => AnsweredInv'
  <2> SUFFICES ASSUME ConfirmedInv, AnsweredInv, [Next]_vars PROVE AnsweredInv'
    OBVIOUS
  <2>1. ASSUME UNCHANGED <<answered, committed>> PROVE AnsweredInv'
    BY <2>1 DEF AnsweredInv
  <2>2. ASSUME NEW t \in Tokens, CommitAnswers(t), StillHeld(t) PROVE AnsweredInv'
    <3> DEFINE R == entry[t].records
    <3>1. /\ pending = t /\ t # 0 /\ R \subseteq Offsets
          /\ committed' = IF Highest(R) > committed THEN Highest(R) ELSE committed
          /\ answered' = answered \cup R
      BY <2>2 DEF CommitAnswers, StillHeld, ConfirmedInv, TypeOK, Tokens
    <3>2. entry[t].next - 1 \in R /\ \A o \in R : o < entry[t].next
      BY <3>1 DEF ConfirmedInv, HeldInv
    <3>3. entry[t].next \in 0 .. Last + 1
      BY DEF ConfirmedInv, TypeOK
    <3>4. \A o \in R : o <= entry[t].next - 1
      BY <3>1, <3>2, <3>3, Numbers DEF Offsets
    <3>5. Highest(R) \in R /\ \A o \in R : o <= Highest(R)
      BY <3>2, <3>4 DEF Highest
    <3>6. committed \in Nat /\ answered \subseteq Offsets
      BY Numbers DEF ConfirmedInv, TypeOK
    <3> HIDE DEF R
    <3>7. \A o \in answered \cup R : o <= committed'
      <4> SUFFICES ASSUME NEW o \in answered \cup R PROVE o <= committed'
        OBVIOUS
      <4>0. Offsets \subseteq Nat /\ R \subseteq Offsets /\ answered \subseteq Offsets
        BY <3>1, <3>6, Numbers DEF Offsets
      <4>1. o \in Nat /\ Highest(R) \in Nat
        BY <4>0, <3>5, Zenon
      <4>2. o \in answered => o <= committed
        BY DEF AnsweredInv
      <4> QED BY <3>1, <3>5, <3>6, <4>1, <4>2
    <3> QED BY <3>1, <3>7 DEF AnsweredInv
  <2>3. ASSUME NEW t \in Tokens, CommitAnswers(t), ~StillHeld(t) PROVE AnsweredInv'
    BY <2>1, <2>3 DEF CommitAnswers
  <2>4. ASSUME NEW t \in Tokens,
               Commit(t) \/ Beaten(t) \/ CommitResumes(t) \/ \E kind \in Kinds : CommitFails(t, kind)
        PROVE  AnsweredInv'
    BY <2>1, <2>4 DEF Commit, Beaten, CommitResumes, CommitFails
  <2>5. CASE Beat \/ Close \/ GroupExpires
    BY <2>1, <2>5 DEF Beat, Close, GroupExpires, held
  <2>6. CASE Loop
    BY <2>1, <2>6 DEF Loop, Join, JoinFails, Read, ReadFails, Continue, Resume, held
  <2>7. CASE UNCHANGED vars
    BY <2>1, <2>7 DEF vars, held
  <2> QED BY <2>2, <2>3, <2>4, <2>5, <2>6, <2>7 DEF Next, Answers
<1> QED BY <1>1, <1>2, StreamInvariant, PTL DEF Spec

(* What a step may send: the action of NoStaleOutput.                      *)
FreshOutput ==
  tokens' # tokens => ~closing /\ ~halted /\ entry'[tokens'].records \cap answered = {}

(* Nothing is sent that was committed with success, and nothing behind the *)
(* close or the halt (oci-streaming-in.js:177-186, 332-391).               *)
THEOREM OutputIsFresh == Spec => NoStaleOutput
<1>1. ConfirmedInv /\ AnsweredInv /\ HaltedInv /\ [Next]_vars => [FreshOutput]_vars
  <2> SUFFICES ASSUME ConfirmedInv, AnsweredInv, HaltedInv, [Next]_vars PROVE FreshOutput
    OBVIOUS
  <2>1. ASSUME tokens' = tokens PROVE FreshOutput
    BY <2>1 DEF FreshOutput
  <2>2. ASSUME NEW n \in 0 .. Limit, Read(n) PROVE FreshOutput
    <3> DEFINE fresh == Uncommitted(cursor .. cursor + n - 1)
    <3>1. CASE tokens' = tokens
      BY <2>1, <3>1
    <3>2. CASE /\ ~closing /\ tokens < MaxTokens /\ tokens' = tokens + 1
               /\ entry' = [entry EXCEPT ![tokens + 1] = [records |-> fresh, next |-> cursor + n]]
      <4>1. tokens + 1 \in Tokens
        BY <3>2, Numbers DEF ConfirmedInv, TypeOK, Tokens
      <4>2. entry'[tokens'].records = fresh
        BY <3>2, <4>1 DEF ConfirmedInv, TypeOK
      <4>3. ASSUME NEW o \in fresh, o \in answered PROVE FALSE
        <5>1. o > committed /\ o <= committed
          BY <4>3 DEF Uncommitted, AnsweredInv
        <5>2. o \in Nat /\ committed \in Nat
          BY <4>3, Numbers DEF ConfirmedInv, TypeOK, Offsets
        <5> QED BY <5>1, <5>2
      <4>4. ~halted
        BY <2>2 DEF Read, HaltedInv
      <4> QED BY <3>2, <4>2, <4>3, <4>4 DEF FreshOutput
    <3> QED BY <2>2, <3>1, <3>2 DEF Read
  <2>3. ASSUME NEW kind \in Kinds, JoinFails(kind) \/ ReadFails(kind) PROVE FreshOutput
    BY <2>1, <2>3 DEF JoinFails, ReadFails
  <2>4. CASE Join \/ Continue \/ Resume \/ Beat \/ Close \/ GroupExpires
    BY <2>1, <2>4 DEF Join, Continue, Resume, Beat, Close, GroupExpires, held
  <2>5. ASSUME NEW t \in Tokens, Commit(t) \/ Answers(t) PROVE FreshOutput
    BY <2>1, <2>5 DEF Commit, Answers, Beaten, CommitResumes, CommitAnswers, CommitFails
  <2>6. CASE UNCHANGED vars
    BY <2>1, <2>6 DEF vars, held
  <2> QED BY <2>2, <2>3, <2>4, <2>5, <2>6 DEF Next, Loop
<1>2. [FreshOutput]_vars <=>
      [tokens' # tokens =>
         ~closing /\ ~halted /\ entry'[tokens'].records \cap answered = {}]_vars
  BY DEF FreshOutput
<1> QED BY <1>1, <1>2, AnsweredStays, HaltedStays, StreamInvariant, PTL DEF Spec, NoStaleOutput
==============================================================================
