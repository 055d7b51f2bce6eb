----------------------------- MODULE StreamingIn ------------------------------
(***************************************************************************)
(* Manual commits of the oci-streaming-in node: a loop reads records and   *)
(* holds until the flow confirms them through a commit token, heartbeats   *)
(* keep the group's cursor alive meanwhile, and a lost cursor makes the    *)
(* loop join its group again.                                              *)
(*                                                                         *)
(* One partition with offsets 1 .. Last; a cursor stands for the offset it *)
(* reads next, and 0 is no cursor.  A step is the answer of a call and the *)
(* code up to the next await.                                              *)
(***************************************************************************)
EXTENDS Naturals

CONSTANTS
  Last,       \* the newest record
  Start,      \* where cursorType puts a group that is new
  Limit,      \* records a read returns at most
  MaxFaults,  \* bound: calls that fail
  MaxTokens   \* bound: messages sent, at least Last + MaxFaults

ASSUME LastAssumption == Last \in Nat /\ Start \in 1 .. Last + 1 /\ Limit \in Nat \ {0}
ASSUME BoundAssumption == MaxFaults \in Nat /\ MaxTokens \in Nat /\ Last + MaxFaults <= MaxTokens

VARIABLES
  at,          \* the await the loop stands at
  cursor,      \* cursor
  joined,      \* hasJoined
  closing,     \* closing
  halted,      \* halted: the group's position was lost to retention
  pending,     \* pendingCommit: the token of the held entry, or 0
  tokens,      \* tokens handed out
  entry,       \* what each token holds: the records sent, the cursor behind them
  committing,  \* each entry's commit: waiting for a heartbeat, sent, or no
  beating,     \* entries whose heartbeat is unanswered
  committed,   \* committedOffsets, 0 at first
  group,       \* OCI's position of the group, 0 when there is no group
  faults,      \* calls that failed
  requested,   \* records whose token the flow has confirmed
  answered     \* records whose commit was answered with success

loop == <<at, cursor, joined>>
held == <<pending, tokens, entry, committing, beating, committed>>
vars == <<loop, closing, halted, held, group, faults, requested, answered>>

Offsets == 1 .. Last
Tokens  == 1 .. MaxTokens

TypeOK ==
  /\ at \in {"join", "read", "hold", "pause", "stopped"}
  /\ cursor \in 0 .. Last + 1
  /\ joined \in BOOLEAN /\ closing \in BOOLEAN /\ halted \in BOOLEAN
  /\ pending \in 0 .. tokens
  /\ tokens \in 0 .. MaxTokens
  /\ entry \in [Tokens -> [records : SUBSET Offsets, next : 0 .. Last + 1]]
  /\ committing \in [Tokens -> {"no", "waiting", "sent"}]
  /\ beating \subseteq Tokens
  /\ committed \in 0 .. Last
  /\ group \in 0 .. Last + 1
  /\ faults \in 0 .. MaxFaults
  /\ requested \subseteq Offsets /\ answered \subseteq requested
  /\ pending # 0 => at = "hold" /\ cursor # 0
  /\ at = "read" => cursor # 0

Init ==
  /\ at = "join"
  /\ cursor = 0
  /\ joined = FALSE
  /\ closing = FALSE
  /\ halted = FALSE
  /\ pending = 0
  /\ tokens = 0
  /\ entry = [t \in Tokens |-> [records |-> {}, next |-> 0]]
  /\ committing = [t \in Tokens |-> "no"]
  /\ beating = {}
  /\ committed = 0
  /\ group = 0
  /\ faults = 0
  /\ requested = {}
  /\ answered = {}

------------------------------------------------------------------------------
(* Errors.  "lost" is an expired cursor or an unreserved partition,        *)
(* "trimmed" a position outside of the retention period.                   *)

Kinds == {"plain", "lost", "trimmed"}

CallFails == faults < MaxFaults /\ faults' = faults + 1

(* handleCursorFailure(): a lost cursor is forgotten, with the entry that  *)
(* was held on it; t is the entry whose call failed, or 0 for the loop's.  *)
CursorFailure(kind, t) ==
  \/ /\ closing \/ t \notin {0, pending} \/ kind = "plain"
     /\ UNCHANGED <<cursor, pending, halted>>
  \/ /\ ~closing /\ t \in {0, pending} /\ kind # "plain"
     /\ cursor' = 0
     /\ pending' = 0
     /\ halted' = (halted \/ kind = "trimmed")

------------------------------------------------------------------------------
(* The loop.                                                               *)

Stop == at' = "stopped" /\ UNCHANGED <<cursor, pending, halted>>

(* The catch block: it reports, and waits before it tries again.           *)
Caught(kind) ==
  \/ closing /\ Stop
  \/ /\ ~closing
     /\ CursorFailure(kind, 0)
     /\ at' = IF halted' THEN "stopped" ELSE "pause"

(* An existing group keeps its position; a group that expired meanwhile    *)
(* starts again with the oldest record.                                    *)
Position == IF group # 0 THEN group ELSE IF joined THEN 1 ELSE Start

Join ==
  /\ at = "join"
  /\ group' = Position
  /\ \/ /\ closing
        /\ Stop
        /\ UNCHANGED joined
     \/ /\ ~closing
        /\ at' = "read"
        /\ cursor' = Position
        /\ joined' = TRUE
        /\ UNCHANGED <<pending, halted>>
  /\ UNCHANGED <<closing, tokens, entry, committing, beating, committed, faults, requested, answered>>

JoinFails(kind) ==
  /\ at = "join"
  /\ CallFails
  /\ Caught(kind)
  /\ UNCHANGED <<joined, closing, tokens, entry, committing, beating, committed, group, requested, answered>>

(* Fault: every record of a read is taken for new.                         *)
UncommittedAll(records) == records

(* uncommittedRecords(): what this node has not yet confirmed itself.      *)
Uncommitted(records) == {o \in records : o > committed}

(* A read of n records: none are waited for, those confirmed before are    *)
(* passed over, the others are sent with a token and held.                 *)
Read(n) ==
  LET fresh == Uncommitted(cursor .. cursor + n - 1) IN
  /\ at = "read"
  /\ n <= Limit /\ cursor + n <= Last + 1
  /\ \/ /\ closing
        /\ Stop
        /\ UNCHANGED <<tokens, entry>>
     \/ /\ ~closing /\ fresh = {}
        /\ cursor' = cursor + n
        /\ at' = "pause"
        /\ UNCHANGED <<pending, halted, tokens, entry>>
     \/ /\ ~closing /\ fresh # {}
        /\ tokens < MaxTokens
        /\ tokens' = tokens + 1
        /\ entry' = [entry EXCEPT ![tokens + 1] = [records |-> fresh, next |-> cursor + n]]
        /\ pending' = tokens + 1
        /\ at' = "hold"
        /\ UNCHANGED <<cursor, halted>>
  /\ UNCHANGED <<joined, closing, committing, beating, committed, group, faults, requested, answered>>

ReadFails(kind) ==
  /\ at = "read"
  /\ CallFails
  /\ Caught(kind)
  /\ UNCHANGED <<joined, closing, tokens, entry, committing, beating, committed, group, requested, answered>>

(* Fault: a lost cursor drops the entry and wakes nobody.                  *)
FreedByCommit == pending = 0 /\ cursor # 0

(* The entry was released: by its commit, a lost cursor or close.          *)
Freed == pending = 0

Ends == closing \/ halted

Continue ==
  /\ at = "hold" /\ Freed
  /\ at' = IF Ends THEN "stopped" ELSE IF cursor = 0 THEN "pause" ELSE "read"
  /\ UNCHANGED <<cursor, joined, closing, halted, held, group, faults, requested, answered>>

(* A wait ends, by its timer or because close wakes it.                    *)
Resume ==
  /\ at = "pause"
  /\ at' = IF Ends THEN "stopped" ELSE IF cursor = 0 THEN "join" ELSE "read"
  /\ UNCHANGED <<cursor, joined, closing, halted, held, group, faults, requested, answered>>

------------------------------------------------------------------------------
(* Heartbeats of the held entry.                                           *)

Beat ==
  /\ pending # 0 /\ committing[pending] = "no" /\ pending \notin beating /\ ~closing
  /\ beating' = beating \cup {pending}
  /\ UNCHANGED <<loop, closing, halted, pending, tokens, entry, committing, committed, group, faults, requested, answered>>

Beaten(t) ==
  /\ t \in beating
  /\ beating' = beating \ {t}
  /\ \/ UNCHANGED <<cursor, pending, halted, faults>>
     \/ CallFails /\ \E kind \in Kinds : CursorFailure(kind, t)
  /\ UNCHANGED <<at, joined, closing, tokens, entry, committing, committed, group, requested, answered>>

------------------------------------------------------------------------------
(* commitMessage(), called by the commit node with a token.                *)

(* Fault: any token commits what is held now.                              *)
AcceptsAny(t) == pending # 0

Accepts(t) == pending = t

(* It sends at once, or after the heartbeat that is under way; a stale     *)
(* token and a commit already in progress are refused.                     *)
Commit(t) ==
  /\ t \in 1 .. tokens /\ ~closing
  /\ Accepts(t) /\ committing[pending] = "no"
  /\ committing' = [committing EXCEPT ![pending] = IF pending \in beating THEN "waiting" ELSE "sent"]
  /\ requested' = requested \cup entry[t].records
  /\ UNCHANGED <<loop, closing, halted, pending, tokens, entry, beating, committed, group, faults, answered>>

StillHeld(t) == ~closing /\ pending = t

CommitResumes(t) ==
  /\ committing[t] = "waiting" /\ t \notin beating
  /\ committing' = [committing EXCEPT ![t] = IF StillHeld(t) THEN "sent" ELSE "no"]
  /\ UNCHANGED <<loop, closing, halted, pending, tokens, entry, beating, committed, group, faults, requested, answered>>

Highest(records) == CHOOSE o \in records : \A p \in records : p <= o

CommitAnswers(t) ==
  /\ committing[t] = "sent"
  /\ committing' = [committing EXCEPT ![t] = "no"]
  /\ group' = entry[t].next
  /\ \/ /\ ~StillHeld(t)
        /\ UNCHANGED <<cursor, pending, committed, answered>>
     \/ /\ StillHeld(t)
        /\ cursor' = entry[t].next
        /\ committed' = IF Highest(entry[t].records) > committed THEN Highest(entry[t].records) ELSE committed
        /\ pending' = 0
        /\ answered' = answered \cup entry[t].records
  /\ UNCHANGED <<at, joined, closing, halted, tokens, entry, beating, faults, requested>>

(* A failed commit may have reached OCI.                                   *)
CommitFails(t, kind) ==
  /\ committing[t] = "sent"
  /\ CallFails
  /\ committing' = [committing EXCEPT ![t] = "no"]
  /\ group' \in {group, entry[t].next}
  /\ CursorFailure(kind, t)
  /\ UNCHANGED <<at, joined, closing, tokens, entry, beating, committed, requested, answered>>

------------------------------------------------------------------------------
(* Close does not wait for calls in flight.                                *)
Close ==
  /\ ~closing
  /\ closing' = TRUE
  /\ pending' = 0
  /\ UNCHANGED <<loop, halted, tokens, entry, committing, beating, committed, group, faults, requested, answered>>

(* OCI drops a group that nobody reads for long.                           *)
GroupExpires ==
  /\ group # 0 /\ cursor = 0 /\ joined
  /\ CallFails
  /\ group' = 0
  /\ UNCHANGED <<loop, closing, halted, held, requested, answered>>

------------------------------------------------------------------------------

Loop ==
  \/ Join \/ Continue \/ Resume
  \/ \E n \in 0 .. Limit : Read(n)
  \/ \E kind \in Kinds : JoinFails(kind) \/ ReadFails(kind)

Answers(t) ==
  Beaten(t) \/ CommitResumes(t) \/ CommitAnswers(t) \/ \E kind \in Kinds : CommitFails(t, kind)

Next ==
  \/ Loop \/ Beat \/ Close \/ GroupExpires
  \/ \E t \in Tokens : Commit(t) \/ Answers(t)

Spec == Init /\ [][Next]_vars

(* Calls are answered and waits end; a loop that reads again and again     *)
(* finds what is there, though single reads may be empty.  The flow        *)
(* confirms what it was sent, again when that failed.                      *)
Fairness ==
  /\ WF_vars(Join) /\ WF_vars(Continue) /\ WF_vars(Resume)
  /\ WF_vars(\E n \in 0 .. Limit : Read(n)) /\ SF_vars(\E n \in 1 .. Limit : Read(n))
  /\ \A t \in Tokens : WF_vars(Answers(t)) /\ WF_vars(Commit(t))

FairSpec == Spec /\ Fairness

------------------------------------------------------------------------------
(* Properties.                                                             *)

(* Neither the group's position nor the cursor of the node passes a record *)
(* that the flow has not confirmed, whatever fails and whichever token a   *)
(* late commit comes with: after a restart no record is missing.           *)
OnlyConfirmedIsPassed ==
  \A o \in Start .. Last : (o < group \/ o < cursor) => o \in requested

(* A node that is closing, or has lost records to retention and must be    *)
(* looked at, sends nothing more, whichever call brought the news.         *)
NoLateOutput == [][closing \/ halted => tokens' = tokens]_vars

(* No output is stale: a record whose commit was answered with success is  *)
(* not sent again, even when the group has expired and is read from its    *)
(* oldest record, and nothing is sent behind the close or the halt.        *)
NoStaleOutput ==
  [][tokens' # tokens =>
       ~closing /\ ~halted /\ entry'[tokens'].records \cap answered = {}]_vars

(* When the flow confirms what it is sent, each record is confirmed in the *)
(* end: no failure of a heartbeat, a read or a commit leaves the loop      *)
(* waiting for an entry that nobody holds.                                 *)
EachIsConfirmed == \A o \in Start .. Last : TRUE ~> (o \in requested \/ closing \/ halted)
==============================================================================
