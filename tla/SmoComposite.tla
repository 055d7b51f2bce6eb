----------------------------- MODULE SmoComposite -----------------------------
(***************************************************************************)
(* Composite assembly in the smo-transformer node: fragments of one event  *)
(* are merged under a key until every required field is present, or until  *)
(* a timer or the store's limit flushes what is there.  A fragment may     *)
(* come with a managed database transaction; when the owners of two        *)
(* fragments differ the node finalizes both through the registry of        *)
(* db-nodes before it merges them.                                         *)
(*                                                                         *)
(* A step is the code between two awaits.  Inputs and timer jobs of one    *)
(* key run one after the other, those of different keys interleave.        *)
(***************************************************************************)
EXTENDS Naturals, Sequences, FiniteSets

CONSTANTS
  Frags,       \* input messages
  Keys,        \* composite keys: entity code, event time, event type
  Txns,        \* managed transactions of the registry
  Required,    \* requiredFields
  MaxEntries,  \* maxCompositeEntries
  KeyOf,       \* the key of each fragment, NoKey when a part is missing
  OwnerOf,     \* the transaction of each fragment, or NoTxn
  Says,        \* what each fragment says of each required field
  NoKey, NoTxn, NoFrag

ASSUME MaxEntriesAssumption == MaxEntries \in Nat \ {0}
ASSUME KeyOfAssumption == KeyOf \in [Frags -> Keys \cup {NoKey}] /\ NoKey \notin Keys
ASSUME OwnerOfAssumption == OwnerOf \in [Frags -> Txns \cup {NoTxn}] /\ NoTxn \notin Txns
ASSUME SaysAssumption ==
  /\ Says \in [Frags -> [Required -> {"absent", "null", "value"}]]
  /\ NoFrag \notin Frags /\ Frags \cap {"absent", "null"} = {}

VARIABLES
  store,     \* compositeStore
  timers,    \* staleTimers: the entry each armed timer was scheduled for
  queues,    \* the jobs of each key, the running one first
  consumed,  \* the entry a running job took out while it awaits finalize()
  inputs,    \* pendingInputs
  clock,     \* creation times handed out
  closed,    \* compositeState.closed
  owed,      \* jobs of each slot the close handler still waits for
  answer,    \* what done() told each fragment
  emitted,   \* the events sent on: their payload and transaction reference
  txn        \* the registry's view of each transaction

local  == <<store, timers, queues, consumed, inputs, clock, closed, owed>>
public == <<answer, emitted>>
vars   == <<local, public, txn>>

------------------------------------------------------------------------------
(* Payloads: each required field is absent, null, or the value of the      *)
(* fragment that supplied it.                                              *)

Payloads == [Required -> {"absent", "null"} \cup Frags]

Blank == [r \in Required |-> "absent"]

Payload(f) == [r \in Required |-> IF Says[f][r] = "value" THEN f ELSE Says[f][r]]

(* mergeData(): what the later payload says replaces, an explicit null     *)
(* included.                                                               *)
Merge(p, q) == [r \in Required |-> IF q[r] = "absent" THEN p[r] ELSE q[r]]

Complete(p) == \A r \in Required : p[r] \in Frags

Contributors(p) == {f \in Frags : \E r \in Required : p[r] = f}

(* An entry of the store; "by" is the fragment that stored this version.   *)
NoEntry == [by |-> NoFrag, payload |-> Blank, owner |-> NoTxn, born |-> 0]

Entries == [by : Frags, payload : Payloads, owner : Txns \cup {NoTxn}, born : Nat]

Stored(S) == {k \in Keys : S[k].by # NoFrag}

(* queueComposite() uses the message itself when it has no key.            *)
Slots == Keys \cup {f \in Frags : KeyOf[f] = NoKey}
Slot(f) == IF KeyOf[f] = NoKey THEN f ELSE KeyOf[f]

Jobs == [kind : {"input", "timer"}, frag : Frags]

Registry == INSTANCE RegistryView
Outcomes == Registry!Outcomes
Answers  == {"new", "queued", "ok", "busy", "invalid", "failed", "noKey", "dropped"}

TypeOK ==
  /\ store \in [Keys -> Entries \cup {NoEntry}]
  /\ timers \in [Keys -> Frags \cup {NoFrag}]
  /\ queues \in [Slots -> Seq(Jobs)]
  /\ consumed \in [Keys -> Entries \cup {NoEntry}]
  /\ inputs \in Nat
  /\ clock \in Nat
  /\ closed \in BOOLEAN
  /\ owed \in [Slots -> Nat]
  /\ answer \in [Frags -> Answers]
  /\ emitted \subseteq [payload : Payloads, carries : Txns \cup {NoTxn}]
  /\ txn \in [Txns -> {"active", "ending"} \cup Outcomes]

Init ==
  /\ store = [k \in Keys |-> NoEntry]
  /\ timers = [k \in Keys |-> NoFrag]
  /\ queues = [s \in Slots |-> <<>>]
  /\ consumed = [k \in Keys |-> NoEntry]
  /\ inputs = 0
  /\ clock = 0
  /\ closed = FALSE
  /\ owed = [s \in Slots |-> 0]
  /\ answer = [f \in Frags |-> "new"]
  /\ emitted = {}
  /\ txn = [t \in Txns |-> "active"]

------------------------------------------------------------------------------
(* The registry as the node sees it, which DbTransaction implements:       *)
(* capture() accepts an active transaction, finalize() asks for a commit   *)
(* and shares whatever end somebody else asked for first.                  *)

(* Fault: a buffered reference is not checked again.                       *)
ValidAlways(owner) == TRUE

Valid(owner) == owner \in {NoTxn} \cup {t \in Txns : txn[t] = "active"}

Finalize(owners) == Registry!End({t \in Txns \cap owners : txn[t] = "active"})

(* end-transaction, a timeout, or a begin node's close, which asks for the *)
(* end of all its transactions at once.                                    *)
TxnsEnd(S) == Registry!End(S) /\ UNCHANGED <<local, public>>

TxnSettles(t) ==
  /\ \E outcome \in Outcomes : Registry!Settle(t, outcome)
  /\ UNCHANGED <<local, public>>

------------------------------------------------------------------------------
(* The queue of a key.                                                     *)

Push(s, job) == queues' = [queues EXCEPT ![s] = Append(@, job)]

(* A job is done: release().                                               *)
Pop(s) ==
  /\ queues' = [queues EXCEPT ![s] = Tail(@)]
  /\ inputs' = IF Head(queues[s]).kind = "input" THEN inputs - 1 ELSE inputs
  /\ owed' = [owed EXCEPT ![s] = IF @ > 0 THEN @ - 1 ELSE 0]

(* The head of the queue is an input (or timer) job that has not started.  *)
Ready(s, kind, f) ==
  /\ queues[s] # <<>>
  /\ Head(queues[s]) = [kind |-> kind, frag |-> f]
  /\ s \in Keys => consumed[s] = NoEntry

Input(f) ==
  /\ answer[f] = "new"
  /\ \/ /\ inputs < MaxEntries
        /\ inputs' = inputs + 1
        /\ Push(Slot(f), [kind |-> "input", frag |-> f])
        /\ answer' = [answer EXCEPT ![f] = "queued"]
     \/ /\ inputs >= MaxEntries                     \* SMO_COMPOSITE_BUSY
        /\ answer' = [answer EXCEPT ![f] = "busy"]
        /\ UNCHANGED <<inputs, queues>>
  /\ UNCHANGED <<store, timers, consumed, clock, closed, owed, emitted, txn>>

------------------------------------------------------------------------------
(* What a handler does once its owners are settled: send the whole event,  *)
(* refuse an incomplete one without a key, or keep it.                     *)

Pending(f) == IF KeyOf[f] = NoKey THEN NoEntry ELSE store[KeyOf[f]]

Whole(f, pending) ==
  IF Complete(Payload(f)) THEN Payload(f) ELSE Merge(pending.payload, Payload(f))

Answer(f, what) == answer' = [answer EXCEPT ![f] = what]

Cleared(S, gone) == [k \in Keys |-> IF k \in gone THEN NoEntry ELSE S[k]]
Disarmed(T, gone) == [k \in Keys |-> IF k \in gone THEN NoFrag ELSE T[k]]

Event(payload, owner) == [payload |-> payload, carries |-> owner]

Send(f, pending, owner) ==
  /\ Complete(Whole(f, pending))
  /\ emitted' = emitted \cup {Event(Whole(f, pending), owner)}
  /\ store' = Cleared(store, {KeyOf[f]})
  /\ timers' = Disarmed(timers, {KeyOf[f]})
  /\ Answer(f, "ok")
  /\ UNCHANGED clock

Refuse(f, pending) ==
  /\ ~Complete(Whole(f, pending))
  /\ KeyOf[f] = NoKey
  /\ Answer(f, "noKey")
  /\ UNCHANGED <<store, timers, clock, emitted>>

(* The oldest entries above the limit.                                     *)
Overflow(S, left) ==
  {k \in left : Cardinality({j \in left : S[j].born < S[k].born}) + MaxEntries
                  < Cardinality(left)}

(* flushCompositeEntry() for a set of entries: expired references are      *)
(* reported, the others sent.                                              *)
Flushed(S, gone) ==
  {Event(S[k].payload, S[k].owner) : k \in {j \in gone : Valid(S[j].owner)}}

(* The version of the entry a handler stores.  A merge keeps the age.      *)
EntryFor(f, pending, owner) ==
  [by |-> f, payload |-> Merge(pending.payload, Payload(f)), owner |-> owner,
   born |-> IF pending.by = NoFrag THEN clock + 1 ELSE pending.born]

(* Fault: a fragment does not restart the timer of its key.                *)
ArmFirst(f, k) ==
  [timers EXCEPT ![k] = IF store[k].by = NoFrag THEN f ELSE @]

(* scheduleStaleTimer(): a timer for this version only.                    *)
Arm(f, k) == [timers EXCEPT ![k] = f]

Keep(f, pending, owner) ==
  LET k == KeyOf[f]
      S == [store EXCEPT ![k] = EntryFor(f, pending, owner)]
  IN
  /\ ~Complete(Whole(f, pending))
  /\ k # NoKey
  /\ clock' = IF pending.by = NoFrag THEN clock + 1 ELSE clock
  /\ \E age \in 0 .. clock' :      \* entries created up to then are too old
       LET aged == {j \in Stored(S) : S[j].born <= age}
           gone == aged \cup Overflow(S, Stored(S) \ aged)
       IN
       /\ store' = Cleared(S, gone)
       /\ timers' = Disarmed(Arm(f, k), gone)
       /\ emitted' = emitted \cup Flushed(S, gone)
  /\ Answer(f, "ok")

Conclude(f, pending, owner) ==
  \/ Send(f, pending, owner)
  \/ Refuse(f, pending)
  \/ Keep(f, pending, owner)

------------------------------------------------------------------------------
(* The jobs.                                                               *)

(* done() without output: the node closed before the job's turn.           *)
RunClosed(f) ==
  /\ Ready(Slot(f), "input", f)
  /\ closed
  /\ Answer(f, "dropped")
  /\ Pop(Slot(f))
  /\ UNCHANGED <<store, timers, consumed, clock, closed, emitted, txn>>

(* The fragment's own reference is no longer active; the entry stays.      *)
RunInvalid(f) ==
  /\ Ready(Slot(f), "input", f)
  /\ ~closed /\ ~Valid(OwnerOf[f])
  /\ Answer(f, "invalid")
  /\ Pop(Slot(f))
  /\ UNCHANGED <<store, timers, consumed, clock, closed, emitted, txn>>

(* The buffered reference expired: the entry is dropped and the fragment   *)
(* with it.                                                                *)
RunExpired(f) ==
  /\ Ready(Slot(f), "input", f)
  /\ ~closed /\ Valid(OwnerOf[f]) /\ ~Valid(Pending(f).owner)
  /\ store' = Cleared(store, {KeyOf[f]})
  /\ timers' = Disarmed(timers, {KeyOf[f]})
  /\ Answer(f, "invalid")
  /\ Pop(Slot(f))
  /\ UNCHANGED <<consumed, clock, closed, emitted, txn>>

Settles(f) == Pending(f).by # NoFrag /\ Pending(f).owner # OwnerOf[f]

(* Fault: the entry stays in the store while finalize() is awaited.        *)
ConsumeKeeps(k) ==
  /\ consumed' = [consumed EXCEPT ![k] = store[k]]
  /\ UNCHANGED <<store, timers>>

(* The entry leaves the store before the await, so that no timer replays   *)
(* it.                                                                     *)
Consume(k) ==
  /\ consumed' = [consumed EXCEPT ![k] = store[k]]
  /\ store' = Cleared(store, {k})
  /\ timers' = Disarmed(timers, {k})

(* Two owners: both are finalized before their data is merged.             *)
RunFinalize(f) ==
  /\ Ready(Slot(f), "input", f)
  /\ ~closed /\ Valid(OwnerOf[f]) /\ Valid(Pending(f).owner) /\ Settles(f)
  /\ Finalize({Pending(f).owner, OwnerOf[f]})
  /\ Consume(KeyOf[f])
  /\ UNCHANGED <<queues, inputs, clock, closed, owed, public>>

RunConclude(f) ==
  /\ Ready(Slot(f), "input", f)
  /\ ~closed /\ Valid(OwnerOf[f]) /\ Valid(Pending(f).owner) /\ ~Settles(f)
  /\ Conclude(f, Pending(f), OwnerOf[f])
  /\ Pop(Slot(f))
  /\ UNCHANGED <<consumed, closed, txn>>

Ended(owners) == \A t \in owners : txn[t] \in Outcomes

(* Fault: finalize() resolved, so the work is taken for committed.         *)
ResolvedIsEnough(owners) == TRUE

AllCommitted(owners) == \A t \in owners : txn[t] = "committed"

Discards == closed

(* finalize() answered: every owner it was given has ended.                *)
Finalized(f) ==
  LET k      == KeyOf[f]
      owners == {consumed[k].owner, OwnerOf[f]} \ {NoTxn}
  IN
  /\ k \in Keys /\ consumed[k] # NoEntry
  /\ queues[k] # <<>> /\ Head(queues[k]) = [kind |-> "input", frag |-> f]
  /\ Ended(owners)
  /\ consumed' = [consumed EXCEPT ![k] = NoEntry]
  /\ Pop(k)
  /\ \/ /\ ~AllCommitted(owners)                \* SMO_COMPOSITE_COMMIT_FAILED
        /\ Answer(f, "failed")
        /\ UNCHANGED <<store, timers, clock, emitted>>
     \/ /\ AllCommitted(owners) /\ Discards
        /\ Answer(f, "dropped")
        /\ UNCHANGED <<store, timers, clock, emitted>>
     \/ /\ AllCommitted(owners) /\ ~Discards
        /\ Conclude(f, consumed[k], NoTxn)
  /\ UNCHANGED <<closed, txn>>

(* The stale or age timer of an entry queues a job; no limit applies.      *)
TimerFires(k) ==
  /\ timers[k] # NoFrag
  /\ Push(k, [kind |-> "timer", frag |-> timers[k]])
  /\ timers' = [timers EXCEPT ![k] = NoFrag]
  /\ UNCHANGED <<store, consumed, inputs, clock, closed, owed, public, txn>>

(* The timer's job: it flushes the version it was scheduled for.           *)
RunTimer(k, f) ==
  /\ Ready(k, "timer", f)
  /\ \/ /\ store[k].by = f /\ ~closed
        /\ store' = Cleared(store, {k})
        /\ timers' = Disarmed(timers, {k})
        /\ emitted' = emitted \cup Flushed(store, {k})
     \/ /\ store[k].by # f \/ closed
        /\ UNCHANGED <<store, timers, emitted>>
  /\ Pop(k)
  /\ UNCHANGED <<consumed, clock, closed, answer, txn>>

Close ==
  /\ ~closed
  /\ closed' = TRUE
  /\ store' = [k \in Keys |-> NoEntry]
  /\ timers' = [k \in Keys |-> NoFrag]
  /\ owed' = [s \in Slots |-> Len(queues[s])]
  /\ UNCHANGED <<queues, consumed, inputs, clock, public, txn>>

RunInput(f) ==
  RunClosed(f) \/ RunInvalid(f) \/ RunExpired(f) \/ RunFinalize(f) \/ RunConclude(f)
    \/ Finalized(f)

(* What goes on by itself: promise callbacks, timers and the ends that were *)
(* asked for.                                                              *)
Work ==
  \/ \E t \in Txns : TxnSettles(t)
  \/ \E k \in Keys : TimerFires(k) \/ \E f \in Frags : RunTimer(k, f)
  \/ \E f \in Frags : RunInput(f)

Next ==
  \/ Work
  \/ \E f \in Frags : Input(f)
  \/ \E S \in SUBSET Txns : TxnsEnd(S)
  \/ Close

Spec == Init /\ [][Next]_vars

(* Promise callbacks run, timers fire and an end that was asked for comes  *)
(* (DbTransaction!EverythingSettles).  Nobody has to send, end or close.   *)
(* Each of these steps uses up a job, a timer or a transaction, so nothing *)
(* is said of the order they come in.                                      *)
Fairness == WF_vars(Work)

FairSpec == Spec /\ Fairness

------------------------------------------------------------------------------
(* Properties.                                                             *)

Holds(payload, f) == f \in Contributors(payload)

(* What a fragment said is in one place: buffered, held by a job that      *)
(* waits for a commit, or sent.  No interleaving of timers, limits and     *)
(* commits sends an entry twice or keeps what was sent.                    *)
OnePlace ==
  \A f \in Frags :
    Cardinality({<<"stored", k>> : k \in {j \in Keys : Holds(store[j].payload, f)}})
      + Cardinality({k \in Keys : Holds(consumed[k].payload, f)})
      + Cardinality({e \in emitted : Holds(e.payload, f)}) <= 1

(* An event is built only from work that is committed, or that the event's *)
(* own reference can still commit or roll back as one.                     *)
EmittedWorkIsSafe ==
  \A e \in emitted : \A f \in Contributors(e.payload) :
    OwnerOf[f] # NoTxn => e.carries = OwnerOf[f] \/ txn[OwnerOf[f]] = "committed"

(* No event leaves with a reference whose transaction has begun to end,    *)
(* however long it was buffered, and none leaves after close, a merge      *)
(* whose commit was under way included.                                    *)
NothingStale ==
  [][\A e \in emitted' \ emitted :
       ~closed /\ (e.carries # NoTxn => txn[e.carries] = "active")]_vars

(* The store and the admitted inputs stay under the limit, and the count   *)
(* of admitted inputs is the number of them still queued, which timer jobs *)
(* on the same queues do not disturb.                                      *)
Bounded ==
  /\ Cardinality(Stored(store)) <= MaxEntries
  /\ inputs <= MaxEntries
  /\ inputs = Cardinality({f \in Frags : answer[f] = "queued"})

(* While the node is open, an active transaction handed in with an         *)
(* accepted fragment can still be reached: the entry of its key holds it   *)
(* or an event carried it on.                                              *)
NoReferenceLost ==
  \A f \in Frags :
    ~closed /\ answer[f] = "ok" /\ OwnerOf[f] # NoTxn /\ txn[OwnerOf[f]] = "active" =>
      \/ \E k \in Keys : store[k].owner = OwnerOf[f]
      \/ \E e \in emitted : e.carries = OwnerOf[f]

(* Fragments, entries and transactions are accounted for: each in one      *)
(* place, within the limit, and none lost.                                 *)
NothingLostOrTwice == OnePlace /\ Bounded /\ NoReferenceLost

(* Every input is answered, those behind a finalize() included, no entry   *)
(* stays in the store, and close, which waits for the jobs it found        *)
(* queued, ends.  A fragment is handled once, so in the end none of this   *)
(* is under way.                                                           *)
ComesToRest ==
  <>[](/\ \A f \in Frags : answer[f] # "queued"
       /\ \A k \in Keys, f \in Frags : store[k].by # f
       /\ closed => \A s \in Slots : owed[s] = 0)
==============================================================================
