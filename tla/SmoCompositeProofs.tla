-------------------------- MODULE SmoCompositeProofs --------------------------
(***************************************************************************)
(* Proofs about SmoComposite for any fragments, keys, transactions,        *)
(* required fields and limit: what a fragment said is in one place, events *)
(* are built on safe work, references are kept and the limits hold.        *)
(***************************************************************************)
EXTENDS SmoComposite, FiniteSetTheorems, SequenceTheorems, TLAPS

Owners == Txns \cup {NoTxn}

(* The queue of a slot holds each of its waiting inputs once.              *)
QueueInv ==
  /\ \A s \in Slots : \A i \in DOMAIN queues[s] :
       queues[s][i].kind = "input" =>
         Slot(queues[s][i].frag) = s /\ answer[queues[s][i].frag] = "queued"
  /\ \A s \in Slots : \A i, j \in DOMAIN queues[s] :
       /\ queues[s][i].kind = "input" /\ queues[s][j].kind = "input"
       /\ queues[s][i].frag = queues[s][j].frag
       => i = j

Queued(A) == {f \in Frags : A[f] = "queued"}

(* The limits, with what the count needs to be one.                        *)
CountInv ==
  /\ IsFiniteSet(Queued(answer))
  /\ inputs = Cardinality(Queued(answer))
  /\ inputs <= MaxEntries

StoreInv ==
  /\ IsFiniteSet(Stored(store))
  /\ Cardinality(Stored(store)) <= MaxEntries

(* Where the fragments of entries and events come from, and where else     *)
(* they are not.                                                           *)
Placed(S, C, A, E) ==
  /\ \A k \in Keys, f \in Frags : Holds(S[k].payload, f) => KeyOf[f] = k /\ A[f] = "ok"
  /\ \A k \in Keys, f \in Frags : Holds(C[k].payload, f) => KeyOf[f] = k /\ A[f] = "ok"
  /\ \A k \in Keys : C[k] # NoEntry => S[k] = NoEntry
  /\ \A e \in E, f \in Frags : Holds(e.payload, f) =>
       /\ A[f] = "ok"
       /\ \A k \in Keys : ~Holds(S[k].payload, f) /\ ~Holds(C[k].payload, f)
  /\ \A e, d \in E, f \in Frags : Holds(e.payload, f) /\ Holds(d.payload, f) => e = d

PlaceInv == Placed(store, consumed, answer, emitted)

(* What a payload is built on has committed, or is settled by the owner    *)
(* that goes with it.                                                      *)
SafeFrom(T, f, owner) ==
  OwnerOf[f] # NoTxn => owner = OwnerOf[f] \/ T[OwnerOf[f]] = "committed"

Safe(T, payload, owner) == \A f \in Contributors(payload) : SafeFrom(T, f, owner)

SafeInv ==
  /\ \A k \in Keys : Safe(txn, store[k].payload, store[k].owner)
  /\ \A k \in Keys : Safe(txn, consumed[k].payload, consumed[k].owner)
  /\ \A e \in emitted : Safe(txn, e.payload, e.carries)

------------------------------------------------------------------------------
(* Payloads.                                                               *)

(* What a fragment says is a payload that at most itself supplied.         *)
LEMMA PayloadFacts ==
  ASSUME NEW f \in Frags
  PROVE  Payload(f) \in Payloads /\ Contributors(Payload(f)) \subseteq {f}
<1>1. \A r \in Required : Says[f][r] \in {"absent", "null", "value"}
  BY SaysAssumption
<1>2. \A r \in Required : Payload(f)[r] \in {"absent", "null"} \cup {f}
  BY <1>1 DEF Payload
<1> QED BY <1>2, SaysAssumption DEF Payload, Payloads, Contributors

(* A merge holds what its two parts hold.                                  *)
LEMMA MergeFacts ==
  ASSUME NEW p \in Payloads, NEW q \in Payloads
  PROVE  /\ Merge(p, q) \in Payloads
         /\ Contributors(Merge(p, q)) \subseteq Contributors(p) \cup Contributors(q)
BY DEF Merge, Payloads, Contributors

(* Nobody contributed to the empty entry.                                  *)
LEMMA NoEntryFacts ==
  /\ NoEntry.by = NoFrag /\ NoEntry.payload \in Payloads /\ NoEntry.owner = NoTxn
  /\ Contributors(NoEntry.payload) = {}
  /\ NoEntry \notin Entries
<1>1. "absent" \notin Frags /\ NoFrag \notin Frags
  BY SaysAssumption
<1> QED BY <1>1 DEF NoEntry, Blank, Payloads, Contributors, Entries

(* What an entry of the store is.                                          *)
LEMMA EntryFacts ==
  ASSUME NEW e \in Entries \cup {NoEntry}
  PROVE  /\ e.payload \in Payloads /\ e.owner \in Owners
         /\ Contributors(e.payload) \subseteq Frags
         /\ (e.by = NoFrag <=> e = NoEntry)
<1>1. CASE e \in Entries
  BY <1>1, NoEntryFacts, SaysAssumption DEF Entries, Owners, Contributors
<1>2. CASE e = NoEntry
  BY <1>2, NoEntryFacts DEF Owners, Contributors
<1> QED BY <1>1, <1>2

(* The event a handler sends holds its fragment and the pending ones.      *)
LEMMA WholeFacts ==
  ASSUME NEW f \in Frags, NEW pending \in Entries \cup {NoEntry}
  PROVE  /\ Whole(f, pending) \in Payloads
         /\ Contributors(Whole(f, pending)) \subseteq {f} \cup Contributors(pending.payload)
<1>1. pending.payload \in Payloads
  BY EntryFacts
<1> QED BY <1>1, PayloadFacts, MergeFacts DEF Whole

(* So does the entry it stores instead.                                    *)
LEMMA EntryForFacts ==
  ASSUME TypeOK, NEW f \in Frags, NEW pending \in Entries \cup {NoEntry}, NEW owner \in Owners
  PROVE  /\ EntryFor(f, pending, owner) \in Entries
         /\ EntryFor(f, pending, owner).owner = owner
         /\ EntryFor(f, pending, owner).by = f
         /\ Contributors(EntryFor(f, pending, owner).payload)
              \subseteq {f} \cup Contributors(pending.payload)
<1>1. pending.payload \in Payloads
  BY EntryFacts
<1>2. /\ Merge(pending.payload, Payload(f)) \in Payloads
      /\ Contributors(Merge(pending.payload, Payload(f)))
           \subseteq {f} \cup Contributors(pending.payload)
  BY <1>1, PayloadFacts, MergeFacts
<1>3. (IF pending.by = NoFrag THEN clock + 1 ELSE pending.born) \in Nat
  <2>1. CASE pending \in Entries
    BY <2>1 DEF Entries, TypeOK
  <2>2. CASE pending = NoEntry
    BY <2>2 DEF NoEntry, TypeOK
  <2> QED BY <2>1, <2>2
<1> QED BY <1>2, <1>3 DEF EntryFor, Entries, Owners

------------------------------------------------------------------------------
(* Handlers that conclude.                                                 *)

(* The store of a handler that keeps its fragment, before limits apply.    *)
With(f, pending, owner) == [store EXCEPT ![KeyOf[f]] = EntryFor(f, pending, owner)]

(* The entries that go when those of "left" are young enough.              *)
Gone(S, left) == (Stored(S) \ left) \cup Overflow(S, left)

(* What keeping a fragment does, whatever is too old.                      *)
LEMMA KeepFacts ==
  ASSUME NEW f \in Frags, NEW pending, NEW owner, Keep(f, pending, owner)
  PROVE  /\ KeyOf[f] \in Keys
         /\ clock' = IF pending.by = NoFrag THEN clock + 1 ELSE clock
         /\ answer' = [answer EXCEPT ![f] = "ok"]
         /\ ~Complete(Whole(f, pending))
         /\ \E left \in SUBSET Stored(With(f, pending, owner)) :
              LET S == With(f, pending, owner)
                  gone == Gone(S, left)
              IN  /\ store' = Cleared(S, gone)
                  /\ timers' = Disarmed(Arm(f, KeyOf[f]), gone)
                  /\ emitted' = emitted \cup Flushed(S, gone)
<1> DEFINE S == With(f, pending, owner)
<1>1. KeyOf[f] \in Keys
  BY KeyOfAssumption DEF Keep
<1>2. PICK age \in 0 .. clock' :
        LET aged == {j \in Stored(S) : S[j].born <= age}
            gone == aged \cup Overflow(S, Stored(S) \ aged)
        IN  /\ store' = Cleared(S, gone)
            /\ timers' = Disarmed(Arm(f, KeyOf[f]), gone)
            /\ emitted' = emitted \cup Flushed(S, gone)
  BY DEF Keep, With
<1> DEFINE aged == {j \in Stored(S) : S[j].born <= age}
           left == Stored(S) \ aged
<1>3. left \in SUBSET Stored(S) /\ Gone(S, left) = aged \cup Overflow(S, Stored(S) \ aged)
  BY DEF Gone
<1> HIDE DEF aged, left, S
<1>4. \E l \in SUBSET Stored(S) :
        /\ store' = Cleared(S, Gone(S, l))
        /\ timers' = Disarmed(Arm(f, KeyOf[f]), Gone(S, l))
        /\ emitted' = emitted \cup Flushed(S, Gone(S, l))
  BY <1>2, <1>3 DEF aged, left
<1> QED BY <1>1, <1>4 DEF Keep, Answer, S

(* Flushing entries leaves a typed store and sends typed events.           *)
LEMMA FlushFacts ==
  ASSUME NEW S \in [Keys -> Entries \cup {NoEntry}], NEW gone \in SUBSET Keys
  PROVE  /\ Cleared(S, gone) \in [Keys -> Entries \cup {NoEntry}]
         /\ \A k \in Keys : Cleared(S, gone)[k] = IF k \in gone THEN NoEntry ELSE S[k]
         /\ \A e \in Flushed(S, gone) :
              \E k \in gone : e = Event(S[k].payload, S[k].owner) /\ Valid(S[k].owner)
         /\ Flushed(S, gone) \subseteq [payload : Payloads, carries : Owners]
<1>1. \A k \in Keys : S[k].payload \in Payloads /\ S[k].owner \in Owners
  BY EntryFacts
<1> QED BY <1>1 DEF Cleared, Flushed, Event

(* The store of a handler that keeps its fragment is one.                  *)
LEMMA WithFacts ==
  ASSUME TypeOK, NEW f \in Frags, KeyOf[f] \in Keys,
         NEW pending \in Entries \cup {NoEntry}, NEW owner \in Owners
  PROVE  /\ With(f, pending, owner) \in [Keys -> Entries \cup {NoEntry}]
         /\ With(f, pending, owner)[KeyOf[f]] = EntryFor(f, pending, owner)
         /\ \A k \in Keys : k # KeyOf[f] => With(f, pending, owner)[k] = store[k]
<1>1. EntryFor(f, pending, owner) \in Entries
  BY EntryForFacts
<1> QED BY <1>1 DEF With, TypeOK

(* Only keys go.                                                           *)
LEMMA GoneFacts ==
  ASSUME NEW S, NEW left \in SUBSET Stored(S)
  PROVE  Gone(S, left) \in SUBSET Keys /\ Gone(S, left) \subseteq Stored(S)
BY DEF Gone, Stored, Overflow

(* A handler that concludes keeps the types of what it assigns, and        *)
(* answers with "ok" or, keeping nothing, "noKey".                         *)
LEMMA ConcludeTypes ==
  ASSUME TypeOK, NEW f \in Frags, NEW pending \in Entries \cup {NoEntry},
         NEW owner \in Owners, Conclude(f, pending, owner)
  PROVE  /\ store' \in [Keys -> Entries \cup {NoEntry}]
         /\ timers' \in [Keys -> Frags \cup {NoFrag}]
         /\ clock' \in Nat
         /\ emitted' \subseteq [payload : Payloads, carries : Owners]
         /\ \E a \in {"ok", "noKey"} : answer' = [answer EXCEPT ![f] = a]
<1>1. /\ store \in [Keys -> Entries \cup {NoEntry}]
      /\ timers \in [Keys -> Frags \cup {NoFrag}]
      /\ clock \in Nat
      /\ emitted \subseteq [payload : Payloads, carries : Owners]
  BY DEF TypeOK, Owners
<1>2. CASE Send(f, pending, owner)
  <2>1. Event(Whole(f, pending), owner) \in [payload : Payloads, carries : Owners]
    BY WholeFacts DEF Event
  <2> QED BY <1>1, <1>2, <2>1 DEF Send, Cleared, Disarmed, Answer
<1>3. CASE Refuse(f, pending)
  BY <1>1, <1>3 DEF Refuse, Answer
<1>4. CASE Keep(f, pending, owner)
  <2> DEFINE S == With(f, pending, owner)
  <2>1. PICK left \in SUBSET Stored(S) :
          /\ store' = Cleared(S, Gone(S, left))
          /\ timers' = Disarmed(Arm(f, KeyOf[f]), Gone(S, left))
          /\ emitted' = emitted \cup Flushed(S, Gone(S, left))
    BY <1>4, KeepFacts
  <2>2. /\ KeyOf[f] \in Keys
        /\ clock' = IF pending.by = NoFrag THEN clock + 1 ELSE clock
        /\ answer' = [answer EXCEPT ![f] = "ok"]
    BY <1>4, KeepFacts
  <2>3. S \in [Keys -> Entries \cup {NoEntry}]
    BY <2>2, WithFacts
  <2> HIDE DEF S
  <2>4. Gone(S, left) \in SUBSET Keys
    BY <2>1, GoneFacts
  <2>5. /\ Cleared(S, Gone(S, left)) \in [Keys -> Entries \cup {NoEntry}]
        /\ Flushed(S, Gone(S, left)) \subseteq [payload : Payloads, carries : Owners]
    BY <2>3, <2>4, FlushFacts
  <2>6. timers' \in [Keys -> Frags \cup {NoFrag}]
    BY <1>1, <2>1, <2>2 DEF Disarmed, Arm
  <2> QED BY <1>1, <2>1, <2>2, <2>5, <2>6
<1> QED BY <1>2, <1>3, <1>4 DEF Conclude

------------------------------------------------------------------------------
(* Queues.                                                                 *)

BaseInv == TypeOK /\ QueueInv /\ CountInv

(* Every fragment has a slot.                                              *)
LEMMA SlotFacts ==
  ASSUME NEW f \in Frags
  PROVE  Slot(f) \in Slots /\ (KeyOf[f] # NoKey => Slot(f) = KeyOf[f] /\ KeyOf[f] \in Keys)
BY KeyOfAssumption DEF Slot, Slots

(* The end of a job takes the head of its queue and nothing else.          *)
LEMMA PopFacts ==
  ASSUME TypeOK, NEW s \in Slots, queues[s] # <<>>, Pop(s)
  PROVE  /\ queues' \in [Slots -> Seq(Jobs)]
         /\ owed' \in [Slots -> Nat]
         /\ 1 \in DOMAIN queues[s] /\ queues[s][1] = Head(queues[s])
         /\ \A t \in Slots : t # s => queues'[t] = queues[t]
         /\ \A i \in DOMAIN queues'[s] :
              /\ i \in Nat /\ i # 0 /\ i + 1 \in DOMAIN queues[s]
              /\ queues'[s][i] = queues[s][i + 1]
<1> DEFINE q == queues[s]
           r == Tail(queues[s])
<1>1. q \in Seq(Jobs) /\ q # <<>>
  BY DEF TypeOK
<1>2. /\ r \in Seq(Jobs) /\ Len(r) = Len(q) - 1
      /\ \A i \in 1 .. Len(r) : r[i] = q[i + 1]
  BY <1>1, HeadTailProperties
<1>3. /\ Len(q) \in Nat /\ DOMAIN q = 1 .. Len(q) /\ DOMAIN r = 1 .. Len(r)
      /\ Len(q) # 0
  BY <1>1, <1>2, LenProperties, EmptySeq
<1>4. queues' \in [Slots -> Seq(Jobs)] /\ queues'[s] = r
      /\ \A t \in Slots : t # s => queues'[t] = queues[t]
  BY <1>2 DEF Pop, TypeOK
<1>5. owed' \in [Slots -> Nat]
  BY DEF Pop, TypeOK
<1>6. 1 \in DOMAIN q /\ q[1] = Head(q)
  BY <1>1, <1>3
<1> HIDE DEF q, r
<1>7. ASSUME NEW i \in DOMAIN r
      PROVE  i \in Nat /\ i # 0 /\ i + 1 \in DOMAIN q /\ r[i] = q[i + 1]
  BY <1>2, <1>3
<1> QED BY <1>4, <1>5, <1>6, <1>7 DEF q, r

(* A new job is behind the others of its slot.                             *)
LEMMA PushFacts ==
  ASSUME TypeOK, NEW s \in Slots, NEW job \in Jobs, Push(s, job)
  PROVE  /\ queues' \in [Slots -> Seq(Jobs)]
         /\ \A t \in Slots : t # s => queues'[t] = queues[t]
         /\ \A i \in DOMAIN queues'[s] :
              \/ i \in DOMAIN queues[s] /\ queues'[s][i] = queues[s][i]
              \/ i = Len(queues[s]) + 1 /\ queues'[s][i] = job
<1> DEFINE q == queues[s]
           r == Append(queues[s], job)
<1>1. q \in Seq(Jobs)
  BY DEF TypeOK
<1>2. /\ r \in Seq(Jobs) /\ Len(r) = Len(q) + 1
      /\ \A i \in 1 .. Len(q) : r[i] = q[i]
      /\ r[Len(q) + 1] = job
  BY <1>1, AppendProperties
<1>3. /\ Len(q) \in Nat /\ DOMAIN q = 1 .. Len(q) /\ DOMAIN r = 1 .. Len(r)
  BY <1>1, <1>2, LenProperties
<1>4. queues' \in [Slots -> Seq(Jobs)] /\ queues'[s] = r
      /\ \A t \in Slots : t # s => queues'[t] = queues[t]
  BY <1>2 DEF Push, TypeOK
<1> HIDE DEF q, r
<1>5. ASSUME NEW i \in DOMAIN r
      PROVE  \/ i \in DOMAIN q /\ r[i] = q[i]
             \/ i = Len(q) + 1 /\ r[i] = job
  <2>1. i \in 1 .. Len(q) + 1
    BY <1>2, <1>3
  <2>2. i \in 1 .. Len(q) \/ i = Len(q) + 1
    BY <1>3, <2>1
  <2>3. CASE i \in 1 .. Len(q)
    BY <1>2, <1>3, <2>3
  <2>4. CASE i = Len(q) + 1
    BY <1>2, <2>4
  <2> QED BY <2>2, <2>3, <2>4
<1> QED BY <1>4, <1>5 DEF q, r

(* One queued input less.                                                  *)
LEMMA AnsweredCount ==
  ASSUME TypeOK, CountInv, NEW f \in Frags, answer[f] = "queued",
         NEW a \in Answers \ {"queued"}, answer' = [answer EXCEPT ![f] = a],
         inputs' = inputs - 1
  PROVE  CountInv' /\ inputs' \in Nat
<1>1. Queued(answer') = Queued(answer) \ {f} /\ f \in Queued(answer)
  BY DEF Queued, TypeOK
<1>2. /\ IsFiniteSet(Queued(answer'))
      /\ Cardinality(Queued(answer')) = Cardinality(Queued(answer)) - 1
  BY <1>1, FS_RemoveElement DEF CountInv
<1>3. Cardinality(Queued(answer')) \in Nat
  BY <1>2, FS_CardinalityType
<1>4. inputs \in Nat /\ MaxEntries \in Nat
  BY MaxEntriesAssumption DEF TypeOK
<1> QED BY <1>2, <1>3, <1>4 DEF CountInv

(* An input job that is done is answered, and is not queued any longer.    *)
LEMMA InputDone ==
  ASSUME BaseInv, NEW f \in Frags, NEW s, s = Slot(f), queues[s] # <<>>,
         Head(queues[s]) = [kind |-> "input", frag |-> f], Pop(s),
         NEW a \in Answers \ {"queued"}, answer' = [answer EXCEPT ![f] = a]
  PROVE  /\ queues' \in [Slots -> Seq(Jobs)] /\ inputs' \in Nat
         /\ owed' \in [Slots -> Nat] /\ answer' \in [Frags -> Answers]
         /\ QueueInv' /\ CountInv'
         /\ answer[f] = "queued"
<1> s \in Slots
  BY SlotFacts
<1>1. /\ queues' \in [Slots -> Seq(Jobs)]
      /\ owed' \in [Slots -> Nat]
      /\ 1 \in DOMAIN queues[s] /\ queues[s][1] = [kind |-> "input", frag |-> f]
      /\ \A t \in Slots : t # s => queues'[t] = queues[t]
      /\ \A i \in DOMAIN queues'[s] :
           /\ i \in Nat /\ i # 0 /\ i + 1 \in DOMAIN queues[s]
           /\ queues'[s][i] = queues[s][i + 1]
  BY PopFacts DEF BaseInv
<1>2. answer[f] = "queued"
  <2>1. /\ 1 \in DOMAIN queues[s]
        /\ queues[s][1].kind = "input" /\ queues[s][1].frag = f
    BY <1>1
  <2> QED BY <2>1 DEF BaseInv, QueueInv
<1>3. CountInv' /\ inputs' \in Nat
  <2>1. inputs' = inputs - 1
    BY DEF Pop
  <2>2. TypeOK /\ CountInv
    BY DEF BaseInv
  <2> QED BY <1>2, <2>1, <2>2, AnsweredCount
<1>4. answer' \in [Frags -> Answers]
      /\ \A g \in Frags : g # f => answer'[g] = answer[g]
  BY DEF BaseInv, TypeOK
<1>5. ASSUME NEW t \in Slots, NEW i \in DOMAIN queues'[t], queues'[t][i].kind = "input"
      PROVE  Slot(queues'[t][i].frag) = t /\ answer'[queues'[t][i].frag] = "queued"
  <2>1. /\ Slot(queues'[t][i].frag) = t
        /\ answer[queues'[t][i].frag] = "queued"
        /\ queues'[t][i].frag # f
    <3>1. CASE t = s
      <4>1. i + 1 # 1 /\ i + 1 \in DOMAIN queues[s] /\ queues'[s][i] = queues[s][i + 1]
        BY <1>1, <3>1
      <4>2. queues[s][i + 1].kind = "input" /\ queues[s][1].kind = "input"
        BY <1>1, <1>5, <3>1, <4>1
      <4>3. queues[s][i + 1].frag # queues[s][1].frag
        BY <1>1, <4>1, <4>2 DEF BaseInv, QueueInv
      <4> QED BY <1>1, <3>1, <4>1, <4>2, <4>3 DEF BaseInv, QueueInv
    <3>2. CASE t # s
      <4>1. queues'[t] = queues[t]
        BY <1>1, <3>2
      <4>2. Slot(queues[t][i].frag) = t /\ answer[queues[t][i].frag] = "queued"
        BY <1>5, <4>1 DEF BaseInv, QueueInv
      <4> QED BY <3>2, <4>1, <4>2
    <3> QED BY <3>1, <3>2
  <2>2. queues'[t][i].frag \in Frags
    <3>1. queues'[t] \in Seq(Jobs)
      BY <1>1
    <3>2. queues'[t][i] \in Jobs
      BY <3>1, LenProperties
    <3> QED BY <3>2 DEF Jobs
  <2> QED BY <1>4, <2>1, <2>2
<1>6. ASSUME NEW t \in Slots, NEW i \in DOMAIN queues'[t], NEW j \in DOMAIN queues'[t],
             queues'[t][i].kind = "input", queues'[t][j].kind = "input",
             queues'[t][i].frag = queues'[t][j].frag
      PROVE  i = j
  <2>1. CASE t = s
    <3>1. /\ i \in Nat /\ j \in Nat
          /\ i + 1 \in DOMAIN queues[s] /\ queues'[s][i] = queues[s][i + 1]
          /\ j + 1 \in DOMAIN queues[s] /\ queues'[s][j] = queues[s][j + 1]
      BY <1>1, <1>6, <2>1
    <3>2. i + 1 = j + 1
      BY <1>6, <2>1, <3>1 DEF BaseInv, QueueInv
    <3> QED BY <3>1, <3>2
  <2>2. CASE t # s
    <3>1. queues'[t] = queues[t]
      BY <1>1, <2>2
    <3> QED BY <1>6, <3>1 DEF BaseInv, QueueInv
  <2> QED BY <2>1, <2>2
<1> QED BY <1>1, <1>2, <1>3, <1>4, <1>5, <1>6 DEF QueueInv

(* A timer job that is done leaves the queued inputs as they are.          *)
LEMMA TimerDone ==
  ASSUME BaseInv, NEW f \in Frags, NEW s \in Slots, queues[s] # <<>>,
         Head(queues[s]) = [kind |-> "timer", frag |-> f], Pop(s), UNCHANGED answer
  PROVE  /\ queues' \in [Slots -> Seq(Jobs)] /\ inputs' \in Nat
         /\ owed' \in [Slots -> Nat]
         /\ QueueInv' /\ CountInv'
<1>1. /\ queues' \in [Slots -> Seq(Jobs)]
      /\ owed' \in [Slots -> Nat]
      /\ \A t \in Slots : t # s => queues'[t] = queues[t]
      /\ \A i \in DOMAIN queues'[s] :
           /\ i \in Nat /\ i # 0 /\ i + 1 \in DOMAIN queues[s]
           /\ queues'[s][i] = queues[s][i + 1]
  BY PopFacts DEF BaseInv
<1>2. inputs' = inputs
  BY DEF Pop
<1>3. inputs' \in Nat /\ CountInv'
  BY <1>2 DEF BaseInv, TypeOK, CountInv
<1>4. ASSUME NEW t \in Slots, NEW i \in DOMAIN queues'[t], queues'[t][i].kind = "input"
      PROVE  Slot(queues'[t][i].frag) = t /\ answer[queues'[t][i].frag] = "queued"
  BY <1>1, <1>4 DEF BaseInv, QueueInv
<1>5. ASSUME NEW t \in Slots, NEW i \in DOMAIN queues'[t], NEW j \in DOMAIN queues'[t],
             queues'[t][i].kind = "input", queues'[t][j].kind = "input",
             queues'[t][i].frag = queues'[t][j].frag
      PROVE  i = j
  <2>1. CASE t = s
    <3>1. /\ i \in Nat /\ j \in Nat
          /\ i + 1 \in DOMAIN queues[s] /\ queues'[s][i] = queues[s][i + 1]
          /\ j + 1 \in DOMAIN queues[s] /\ queues'[s][j] = queues[s][j + 1]
      BY <1>1, <1>5, <2>1
    <3>2. i + 1 = j + 1
      BY <1>5, <2>1, <3>1 DEF BaseInv, QueueInv
    <3> QED BY <3>1, <3>2
  <2>2. CASE t # s
    <3>1. queues'[t] = queues[t]
      BY <1>1, <2>2
    <3> QED BY <1>5, <3>1 DEF BaseInv, QueueInv
  <2> QED BY <2>1, <2>2
<1> QED BY <1>1, <1>3, <1>4, <1>5 DEF QueueInv

(* Registry steps change the registry, within its states.                  *)
LEMMA TxnTypes ==
  ASSUME TypeOK
  PROVE  /\ \A S : Finalize(S) => txn' \in [Txns -> {"active", "ending"} \cup Outcomes]
         /\ \A S \in SUBSET Txns : TxnsEnd(S) => txn' \in [Txns -> {"active", "ending"} \cup Outcomes]
         /\ \A t \in Txns : TxnSettles(t) => txn' \in [Txns -> {"active", "ending"} \cup Outcomes]
BY DEF TypeOK, Finalize, TxnsEnd, TxnSettles, Registry!End, Registry!Settle, Outcomes

(* The pending entry of a fragment is one, and of its key.                 *)
LEMMA PendingFacts ==
  ASSUME TypeOK, NEW f \in Frags
  PROVE  /\ Pending(f) \in Entries \cup {NoEntry}
         /\ KeyOf[f] = NoKey => Pending(f) = NoEntry
         /\ KeyOf[f] # NoKey => KeyOf[f] \in Keys /\ Pending(f) = store[KeyOf[f]]
         /\ OwnerOf[f] \in Owners
BY KeyOfAssumption, OwnerOfAssumption DEF Pending, TypeOK, Owners

(* An input that arrives is queued once and counted, or told to retry.     *)
LEMMA InputBase == ASSUME BaseInv, NEW f \in Frags, Input(f) PROVE BaseInv'
<1>0. /\ TypeOK /\ QueueInv /\ CountInv /\ answer[f] = "new"
      /\ UNCHANGED <<store, timers, consumed, clock, closed, owed, emitted, txn>>
  BY DEF BaseInv, Input
<1>1. CASE /\ inputs < MaxEntries
           /\ inputs' = inputs + 1
           /\ Push(Slot(f), [kind |-> "input", frag |-> f])
           /\ answer' = [answer EXCEPT ![f] = "queued"]
  <2> DEFINE s == Slot(f)
             job == [kind |-> "input", frag |-> f]
  <2>1. s \in Slots /\ job \in Jobs
    BY SlotFacts DEF Jobs
  <2> HIDE DEF s, job
  <2>2. /\ queues' \in [Slots -> Seq(Jobs)]
        /\ \A t \in Slots : t # s => queues'[t] = queues[t]
        /\ \A i \in DOMAIN queues'[s] :
             \/ i \in DOMAIN queues[s] /\ queues'[s][i] = queues[s][i]
             \/ i = Len(queues[s]) + 1 /\ queues'[s][i] = job
    BY <1>0, <1>1, <2>1, PushFacts DEF s, job
  <2>3. /\ answer' \in [Frags -> Answers] /\ answer'[f] = "queued"
        /\ \A g : answer[g] = "queued" /\ g \in Frags => answer'[g] = "queued"
    BY <1>0, <1>1 DEF TypeOK, Answers
  <2>4. Queued(answer') = Queued(answer) \cup {f} /\ f \notin Queued(answer)
    BY <1>0, <1>1 DEF Queued, TypeOK
  <2>5. CountInv' /\ inputs' \in Nat
    <3>1. /\ IsFiniteSet(Queued(answer'))
          /\ Cardinality(Queued(answer')) = Cardinality(Queued(answer)) + 1
      BY <1>0, <2>4, FS_AddElement DEF CountInv
    <3>2. inputs \in Nat /\ MaxEntries \in Nat
      BY <1>0, MaxEntriesAssumption DEF TypeOK
    <3> QED BY <1>0, <1>1, <3>1, <3>2 DEF CountInv
  <2>6. job.kind = "input" /\ job.frag = f /\ Slot(job.frag) = s
    BY DEF job, s
  <2>7. ASSUME NEW t \in Slots, NEW i \in DOMAIN queues[t], queues[t][i].kind = "input"
        PROVE  /\ Slot(queues[t][i].frag) = t
               /\ answer'[queues[t][i].frag] = "queued"
               /\ queues[t][i].frag # f
    <3>1. Slot(queues[t][i].frag) = t /\ answer[queues[t][i].frag] = "queued"
      BY <1>0, <2>7 DEF QueueInv
    <3>2. queues[t][i].frag \in Frags
      <4>1. queues[t] \in Seq(Jobs)
        BY <1>0 DEF TypeOK
      <4>2. queues[t][i] \in Jobs
        BY <4>1, LenProperties
      <4> QED BY <4>2 DEF Jobs
    <3> QED BY <1>0, <2>3, <3>1, <3>2
  <2>8. ASSUME NEW t \in Slots, NEW i \in DOMAIN queues'[t], queues'[t][i].kind = "input"
        PROVE  Slot(queues'[t][i].frag) = t /\ answer'[queues'[t][i].frag] = "queued"
    <3>1. CASE t = s
      BY <2>2, <2>3, <2>6, <2>7, <2>8, <3>1
    <3>2. CASE t # s
      BY <2>2, <2>7, <2>8, <3>2
    <3> QED BY <3>1, <3>2
  <2>9. ASSUME NEW t \in Slots, NEW i \in DOMAIN queues'[t], NEW j \in DOMAIN queues'[t],
               queues'[t][i].kind = "input", queues'[t][j].kind = "input",
               queues'[t][i].frag = queues'[t][j].frag
        PROVE  i = j
    <3>1. CASE i \in DOMAIN queues[t] /\ queues'[t][i] = queues[t][i]
               /\ j \in DOMAIN queues[t] /\ queues'[t][j] = queues[t][j]
      BY <1>0, <2>9, <3>1 DEF QueueInv
    <3>2. CASE t = s /\ i = Len(queues[s]) + 1 /\ queues'[s][i] = job
      <4>1. queues'[t][j].frag = f
        BY <2>6, <2>9, <3>2
      <4>2. ~(j \in DOMAIN queues[t] /\ queues'[t][j] = queues[t][j])
        BY <2>7, <2>9, <4>1
      <4> QED BY <2>2, <3>2, <4>2
    <3>3. CASE t = s /\ j = Len(queues[s]) + 1 /\ queues'[s][j] = job
      <4>1. queues'[t][i].frag = f
        BY <2>6, <2>9, <3>3
      <4>2. ~(i \in DOMAIN queues[t] /\ queues'[t][i] = queues[t][i])
        BY <2>7, <2>9, <4>1
      <4> QED BY <2>2, <3>3, <4>2
    <3>4. CASE t # s
      <4>1. queues'[t] = queues[t]
        BY <2>2, <3>4
      <4> QED BY <3>1, <4>1
    <3> QED BY <2>2, <3>1, <3>2, <3>3, <3>4
  <2>10. QueueInv'
    BY <2>8, <2>9 DEF QueueInv
  <2> QED BY <1>0, <2>2, <2>3, <2>5, <2>10 DEF BaseInv, TypeOK
<1>2. CASE answer' = [answer EXCEPT ![f] = "busy"] /\ UNCHANGED <<inputs, queues>>
  <2>1. answer' \in [Frags -> Answers] /\ \A g \in Frags : g # f => answer'[g] = answer[g]
    BY <1>0, <1>2 DEF TypeOK, Answers
  <2>2. Queued(answer') = Queued(answer)
    BY <1>0, <1>2 DEF Queued, TypeOK
  <2>3. ASSUME NEW t \in Slots, NEW i \in DOMAIN queues[t], queues[t][i].kind = "input"
        PROVE  /\ Slot(queues[t][i].frag) = t
               /\ answer'[queues[t][i].frag] = "queued"
    <3>1. Slot(queues[t][i].frag) = t /\ answer[queues[t][i].frag] = "queued"
      BY <1>0, <2>3 DEF QueueInv
    <3>2. queues[t][i].frag \in Frags
      <4>1. queues[t] \in Seq(Jobs)
        BY <1>0 DEF TypeOK
      <4>2. queues[t][i] \in Jobs
        BY <4>1, LenProperties
      <4> QED BY <4>2 DEF Jobs
    <3>3. queues[t][i].frag # f
      BY <1>0, <3>1
    <3> QED BY <2>1, <3>1, <3>2, <3>3
  <2>4. QueueInv'
    BY <1>0, <1>2, <2>3 DEF QueueInv
  <2>5. CountInv'
    BY <1>0, <1>2, <2>2 DEF CountInv
  <2> QED BY <1>0, <1>2, <2>1, <2>4, <2>5 DEF BaseInv, TypeOK
<1> QED BY <1>1, <1>2 DEF Input

(* A job that leaves the entry it found, or drops it, keeps the base.      *)
LEMMA DropBase ==
  ASSUME BaseInv, NEW f \in Frags, RunClosed(f) \/ RunInvalid(f) \/ RunExpired(f)
  PROVE  BaseInv'
<1>1. PICK a \in Answers \ {"queued"} : answer' = [answer EXCEPT ![f] = a]
  <2>1. "dropped" \in Answers \ {"queued"} /\ "invalid" \in Answers \ {"queued"}
    BY DEF Answers
  <2>2. answer' = [answer EXCEPT ![f] = "dropped"] \/ answer' = [answer EXCEPT ![f] = "invalid"]
    BY DEF RunClosed, RunInvalid, RunExpired, Answer
  <2> QED BY <2>1, <2>2
<1>2. /\ queues[Slot(f)] # <<>> /\ Head(queues[Slot(f)]) = [kind |-> "input", frag |-> f]
      /\ Pop(Slot(f)) /\ UNCHANGED <<consumed, clock, closed, emitted, txn>>
  BY DEF RunClosed, RunInvalid, RunExpired, Ready
<1>3. /\ queues' \in [Slots -> Seq(Jobs)] /\ inputs' \in Nat
      /\ owed' \in [Slots -> Nat] /\ answer' \in [Frags -> Answers]
      /\ QueueInv' /\ CountInv'
  BY <1>1, <1>2, InputDone
<1>4. store' \in [Keys -> Entries \cup {NoEntry}] /\ timers' \in [Keys -> Frags \cup {NoFrag}]
  BY DEF BaseInv, TypeOK, RunClosed, RunInvalid, RunExpired, Cleared, Disarmed
<1> QED BY <1>2, <1>3, <1>4 DEF BaseInv, TypeOK

(* So does one that begins to finalize two owners.                         *)
LEMMA FinalizeBase ==
  ASSUME BaseInv, NEW f \in Frags, RunFinalize(f)
  PROVE  BaseInv' /\ KeyOf[f] \in Keys
<1>1. /\ KeyOf[f] \in Keys
      /\ Finalize({Pending(f).owner, OwnerOf[f]}) /\ Consume(KeyOf[f])
      /\ UNCHANGED <<queues, inputs, clock, closed, owed, answer, emitted>>
  BY PendingFacts, NoEntryFacts DEF RunFinalize, Settles, BaseInv, public
<1>2. /\ store' \in [Keys -> Entries \cup {NoEntry}]
      /\ timers' \in [Keys -> Frags \cup {NoFrag}]
      /\ consumed' \in [Keys -> Entries \cup {NoEntry}]
  BY <1>1 DEF BaseInv, TypeOK, Consume, Cleared, Disarmed
<1>3. txn' \in [Txns -> {"active", "ending"} \cup Outcomes]
  BY <1>1, TxnTypes DEF BaseInv
<1>4. QueueInv' /\ CountInv'
  BY <1>1 DEF BaseInv, QueueInv, CountInv
<1> QED BY <1>1, <1>2, <1>3, <1>4 DEF BaseInv, TypeOK

(* And one that concludes without waiting.                                 *)
LEMMA RunConcludeBase ==
  ASSUME BaseInv, NEW f \in Frags, RunConclude(f)
  PROVE  BaseInv' /\ answer[f] = "queued"
<1>1. /\ queues[Slot(f)] # <<>> /\ Head(queues[Slot(f)]) = [kind |-> "input", frag |-> f]
      /\ Conclude(f, Pending(f), OwnerOf[f])
      /\ Pop(Slot(f)) /\ UNCHANGED <<consumed, closed, txn>>
  BY DEF RunConclude, Ready
<1>2. /\ store' \in [Keys -> Entries \cup {NoEntry}]
      /\ timers' \in [Keys -> Frags \cup {NoFrag}]
      /\ clock' \in Nat
      /\ emitted' \subseteq [payload : Payloads, carries : Owners]
      /\ \E a \in {"ok", "noKey"} : answer' = [answer EXCEPT ![f] = a]
  <2>1. TypeOK /\ Pending(f) \in Entries \cup {NoEntry} /\ OwnerOf[f] \in Owners
    BY PendingFacts DEF BaseInv
  <2> QED BY <1>1, <2>1, ConcludeTypes
<1>3. /\ queues' \in [Slots -> Seq(Jobs)] /\ inputs' \in Nat
      /\ owed' \in [Slots -> Nat] /\ answer' \in [Frags -> Answers]
      /\ QueueInv' /\ CountInv' /\ answer[f] = "queued"
  <2>1. PICK a \in Answers \ {"queued"} : answer' = [answer EXCEPT ![f] = a]
    BY <1>2 DEF Answers
  <2> QED BY <1>1, <2>1, InputDone
<1> QED BY <1>1, <1>2, <1>3 DEF BaseInv, TypeOK, Owners

(* And one whose finalize() answered.                                      *)
LEMMA FinalizedBase ==
  ASSUME BaseInv, NEW f \in Frags, Finalized(f)
  PROVE  /\ BaseInv' /\ answer[f] = "queued"
         /\ KeyOf[f] \in Keys /\ consumed[KeyOf[f]] \in Entries \cup {NoEntry}
<1> DEFINE k == KeyOf[f]
<1>1. /\ k \in Keys /\ queues[k] # <<>>
      /\ Head(queues[k]) = [kind |-> "input", frag |-> f]
      /\ consumed' = [consumed EXCEPT ![k] = NoEntry]
      /\ Pop(k) /\ UNCHANGED <<closed, txn>>
  BY DEF Finalized
<1>2. Slot(f) = k
  BY <1>1, KeyOfAssumption DEF Slot
<1>3. consumed[k] \in Entries \cup {NoEntry}
  BY <1>1 DEF BaseInv, TypeOK
<1>4. consumed' \in [Keys -> Entries \cup {NoEntry}]
  BY <1>1 DEF BaseInv, TypeOK
<1>5. /\ store' \in [Keys -> Entries \cup {NoEntry}]
      /\ timers' \in [Keys -> Frags \cup {NoFrag}]
      /\ clock' \in Nat
      /\ emitted' \subseteq [payload : Payloads, carries : Owners]
      /\ \E a \in {"ok", "noKey", "failed", "dropped"} : answer' = [answer EXCEPT ![f] = a]
  <2>1. CASE /\ UNCHANGED <<store, timers, clock, emitted>>
             /\ (Answer(f, "failed") \/ Answer(f, "dropped"))
    BY <2>1 DEF BaseInv, TypeOK, Answer, Owners
  <2>2. CASE Conclude(f, consumed[k], NoTxn)
    <3>1. TypeOK /\ NoTxn \in Owners
      BY DEF BaseInv, Owners
    <3> HIDE DEF k
    <3>2. /\ store' \in [Keys -> Entries \cup {NoEntry}]
          /\ timers' \in [Keys -> Frags \cup {NoFrag}]
          /\ clock' \in Nat
          /\ emitted' \subseteq [payload : Payloads, carries : Owners]
          /\ \E a \in {"ok", "noKey"} : answer' = [answer EXCEPT ![f] = a]
      BY <1>3, <2>2, <3>1, ConcludeTypes
    <3> QED BY <3>2
  <2> QED BY <2>1, <2>2 DEF Finalized
<1>6. /\ queues' \in [Slots -> Seq(Jobs)] /\ inputs' \in Nat
      /\ owed' \in [Slots -> Nat] /\ answer' \in [Frags -> Answers]
      /\ QueueInv' /\ CountInv' /\ answer[f] = "queued"
  <2>1. PICK a \in Answers \ {"queued"} : answer' = [answer EXCEPT ![f] = a]
    BY <1>5 DEF Answers
  <2> QED BY <1>1, <1>2, <2>1, InputDone
<1> QED BY <1>1, <1>3, <1>4, <1>5, <1>6 DEF BaseInv, TypeOK, Owners

(* A timer that fires queues a job that no input of the queue is.          *)
LEMMA FiresBase ==
  ASSUME BaseInv, NEW k \in Keys, TimerFires(k)
  PROVE  BaseInv'
<1> DEFINE job == [kind |-> "timer", frag |-> timers[k]]
<1>1. /\ timers[k] \in Frags /\ k \in Slots
      /\ UNCHANGED <<store, consumed, inputs, clock, closed, owed, answer, emitted, txn>>
      /\ timers' = [timers EXCEPT ![k] = NoFrag]
  BY DEF TimerFires, BaseInv, TypeOK, public, Slots
<1>2. job \in Jobs /\ job.kind # "input" /\ Push(k, job)
  BY <1>1 DEF Jobs, TimerFires
<1> HIDE DEF job
<1>3. /\ queues' \in [Slots -> Seq(Jobs)]
      /\ \A t \in Slots : t # k => queues'[t] = queues[t]
      /\ \A i \in DOMAIN queues'[k] :
           \/ i \in DOMAIN queues[k] /\ queues'[k][i] = queues[k][i]
           \/ i = Len(queues[k]) + 1 /\ queues'[k][i] = job
  BY <1>1, <1>2, PushFacts DEF BaseInv
<1>4. ASSUME NEW t \in Slots, NEW i \in DOMAIN queues'[t], queues'[t][i].kind = "input"
      PROVE  i \in DOMAIN queues[t] /\ queues'[t][i] = queues[t][i]
  <2>1. CASE t = k
    BY <1>2, <1>3, <1>4, <2>1
  <2>2. CASE t # k
    BY <1>3, <2>2
  <2> QED BY <2>1, <2>2
<1>5. \A t \in Slots : \A i \in DOMAIN queues'[t] :
        queues'[t][i].kind = "input" =>
          Slot(queues'[t][i].frag) = t /\ answer[queues'[t][i].frag] = "queued"
  BY <1>4 DEF BaseInv, QueueInv
<1>6. ASSUME NEW t \in Slots, NEW i \in DOMAIN queues'[t], NEW j \in DOMAIN queues'[t],
             queues'[t][i].kind = "input", queues'[t][j].kind = "input",
             queues'[t][i].frag = queues'[t][j].frag
      PROVE  i = j
  <2>1. /\ i \in DOMAIN queues[t] /\ queues'[t][i] = queues[t][i]
        /\ j \in DOMAIN queues[t] /\ queues'[t][j] = queues[t][j]
    BY <1>4, <1>6
  <2> QED BY <1>6, <2>1 DEF BaseInv, QueueInv
<1>7. QueueInv'
  BY <1>1, <1>5, <1>6 DEF QueueInv
<1> QED BY <1>1, <1>3, <1>7 DEF BaseInv, TypeOK, CountInv

(* The store a timer's job leaves behind.                                  *)
LEMMA RunTimerBase ==
  ASSUME BaseInv, NEW k \in Keys, NEW f \in Frags, RunTimer(k, f)
  PROVE  BaseInv'
<1>1. /\ k \in Slots /\ queues[k] # <<>>
      /\ Head(queues[k]) = [kind |-> "timer", frag |-> f]
      /\ Pop(k) /\ UNCHANGED <<consumed, clock, closed, answer, txn>>
  BY DEF RunTimer, Ready, Slots
<1>2. /\ queues' \in [Slots -> Seq(Jobs)] /\ inputs' \in Nat
      /\ owed' \in [Slots -> Nat]
      /\ QueueInv' /\ CountInv'
  BY <1>1, TimerDone
<1>3. /\ store' \in [Keys -> Entries \cup {NoEntry}]
      /\ timers' \in [Keys -> Frags \cup {NoFrag}]
      /\ emitted' \subseteq [payload : Payloads, carries : Owners]
  <2>1. store \in [Keys -> Entries \cup {NoEntry}] /\ {k} \in SUBSET Keys
    BY DEF BaseInv, TypeOK
  <2>2. Flushed(store, {k}) \subseteq [payload : Payloads, carries : Owners]
    BY <2>1, FlushFacts
  <2> QED BY <2>2 DEF BaseInv, TypeOK, RunTimer, Cleared, Disarmed, Owners
<1> QED BY <1>1, <1>2, <1>3 DEF BaseInv, TypeOK, Owners

(* Transactions end, the node closes.                                      *)
LEMMA RestBase ==
  ASSUME BaseInv,
         \/ (\E S \in SUBSET Txns : TxnsEnd(S)) \/ \E t \in Txns : TxnSettles(t)
         \/ Close
         \/ UNCHANGED vars
  PROVE  BaseInv'
<1>1. UNCHANGED <<queues, inputs, answer>>
  BY DEF TxnsEnd, TxnSettles, Close, vars, local, public
<1>2. QueueInv' /\ CountInv'
  BY <1>1 DEF BaseInv, QueueInv, CountInv
<1>3. CASE (\E S \in SUBSET Txns : TxnsEnd(S)) \/ \E t \in Txns : TxnSettles(t)
  <2>1. txn' \in [Txns -> {"active", "ending"} \cup Outcomes] /\ UNCHANGED <<local, public>>
    BY <1>3, TxnTypes DEF TxnsEnd, TxnSettles, BaseInv
  <2> QED BY <1>2, <2>1 DEF BaseInv, TypeOK, local, public
<1>4. CASE Close
  <2>1. owed' \in [Slots -> Nat]
    <3>1. \A s \in Slots : Len(queues[s]) \in Nat
      <4>1. ASSUME NEW s \in Slots PROVE Len(queues[s]) \in Nat
        <5>1. queues[s] \in Seq(Jobs)
          BY DEF BaseInv, TypeOK
        <5> QED BY <5>1, LenProperties
      <4> QED BY <4>1
    <3> QED BY <1>4, <3>1 DEF Close
  <2> QED BY <1>2, <1>4, <2>1 DEF BaseInv, TypeOK, Close, public
<1>5. CASE UNCHANGED vars
  BY <1>2, <1>5 DEF BaseInv, TypeOK, vars, local, public
<1> QED BY <1>3, <1>4, <1>5

(* Initially nothing is queued.                                            *)
LEMMA BaseInit == Init => BaseInv
<1> SUFFICES ASSUME Init PROVE BaseInv
  OBVIOUS
<1>1. Queued(answer) = {}
  BY DEF Init, Queued
<1>2. CountInv
  BY <1>1, FS_EmptySet, MaxEntriesAssumption DEF CountInv, Init
<1>3. \A s \in Slots : DOMAIN queues[s] = {}
  <2>1. \A s \in Slots : queues[s] = <<>>
    BY DEF Init
  <2>2. DOMAIN <<>> = {}
    OBVIOUS
  <2> QED BY <2>1, <2>2
<1>4. QueueInv
  BY <1>3 DEF QueueInv
<1>5. \A s \in Slots : queues[s] \in Seq(Jobs)
  BY EmptySeq DEF Init
<1>6. TypeOK
  BY <1>5 DEF TypeOK, Init, Answers
<1> QED BY <1>2, <1>4, <1>6 DEF BaseInv

(* Every step keeps the queues and the count.                              *)
LEMMA BaseNext == BaseInv /\ [Next]_vars => BaseInv'
<1> SUFFICES ASSUME BaseInv, [Next]_vars PROVE BaseInv'
  OBVIOUS
<1>1. ASSUME NEW f \in Frags, Input(f) PROVE BaseInv'
  BY <1>1, InputBase
<1>2. ASSUME NEW f \in Frags, RunInput(f) PROVE BaseInv'
  BY <1>2, DropBase, FinalizeBase, RunConcludeBase, FinalizedBase DEF RunInput
<1>3. ASSUME NEW k \in Keys, TimerFires(k) PROVE BaseInv'
  BY <1>3, FiresBase
<1>4. ASSUME NEW k \in Keys, NEW f \in Frags, RunTimer(k, f) PROVE BaseInv'
  BY <1>4, RunTimerBase
<1>5. CASE ((\E S \in SUBSET Txns : TxnsEnd(S)) \/ \E t \in Txns : TxnSettles(t)) \/ Close \/ UNCHANGED vars
  BY <1>5, RestBase
<1> QED BY <1>1, <1>2, <1>3, <1>4, <1>5 DEF Next, Work

(* The state of the node stays within its types, each slot's queue holds   *)
(* its waiting inputs once, and pendingInputs counts them and stays within *)
(* the limit (queueComposite).                                             *)
THEOREM InputsAreCounted == Spec => []BaseInv
BY BaseInit, BaseNext, PTL DEF Spec

------------------------------------------------------------------------------
(* Safe work.                                                              *)

(* Work stays safe while commits stay.                                     *)
LEMMA SafeStays ==
  ASSUME NEW T, NEW U, \A t \in Txns : T[t] = "committed" => U[t] = "committed",
         NEW p, NEW owner, Safe(T, p, owner)
  PROVE  Safe(U, p, owner)
BY OwnerOfAssumption DEF Safe, SafeFrom, Contributors

(* One more safe fragment.                                                 *)
LEMMA SafeWith ==
  ASSUME NEW T, NEW f, NEW p, NEW q, NEW owner, Safe(T, p, owner), SafeFrom(T, f, owner),
         Contributors(q) \subseteq {f} \cup Contributors(p)
  PROVE  Safe(T, q, owner)
BY DEF Safe

(* The empty entry is safe.                                                *)
LEMMA NoEntrySafe == ASSUME NEW T PROVE Safe(T, NoEntry.payload, NoEntry.owner)
BY NoEntryFacts DEF Safe

(* A handler that concludes stores and sends safe work only.               *)
LEMMA ConcludeSafe ==
  ASSUME TypeOK, SafeInv, NEW f \in Frags, NEW pending \in Entries \cup {NoEntry},
         NEW owner \in Owners, Conclude(f, pending, owner),
         Safe(txn, pending.payload, owner), SafeFrom(txn, f, owner)
  PROVE  /\ \A k \in Keys : Safe(txn, store'[k].payload, store'[k].owner)
         /\ \A e \in emitted' : Safe(txn, e.payload, e.carries)
<1>1. CASE Send(f, pending, owner)
  <2>1. Safe(txn, Whole(f, pending), owner)
    BY WholeFacts, SafeWith
  <2> DEFINE e == Event(Whole(f, pending), owner)
  <2>2. e.payload = Whole(f, pending) /\ e.carries = owner
    BY DEF Event
  <2> HIDE DEF e
  <2>3. emitted' = emitted \cup {e}
    BY <1>1 DEF Send, e
  <2>4. \A d \in emitted' : Safe(txn, d.payload, d.carries)
    BY <2>1, <2>2, <2>3 DEF SafeInv
  <2>5. \A k \in Keys : store'[k] = store[k] \/ store'[k] = NoEntry
    BY <1>1 DEF Send, Cleared
  <2>6. \A k \in Keys : Safe(txn, store'[k].payload, store'[k].owner)
    BY <2>5, NoEntrySafe DEF SafeInv
  <2> QED BY <2>4, <2>6
<1>2. CASE Refuse(f, pending)
  BY <1>2 DEF Refuse, SafeInv
<1>3. CASE Keep(f, pending, owner)
  <2> DEFINE S == With(f, pending, owner)
  <2>1. KeyOf[f] \in Keys
    BY <1>3, KeepFacts
  <2>2. PICK left \in SUBSET Stored(S) :
          /\ store' = Cleared(S, Gone(S, left))
          /\ emitted' = emitted \cup Flushed(S, Gone(S, left))
    BY <1>3, KeepFacts
  <2>3. /\ S \in [Keys -> Entries \cup {NoEntry}]
        /\ S[KeyOf[f]] = EntryFor(f, pending, owner)
        /\ \A k \in Keys : k # KeyOf[f] => S[k] = store[k]
    BY <2>1, WithFacts
  <2>4. Safe(txn, EntryFor(f, pending, owner).payload, EntryFor(f, pending, owner).owner)
    <3>1. Safe(txn, EntryFor(f, pending, owner).payload, owner)
      BY EntryForFacts, SafeWith
    <3> QED BY <3>1, EntryForFacts
  <2> HIDE DEF S
  <2>5. \A k \in Keys : Safe(txn, S[k].payload, S[k].owner)
    BY <2>3, <2>4 DEF SafeInv
  <2>6. Gone(S, left) \in SUBSET Keys
    BY <2>2, GoneFacts
  <2>7. /\ \A k \in Keys : store'[k] = S[k] \/ store'[k] = NoEntry
        /\ \A e \in Flushed(S, Gone(S, left)) :
             \E k \in Keys : e = Event(S[k].payload, S[k].owner)
    BY <2>2, <2>3, <2>6, FlushFacts
  <2>8. \A e \in Flushed(S, Gone(S, left)) : Safe(txn, e.payload, e.carries)
    BY <2>5, <2>7 DEF Event
  <2>9. \A k \in Keys : Safe(txn, store'[k].payload, store'[k].owner)
    BY <2>5, <2>7, NoEntrySafe
  <2> QED BY <2>2, <2>8, <2>9 DEF SafeInv
<1> QED BY <1>1, <1>2, <1>3 DEF Conclude

(* A transaction that committed stays committed.                           *)
LEMMA CommitsStay ==
  ASSUME TypeOK, [Next]_vars, NEW t \in Txns, txn[t] = "committed"
  PROVE  txn'[t] = "committed"
<1>1. \A f \in Frags : RunInput(f) => txn' = txn \/ \E S : Finalize(S)
  BY DEF RunInput, RunClosed, RunInvalid, RunExpired, RunFinalize, RunConclude, Finalized
<1>2. \A f \in Frags : Input(f) => txn' = txn
  BY DEF Input
<1>3. \A k \in Keys : TimerFires(k) => txn' = txn
  BY DEF TimerFires
<1>4. \A k \in Keys, f \in Frags : RunTimer(k, f) => txn' = txn
  BY DEF RunTimer
<1>5. Close \/ UNCHANGED vars => txn' = txn
  BY DEF Close, vars
<1>6. ASSUME NEW S \in SUBSET Txns, TxnsEnd(S) PROVE txn'[t] = "committed"
  BY <1>6 DEF TxnsEnd, Registry!End
<1>7. ASSUME NEW u \in Txns, TxnSettles(u) PROVE txn'[t] = "committed"
  BY <1>7 DEF TxnSettles, Registry!Settle, TypeOK
<1>8. ASSUME NEW S, Finalize(S) PROVE txn'[t] = "committed"
  BY <1>8 DEF Finalize, Registry!End
<1> QED BY <1>1, <1>2, <1>3, <1>4, <1>5, <1>6, <1>7, <1>8 DEF Next, Work

(* Entries that stay, move or go stay safe.                                *)
LEMMA SafeShuffle ==
  ASSUME SafeInv, TypeOK, [Next]_vars,
         \A k \in Keys : store'[k] \in {store[k], NoEntry},
         \A k \in Keys : consumed'[k] \in {consumed[k], store[k], NoEntry},
         \A e \in emitted' :
           e \in emitted \/ \E k \in Keys : e = Event(store[k].payload, store[k].owner)
  PROVE  SafeInv'
<1>1. \A t \in Txns : txn[t] = "committed" => txn'[t] = "committed"
  BY CommitsStay
<1>2. \A k \in Keys : /\ Safe(txn, store'[k].payload, store'[k].owner)
                      /\ Safe(txn, consumed'[k].payload, consumed'[k].owner)
  BY NoEntrySafe DEF SafeInv
<1>3. \A e \in emitted' : Safe(txn, e.payload, e.carries)
  BY DEF SafeInv, Event
<1>4. \A k \in Keys : /\ Safe(txn', store'[k].payload, store'[k].owner)
                      /\ Safe(txn', consumed'[k].payload, consumed'[k].owner)
  BY <1>1, <1>2, SafeStays
<1>5. \A e \in emitted' : Safe(txn', e.payload, e.carries)
  BY <1>1, <1>3, SafeStays
<1> QED BY <1>4, <1>5 DEF SafeInv

(* Every step keeps work safe.                                             *)
LEMMA SafeNext == BaseInv /\ SafeInv /\ [Next]_vars => SafeInv'
<1> SUFFICES ASSUME BaseInv, SafeInv, [Next]_vars PROVE SafeInv'
  OBVIOUS
<1>0. TypeOK
  BY DEF BaseInv
<1>1. ASSUME NEW f \in Frags, RunConclude(f) PROVE SafeInv'
  <2>1. /\ Conclude(f, Pending(f), OwnerOf[f]) /\ ~Settles(f)
        /\ UNCHANGED <<consumed, txn>>
    BY <1>1 DEF RunConclude
  <2>2. Pending(f) \in Entries \cup {NoEntry} /\ OwnerOf[f] \in Owners
    BY <1>0, PendingFacts
  <2>3. Safe(txn, Pending(f).payload, OwnerOf[f])
    <3>1. CASE Pending(f).by = NoFrag
      <4>1. Pending(f) = NoEntry
        BY <2>2, <3>1, EntryFacts
      <4> QED BY <4>1, NoEntryFacts DEF Safe
    <3>2. CASE Pending(f).owner = OwnerOf[f]
      <4>1. Safe(txn, Pending(f).payload, Pending(f).owner)
        BY <1>0, PendingFacts, NoEntrySafe DEF SafeInv
      <4> QED BY <3>2, <4>1
    <3> QED BY <2>1, <3>1, <3>2 DEF Settles
  <2>4. SafeFrom(txn, f, OwnerOf[f])
    BY DEF SafeFrom
  <2>5. /\ \A k \in Keys : Safe(txn, store'[k].payload, store'[k].owner)
        /\ \A e \in emitted' : Safe(txn, e.payload, e.carries)
    BY <1>0, <2>1, <2>2, <2>3, <2>4, ConcludeSafe
  <2> QED BY <2>1, <2>5 DEF SafeInv
<1>2. ASSUME NEW f \in Frags, Finalized(f) PROVE SafeInv'
  <2> DEFINE k == KeyOf[f]
             owners == {consumed[k].owner, OwnerOf[f]} \ {NoTxn}
  <2>1. /\ k \in Keys /\ consumed[k] \in Entries \cup {NoEntry} /\ txn' = txn
        /\ consumed' = [consumed EXCEPT ![k] = NoEntry]
    BY <1>2, FinalizedBase DEF Finalized
  <2>2. \A j \in Keys : Safe(txn, consumed'[j].payload, consumed'[j].owner)
    BY <1>0, <2>1, NoEntrySafe DEF SafeInv, TypeOK
  <2>3. CASE UNCHANGED <<store, emitted>>
    BY <2>1, <2>2, <2>3 DEF SafeInv
  <2>4. CASE AllCommitted(owners) /\ Conclude(f, consumed[k], NoTxn)
    <3>1. /\ consumed[k].owner # NoTxn => txn[consumed[k].owner] = "committed"
          /\ OwnerOf[f] # NoTxn => txn[OwnerOf[f]] = "committed"
      BY <2>4 DEF AllCommitted
    <3>2. Safe(txn, consumed[k].payload, consumed[k].owner)
      BY <2>1 DEF SafeInv
    <3>3. Safe(txn, consumed[k].payload, NoTxn) /\ SafeFrom(txn, f, NoTxn)
      BY <3>1, <3>2 DEF Safe, SafeFrom
    <3>4. NoTxn \in Owners
      BY DEF Owners
    <3> HIDE DEF k
    <3>5. /\ \A j \in Keys : Safe(txn, store'[j].payload, store'[j].owner)
          /\ \A e \in emitted' : Safe(txn, e.payload, e.carries)
      BY <1>0, <2>1, <2>4, <3>3, <3>4, ConcludeSafe
    <3> QED BY <2>1, <2>2, <3>5 DEF SafeInv
  <2> QED BY <1>2, <2>3, <2>4 DEF Finalized
<1>3. ASSUME NEW k \in Keys, NEW f \in Frags, RunTimer(k, f) PROVE SafeInv'
  <2>1. /\ \A j \in Keys : store'[j] \in {store[j], NoEntry}
        /\ consumed' = consumed
        /\ emitted' \subseteq emitted \cup Flushed(store, {k})
    BY <1>3 DEF RunTimer, Cleared
  <2>2. \A e \in Flushed(store, {k}) : \E j \in Keys : e = Event(store[j].payload, store[j].owner)
    BY DEF Flushed
  <2> QED BY <1>0, <2>1, <2>2, SafeShuffle
<1>4. ASSUME NEW f \in Frags, RunClosed(f) \/ RunInvalid(f) \/ RunExpired(f) PROVE SafeInv'
  <2>1. /\ \A j \in Keys : store'[j] \in {store[j], NoEntry}
        /\ consumed' = consumed /\ emitted' = emitted
    BY <1>4 DEF RunClosed, RunInvalid, RunExpired, Cleared
  <2> QED BY <1>0, <2>1, SafeShuffle
<1>5. ASSUME NEW f \in Frags, RunFinalize(f) PROVE SafeInv'
  <2>1. /\ \A j \in Keys : store'[j] \in {store[j], NoEntry}
        /\ \A j \in Keys : consumed'[j] \in {consumed[j], store[j]}
        /\ emitted' = emitted
    BY <1>0, <1>5 DEF RunFinalize, Consume, Cleared, TypeOK, public
  <2> QED BY <1>0, <2>1, SafeShuffle
<1>6. CASE \/ \E f \in Frags : Input(f)
           \/ \E k \in Keys : TimerFires(k)
           \/ (\E S \in SUBSET Txns : TxnsEnd(S)) \/ \E t \in Txns : TxnSettles(t)
           \/ Close
           \/ UNCHANGED vars
  <2>1. /\ \A j \in Keys : store'[j] \in {store[j], NoEntry}
        /\ consumed' = consumed /\ emitted' = emitted
    BY <1>6 DEF Input, TimerFires, TxnsEnd, TxnSettles, Close, vars, local, public
  <2> QED BY <1>0, <2>1, SafeShuffle
<1> QED BY <1>1, <1>2, <1>3, <1>4, <1>5, <1>6 DEF Next, Work, RunInput

(* An event is built only from work that is committed, or that the event's *)
(* own reference can still commit or roll back as one (finalize() of two   *)
(* owners in handleComposite, and the flushes of its timers and limits).   *)
THEOREM SafeWorkOnly == Spec => []EmittedWorkIsSafe
<1>1. Init => SafeInv
  BY NoEntrySafe DEF Init, SafeInv
<1>2. TypeOK /\ SafeInv => EmittedWorkIsSafe
  BY DEF SafeInv, Safe, SafeFrom, EmittedWorkIsSafe
<1>3. BaseInv => TypeOK
  BY DEF BaseInv
<1> QED BY <1>1, <1>2, <1>3, InputsAreCounted, SafeNext, PTL DEF Spec

------------------------------------------------------------------------------
(* One place for each fragment.                                            *)

(* Nobody is in the empty entry.                                           *)
LEMMA NobodyHeld == ASSUME NEW f PROVE ~Holds(NoEntry.payload, f)
BY NoEntryFacts DEF Holds

(* A flush moves what entries hold to events, or drops it.                 *)
LEMMA FlushPlaced ==
  ASSUME NEW S \in [Keys -> Entries \cup {NoEntry}], NEW C, NEW A, NEW E,
         Placed(S, C, A, E), NEW gone \in SUBSET Keys
  PROVE  Placed(Cleared(S, gone), C, A, E \cup Flushed(S, gone))
<1> DEFINE R == Cleared(S, gone)
           F == Flushed(S, gone)
<1>1. /\ \A k \in Keys : R[k] = IF k \in gone THEN NoEntry ELSE S[k]
      /\ \A e \in F : \E k \in gone : e.payload = S[k].payload /\ e.carries = S[k].owner
      /\ \A e, d \in F : \A k \in gone :
           e.payload = S[k].payload /\ e.carries = S[k].owner
             /\ d.payload = S[k].payload /\ d.carries = S[k].owner => e = d
  <2>1. /\ \A k \in Keys : R[k] = IF k \in gone THEN NoEntry ELSE S[k]
        /\ \A e \in F : \E k \in gone : e = Event(S[k].payload, S[k].owner)
    BY FlushFacts
  <2> QED BY <2>1 DEF Event
<1> HIDE DEF R, F
<1>2. \A k \in Keys, f \in Frags : Holds(R[k].payload, f) => k \notin gone /\ Holds(S[k].payload, f)
  BY <1>1, NobodyHeld
<1>3. \A k \in Keys : C[k] # NoEntry => R[k] = NoEntry
  BY <1>1 DEF Placed
<1>4. ASSUME NEW k \in gone, NEW f \in Frags, Holds(S[k].payload, f)
      PROVE  /\ A[f] = "ok" /\ KeyOf[f] = k
             /\ \A j \in Keys : ~Holds(R[j].payload, f) /\ ~Holds(C[j].payload, f)
  <2>1. A[f] = "ok" /\ KeyOf[f] = k
    BY <1>4 DEF Placed
  <2>2. ASSUME NEW j \in Keys PROVE ~Holds(R[j].payload, f)
    <3>1. Holds(S[j].payload, f) => j = k
      BY <2>1 DEF Placed
    <3> QED BY <1>2, <3>1
  <2>3. ASSUME NEW j \in Keys, Holds(C[j].payload, f) PROVE FALSE
    <3>1. j = k
      BY <2>1, <2>3 DEF Placed
    <3>2. C[k] # NoEntry
      BY <2>3, <3>1, NobodyHeld
    <3>3. S[k] = NoEntry
      BY <3>2 DEF Placed
    <3> QED BY <1>4, <3>3, NobodyHeld
  <2> QED BY <2>1, <2>2, <2>3
<1>5. ASSUME NEW e \in E \cup F, NEW f \in Frags, Holds(e.payload, f)
      PROVE  /\ A[f] = "ok"
             /\ \A k \in Keys : ~Holds(R[k].payload, f) /\ ~Holds(C[k].payload, f)
  <2>1. CASE e \in E
    BY <1>2, <1>5, <2>1 DEF Placed
  <2>2. CASE e \in F
    BY <1>1, <1>4, <1>5, <2>2
  <2> QED BY <2>1, <2>2
<1>6. ASSUME NEW e \in E, NEW d \in F, NEW f \in Frags,
             Holds(e.payload, f), Holds(d.payload, f)
      PROVE  FALSE
  BY <1>1, <1>6 DEF Placed
<1>7. ASSUME NEW e \in F, NEW d \in F, NEW f \in Frags,
             Holds(e.payload, f), Holds(d.payload, f)
      PROVE  e = d
  <2>1. PICK k \in gone : e.payload = S[k].payload /\ e.carries = S[k].owner
    BY <1>1
  <2>2. PICK j \in gone : d.payload = S[j].payload /\ d.carries = S[j].owner
    BY <1>1
  <2>3. KeyOf[f] = k /\ KeyOf[f] = j
    BY <1>4, <1>7, <2>1, <2>2
  <2> QED BY <1>1, <2>1, <2>2, <2>3
<1>8. ASSUME NEW e \in E \cup F, NEW d \in E \cup F, NEW f \in Frags,
             Holds(e.payload, f), Holds(d.payload, f)
      PROVE  e = d
  <2>1. CASE e \in E /\ d \in E
    BY <1>8, <2>1 DEF Placed
  <2> QED BY <1>6, <1>7, <1>8, <2>1
<1>9. /\ \A k \in Keys, f \in Frags : Holds(R[k].payload, f) => KeyOf[f] = k /\ A[f] = "ok"
      /\ \A k \in Keys, f \in Frags : Holds(C[k].payload, f) => KeyOf[f] = k /\ A[f] = "ok"
  BY <1>2 DEF Placed
<1>10. Placed(R, C, A, E \cup F)
  BY <1>3, <1>5, <1>8, <1>9 DEF Placed
<1> QED BY <1>10 DEF R, F

(* Entries that go, or move to a job that waits, leave the rest in place.  *)
LEMMA PlacedLess ==
  ASSUME NEW S, NEW C, NEW A, NEW E, Placed(S, C, A, E), NEW R, NEW D, NEW B,
         \A f \in Frags : A[f] = "ok" => B[f] = "ok",
         \A k \in Keys : \/ R[k] \in {S[k], NoEntry} /\ D[k] \in {C[k], NoEntry}
                         \/ R[k] = NoEntry /\ D[k] = S[k]
  PROVE  Placed(R, D, B, E)
<1>1. ASSUME NEW k \in Keys, NEW f \in Frags
      PROVE  /\ Holds(R[k].payload, f) => Holds(S[k].payload, f)
             /\ Holds(D[k].payload, f) => Holds(C[k].payload, f) \/ Holds(S[k].payload, f)
  BY NobodyHeld
<1>2. \A k \in Keys : D[k] # NoEntry => R[k] = NoEntry
  BY DEF Placed
<1>3. /\ \A k \in Keys, f \in Frags : Holds(R[k].payload, f) => KeyOf[f] = k /\ B[f] = "ok"
      /\ \A k \in Keys, f \in Frags : Holds(D[k].payload, f) => KeyOf[f] = k /\ B[f] = "ok"
  BY <1>1 DEF Placed
<1>4. \A e \in E, f \in Frags : Holds(e.payload, f) =>
        /\ B[f] = "ok"
        /\ \A k \in Keys : ~Holds(R[k].payload, f) /\ ~Holds(D[k].payload, f)
  BY <1>1 DEF Placed
<1>5. \A e, d \in E, f \in Frags : Holds(e.payload, f) /\ Holds(d.payload, f) => e = d
  BY DEF Placed
<1> QED BY <1>2, <1>3, <1>4, <1>5 DEF Placed

(* A handler that concludes puts its fragment where the pending ones go.   *)
LEMMA ConcludePlaced ==
  ASSUME TypeOK, PlaceInv, NEW f \in Frags, NEW pending \in Entries \cup {NoEntry},
         NEW owner \in Owners, Conclude(f, pending, owner), answer[f] = "queued",
         NEW D, D \in [Keys -> Entries \cup {NoEntry}],
         KeyOf[f] = NoKey => pending = NoEntry,
         KeyOf[f] # NoKey =>
           /\ D[KeyOf[f]] = NoEntry
           /\ \/ store[KeyOf[f]] = pending
              \/ store[KeyOf[f]] = NoEntry /\ consumed[KeyOf[f]] = pending,
         \A k \in Keys : k # KeyOf[f] => D[k] = consumed[k]
  PROVE  Placed(store', D, answer', emitted')
<1> DEFINE W == {f} \cup Contributors(pending.payload)
<1>1. \A g \in Frags : /\ answer[g] = "ok" => g # f
                       /\ answer'[g] = answer[g] \/ g = f
  <2>1. \E a \in {"ok", "noKey"} : answer' = [answer EXCEPT ![f] = a]
    BY ConcludeTypes
  <2> QED BY <2>1 DEF TypeOK
<1>2. \A g \in W : /\ g \in Frags /\ KeyOf[g] = KeyOf[f]
                   /\ g = f \/ answer[g] = "ok"
                   /\ \A e \in emitted : ~Holds(e.payload, g)
  <2>1. ASSUME NEW g \in Contributors(pending.payload)
        PROVE  /\ g \in Frags /\ KeyOf[g] = KeyOf[f] /\ answer[g] = "ok"
               /\ \A e \in emitted : ~Holds(e.payload, g)
    <3>1. g \in Frags /\ Holds(pending.payload, g) /\ pending # NoEntry
      BY <2>1, NobodyHeld DEF Contributors, Holds
    <3>2. KeyOf[f] \in Keys
      BY <3>1, KeyOfAssumption
    <3>3. Holds(store[KeyOf[f]].payload, g) \/ Holds(consumed[KeyOf[f]].payload, g)
      BY <3>1, <3>2, KeyOfAssumption
    <3> QED BY <3>1, <3>2, <3>3 DEF PlaceInv, Placed
  <2>2. \A e \in emitted : ~Holds(e.payload, f)
    BY DEF PlaceInv, Placed
  <2> QED BY <2>1, <2>2
<1>3. \A k \in Keys, g \in Frags :
        /\ Holds(D[k].payload, g) => Holds(consumed[k].payload, g)
        /\ D[k] # NoEntry => k # KeyOf[f] /\ consumed[k] # NoEntry
  <2>1. ASSUME NEW k \in Keys PROVE D[k] = consumed[k] \/ (k = KeyOf[f] /\ D[k] = NoEntry)
    BY KeyOfAssumption
  <2>2. ASSUME NEW k \in Keys, D[k] # NoEntry PROVE k # KeyOf[f]
    BY <2>2, KeyOfAssumption
  <2> QED BY <2>1, <2>2, NobodyHeld
<1> HIDE DEF W
<1>4. CASE Refuse(f, pending)
  <2>1. KeyOf[f] = NoKey /\ store' = store /\ emitted' = emitted
    BY <1>4 DEF Refuse
  <2>2. \A k \in Keys : D[k] = consumed[k]
    BY <2>1, KeyOfAssumption
  <2>3. \A g \in Frags : answer[g] = "ok" => answer'[g] = "ok"
    BY <1>1
  <2>4. Placed(store, D, answer', emitted)
    BY <2>2, <2>3, PlacedLess DEF PlaceInv
  <2> QED BY <2>1, <2>4
<1>5. ASSUME answer' = [answer EXCEPT ![f] = "ok"]
      PROVE  \A g \in Frags : answer[g] = "ok" \/ g = f => answer'[g] = "ok"
  BY <1>5 DEF TypeOK
<1>6. CASE Send(f, pending, owner)
  <2> DEFINE e == Event(Whole(f, pending), owner)
  <2>1. /\ answer' = [answer EXCEPT ![f] = "ok"]
        /\ emitted' = emitted \cup {e}
        /\ \A k \in Keys : store'[k] = IF k = KeyOf[f] THEN NoEntry ELSE store[k]
    BY <1>6 DEF Send, Answer, Cleared
  <2>2. \A g \in Frags : Holds(e.payload, g) => g \in W
    BY WholeFacts DEF Event, Holds, W
  <2> HIDE DEF e
  <2>3. Placed(store', D, answer', emitted)
    <3>1. \A k \in Keys : store'[k] \in {store[k], NoEntry} /\ D[k] \in {consumed[k], NoEntry}
      BY <2>1, KeyOfAssumption
    <3>2. Placed(store, consumed, answer, emitted)
      BY DEF PlaceInv
    <3>3. \A g \in Frags : answer[g] = "ok" => answer'[g] = "ok"
      BY <1>5, <2>1
    <3> QED BY <3>1, <3>2, <3>3, PlacedLess
  <2>4. ASSUME NEW g \in Frags, Holds(e.payload, g)
        PROVE  /\ answer'[g] = "ok"
               /\ \A d \in emitted : ~Holds(d.payload, g)
               /\ \A k \in Keys : ~Holds(store'[k].payload, g) /\ ~Holds(D[k].payload, g)
    <3>1. answer'[g] = "ok" /\ KeyOf[g] = KeyOf[f] /\ \A d \in emitted : ~Holds(d.payload, g)
      BY <1>2, <1>5, <2>1, <2>2, <2>4
    <3>2. ASSUME NEW k \in Keys PROVE ~Holds(store'[k].payload, g) /\ ~Holds(D[k].payload, g)
      <4>1. Holds(store'[k].payload, g) \/ Holds(D[k].payload, g) => k = KeyOf[f]
        BY <2>3, <3>1 DEF Placed
      <4>2. k = KeyOf[f] => store'[k] = NoEntry /\ D[k] = NoEntry
        BY <2>1, KeyOfAssumption
      <4> QED BY <4>1, <4>2, NobodyHeld
    <3> QED BY <3>1, <3>2
  <2>5. \A d \in emitted \cup {e}, g \in Frags : Holds(d.payload, g) =>
          /\ answer'[g] = "ok"
          /\ \A k \in Keys : ~Holds(store'[k].payload, g) /\ ~Holds(D[k].payload, g)
    BY <2>3, <2>4 DEF Placed
  <2>6. \A d, c \in emitted \cup {e}, g \in Frags :
          Holds(d.payload, g) /\ Holds(c.payload, g) => d = c
    BY <2>3, <2>4 DEF Placed
  <2> QED BY <2>1, <2>3, <2>5, <2>6 DEF Placed
<1>7. CASE Keep(f, pending, owner)
  <2> DEFINE S == With(f, pending, owner)
             k == KeyOf[f]
  <2>1. k \in Keys /\ answer' = [answer EXCEPT ![f] = "ok"]
    BY <1>7, KeepFacts
  <2>2. PICK left \in SUBSET Stored(S) :
          /\ store' = Cleared(S, Gone(S, left))
          /\ emitted' = emitted \cup Flushed(S, Gone(S, left))
    BY <1>7, KeepFacts
  <2>3. /\ S \in [Keys -> Entries \cup {NoEntry}]
        /\ S[k] = EntryFor(f, pending, owner)
        /\ \A j \in Keys : j # k => S[j] = store[j]
    BY <2>1, WithFacts
  <2>4. \A g \in Frags : Holds(S[k].payload, g) => g \in W
    BY <2>3, EntryForFacts DEF Holds, W
  <2>5. D[k] = NoEntry
    BY <2>1, KeyOfAssumption
  <2> HIDE DEF S
  <2>6. ASSUME NEW g \in Frags, NEW j \in Keys, Holds(S[j].payload, g)
        PROVE  /\ KeyOf[g] = j /\ answer'[g] = "ok"
               /\ \A e \in emitted : ~Holds(e.payload, g)
    <3>1. CASE j = k
      BY <1>2, <1>5, <2>1, <2>4, <2>6, <3>1
    <3>2. CASE j # k
      <4>1. Holds(store[j].payload, g)
        BY <2>3, <2>6, <3>2
      <4> QED BY <1>5, <2>1, <4>1 DEF PlaceInv, Placed
    <3> QED BY <3>1, <3>2
  <2>7. ASSUME NEW g \in Frags, NEW j \in Keys, Holds(D[j].payload, g)
        PROVE  /\ KeyOf[g] = j /\ answer'[g] = "ok"
               /\ \A e \in emitted : ~Holds(e.payload, g)
    <3>1. Holds(consumed[j].payload, g)
      BY <1>3, <2>7
    <3> QED BY <1>5, <2>1, <3>1 DEF PlaceInv, Placed
  <2>8. \A j \in Keys : D[j] # NoEntry => S[j] = NoEntry
    BY <1>3, <2>3 DEF PlaceInv, Placed
  <2>9. \A e \in emitted, g \in Frags : Holds(e.payload, g) =>
          /\ answer'[g] = "ok"
          /\ \A j \in Keys : ~Holds(S[j].payload, g) /\ ~Holds(D[j].payload, g)
    <3>1. \A e \in emitted, g \in Frags : Holds(e.payload, g) => answer'[g] = "ok"
      BY <1>5, <2>1 DEF PlaceInv, Placed
    <3> QED BY <2>6, <2>7, <3>1
  <2>10. \A e, d \in emitted, g \in Frags : Holds(e.payload, g) /\ Holds(d.payload, g) => e = d
    BY DEF PlaceInv, Placed
  <2>11. Placed(S, D, answer', emitted)
    BY <2>6, <2>7, <2>8, <2>9, <2>10 DEF Placed
  <2>12. Gone(S, left) \in SUBSET Keys
    BY <2>2, GoneFacts
  <2> QED BY <2>2, <2>3, <2>11, <2>12, FlushPlaced
<1> QED BY <1>4, <1>6, <1>7 DEF Conclude

(* Every step keeps fragments in one place.                                *)
LEMMA PlaceNext == BaseInv /\ PlaceInv /\ [Next]_vars => PlaceInv'
<1> SUFFICES ASSUME BaseInv, PlaceInv, [Next]_vars PROVE PlaceInv'
  OBVIOUS
<1>0. /\ TypeOK /\ Placed(store, consumed, answer, emitted)
      /\ store \in [Keys -> Entries \cup {NoEntry}]
      /\ consumed \in [Keys -> Entries \cup {NoEntry}]
  BY DEF BaseInv, TypeOK, PlaceInv
<1>1. ASSUME NEW f \in Frags, RunConclude(f) PROVE PlaceInv'
  <2>1. /\ Conclude(f, Pending(f), OwnerOf[f])
        /\ consumed' = consumed
        /\ Slot(f) \in Keys => consumed[Slot(f)] = NoEntry
    BY <1>1 DEF RunConclude, Ready
  <2>2. /\ Pending(f) \in Entries \cup {NoEntry}
        /\ KeyOf[f] = NoKey => Pending(f) = NoEntry
        /\ KeyOf[f] # NoKey => KeyOf[f] \in Keys /\ Pending(f) = store[KeyOf[f]]
        /\ OwnerOf[f] \in Owners
    BY <1>0, PendingFacts
  <2>3. answer[f] = "queued"
    BY <1>1, RunConcludeBase
  <2>4. KeyOf[f] # NoKey => consumed[KeyOf[f]] = NoEntry
    BY <2>1, SlotFacts
  <2>5. Placed(store', consumed, answer', emitted')
    BY <1>0, <2>1, <2>2, <2>3, <2>4, ConcludePlaced DEF PlaceInv
  <2> QED BY <2>1, <2>5 DEF PlaceInv
<1>2. ASSUME NEW f \in Frags, Finalized(f) PROVE PlaceInv'
  <2> DEFINE k == KeyOf[f]
             D == [consumed EXCEPT ![k] = NoEntry]
  <2>1. /\ k \in Keys /\ consumed[k] \in Entries \cup {NoEntry} /\ consumed[k] # NoEntry
        /\ consumed' = D /\ answer[f] = "queued"
    BY <1>2, FinalizedBase DEF Finalized
  <2>2. /\ D \in [Keys -> Entries \cup {NoEntry}] /\ D[k] = NoEntry
        /\ \A j \in Keys : j # k => D[j] = consumed[j]
    BY <1>0, <2>1
  <2>3. store[k] = NoEntry
    BY <1>0, <2>1 DEF Placed
  <2> HIDE DEF D
  <2>4. CASE UNCHANGED <<store, emitted>> /\ (Answer(f, "failed") \/ Answer(f, "dropped"))
    <3>1. \A g \in Frags : answer[g] = "ok" => answer'[g] = "ok"
      BY <1>0, <2>1, <2>4 DEF Answer, TypeOK
    <3>2. \A j \in Keys : store[j] \in {store[j], NoEntry} /\ D[j] \in {consumed[j], NoEntry}
      BY <2>2
    <3>3. Placed(store, D, answer', emitted)
      BY <1>0, <3>1, <3>2, PlacedLess
    <3> QED BY <2>1, <2>4, <3>3 DEF PlaceInv
  <2>5. CASE Conclude(f, consumed[k], NoTxn)
    <3>1. NoTxn \in Owners /\ KeyOf[f] # NoKey
      BY <2>1, KeyOfAssumption DEF Owners
    <3>2. Placed(store', D, answer', emitted')
      BY <1>0, <2>1, <2>2, <2>3, <2>5, <3>1, ConcludePlaced DEF PlaceInv
    <3> QED BY <2>1, <3>2 DEF PlaceInv
  <2> QED BY <1>2, <2>4, <2>5 DEF Finalized
<1>3. ASSUME NEW k \in Keys, NEW f \in Frags, RunTimer(k, f) PROVE PlaceInv'
  <2>1. consumed' = consumed /\ answer' = answer
    BY <1>3 DEF RunTimer
  <2>2. CASE UNCHANGED <<store, emitted>>
    BY <2>1, <2>2 DEF PlaceInv
  <2>3. CASE store' = Cleared(store, {k}) /\ emitted' = emitted \cup Flushed(store, {k})
    <3>1. Placed(store', consumed, answer, emitted')
      BY <1>0, <2>3, FlushPlaced
    <3> QED BY <2>1, <3>1 DEF PlaceInv
  <2> QED BY <1>3, <2>2, <2>3 DEF RunTimer
<1>4. ASSUME NEW f \in Frags, RunClosed(f) \/ RunInvalid(f) \/ RunExpired(f) PROVE PlaceInv'
  <2>1. /\ \A j \in Keys : store'[j] \in {store[j], NoEntry}
        /\ consumed' = consumed /\ emitted' = emitted
    BY <1>4 DEF RunClosed, RunInvalid, RunExpired, Cleared
  <2>2. answer[f] = "queued"
    <3>1. queues[Slot(f)] # <<>> /\ Head(queues[Slot(f)]) = [kind |-> "input", frag |-> f]
          /\ Pop(Slot(f)) /\ Slot(f) \in Slots
      BY <1>4, SlotFacts DEF RunClosed, RunInvalid, RunExpired, Ready
    <3>2. 1 \in DOMAIN queues[Slot(f)] /\ queues[Slot(f)][1] = [kind |-> "input", frag |-> f]
      BY <1>0, <3>1, PopFacts
    <3>3. queues[Slot(f)][1].kind = "input" /\ queues[Slot(f)][1].frag = f
      BY <3>2
    <3> QED BY <3>1, <3>2, <3>3 DEF BaseInv, QueueInv
  <2>3. \A g \in Frags : answer[g] = "ok" => answer'[g] = "ok"
    BY <1>0, <1>4, <2>2 DEF RunClosed, RunInvalid, RunExpired, Answer, TypeOK
  <2>4. Placed(store', consumed, answer', emitted)
    BY <1>0, <2>1, <2>3, PlacedLess
  <2> QED BY <2>1, <2>4 DEF PlaceInv
<1>5. ASSUME NEW f \in Frags, RunFinalize(f) PROVE PlaceInv'
  <2>1. /\ KeyOf[f] \in Keys /\ Consume(KeyOf[f])
        /\ answer' = answer /\ emitted' = emitted
    BY <1>5, FinalizeBase DEF RunFinalize, public
  <2>2. \A j \in Keys : \/ store'[j] \in {store[j], NoEntry} /\ consumed'[j] \in {consumed[j], NoEntry}
                        \/ store'[j] = NoEntry /\ consumed'[j] = store[j]
    BY <1>0, <2>1 DEF Consume, Cleared
  <2>3. Placed(store', consumed', answer, emitted)
    BY <1>0, <2>2, PlacedLess
  <2> QED BY <2>1, <2>3 DEF PlaceInv
<1>6. ASSUME NEW f \in Frags, Input(f) PROVE PlaceInv'
  <2>1. UNCHANGED <<store, consumed, emitted>>
    BY <1>6 DEF Input
  <2>2. \A g \in Frags : answer[g] = "ok" => answer'[g] = "ok"
    BY <1>0, <1>6 DEF Input, TypeOK
  <2>3. Placed(store, consumed, answer', emitted)
    BY <1>0, <2>2, PlacedLess
  <2> QED BY <2>1, <2>3 DEF PlaceInv
<1>7. CASE Close
  <2>1. \A j \in Keys : store'[j] = NoEntry
    BY <1>7 DEF Close
  <2>2. UNCHANGED <<consumed, answer, emitted>>
    BY <1>7 DEF Close, public
  <2>3. Placed(store', consumed, answer, emitted)
    BY <1>0, <2>1, PlacedLess
  <2> QED BY <2>2, <2>3 DEF PlaceInv
<1>8. CASE \/ \E k \in Keys : TimerFires(k)
           \/ (\E S \in SUBSET Txns : TxnsEnd(S)) \/ \E t \in Txns : TxnSettles(t)
           \/ UNCHANGED vars
  <2>1. UNCHANGED <<store, consumed, answer, emitted>>
    BY <1>8 DEF TimerFires, TxnsEnd, TxnSettles, vars, local, public
  <2> QED BY <2>1 DEF PlaceInv
<1> QED BY <1>1, <1>2, <1>3, <1>4, <1>5, <1>6, <1>7, <1>8 DEF Next, Work, RunInput

(* A set without two different elements has one at most.                   *)
LEMMA AtMostOne ==
  ASSUME NEW S, \A x, y \in S : x = y
  PROVE  /\ Cardinality(S) \in {0, 1}
         /\ Cardinality(S) = 0 <=> S = {}
<1>1. CASE S = {}
  BY <1>1, FS_EmptySet
<1>2. CASE S # {}
  <2>1. PICK x \in S : TRUE
    BY <1>2
  <2>2. S = {x}
    BY <2>1
  <2>3. Cardinality({x}) = 1
    BY FS_Singleton
  <2> QED BY <1>2, <2>2, <2>3
<1> QED BY <1>1, <1>2

(* Places that exclude each other make one place.                          *)
LEMMA PlaceInvOnePlace == PlaceInv => OnePlace
<1> SUFFICES ASSUME PlaceInv, NEW f \in Frags
             PROVE  Cardinality({<<"stored", k>> : k \in {j \in Keys : Holds(store[j].payload, f)}})
                      + Cardinality({k \in Keys : Holds(consumed[k].payload, f)})
                      + Cardinality({e \in emitted : Holds(e.payload, f)}) <= 1
  BY DEF OnePlace
<1> DEFINE A == {<<"stored", k>> : k \in {j \in Keys : Holds(store[j].payload, f)}}
           B == {k \in Keys : Holds(consumed[k].payload, f)}
           C == {e \in emitted : Holds(e.payload, f)}
<1>1. /\ \A x, y \in A : x = y
      /\ \A x, y \in B : x = y
      /\ \A x, y \in C : x = y
  BY DEF PlaceInv, Placed
<1>2. A # {} => B = {} /\ C = {}
  <2>1. ASSUME NEW k \in Keys, Holds(store[k].payload, f), NEW j \in Keys,
               Holds(consumed[j].payload, f)
        PROVE  FALSE
    <3>1. j = k
      BY <2>1 DEF PlaceInv, Placed
    <3>2. consumed[k] # NoEntry
      BY <2>1, <3>1, NobodyHeld
    <3> QED BY <2>1, <3>2, NobodyHeld DEF PlaceInv, Placed
  <2> QED BY <2>1 DEF PlaceInv, Placed
<1>3. B # {} => C = {}
  BY DEF PlaceInv, Placed
<1> HIDE DEF A, B, C
<1>4. /\ Cardinality(A) \in {0, 1} /\ (Cardinality(A) = 0 <=> A = {})
      /\ Cardinality(B) \in {0, 1} /\ (Cardinality(B) = 0 <=> B = {})
      /\ Cardinality(C) \in {0, 1} /\ (Cardinality(C) = 0 <=> C = {})
  BY <1>1, AtMostOne
<1>5. Cardinality(A) + Cardinality(B) + Cardinality(C) <= 1
  BY <1>2, <1>3, <1>4
<1> QED BY <1>5 DEF A, B, C

(* At first nothing is in any place.                                       *)
LEMMA PlaceInit == Init => PlaceInv
BY NobodyHeld DEF Init, PlaceInv, Placed

(* What a fragment said is in one place: buffered, held by a job that      *)
(* waits for finalize(), or sent (handleComposite and its timers).         *)
THEOREM OnePlaceOnly == Spec => []OnePlace
BY InputsAreCounted, PlaceInit, PlaceNext, PlaceInvOnePlace, PTL DEF Spec

------------------------------------------------------------------------------
(* The limit on entries.                                                   *)

(* A nonempty set of keys has an oldest entry.                             *)
LEMMA OldestExists ==
  ASSUME NEW B, NEW K, K # {}, \A k \in K : B[k].born \in Nat
  PROVE  \E m \in K : \A k \in K : B[m].born <= B[k].born
<1> DEFINE T == {B[k].born : k \in K}
<1>1. T \subseteq Nat /\ T # {}
  OBVIOUS
<1>2. PICK x \in T : \A y \in T : ~(<<y, x>> \in OpToRel(<, Nat))
  BY <1>1, NatLessThanWellFounded, WFMin
<1>3. ASSUME NEW y \in T PROVE x <= y
  <2>1. x \in Nat /\ y \in Nat
    BY <1>1
  <2>2. y < x => <<y, x>> \in OpToRel(<, Nat)
    BY <2>1, Zenon DEF OpToRel
  <2>3. ~(y < x)
    BY <1>2, <2>2, Zenon
  <2> QED BY <2>1, <2>3
<1> QED BY <1>3

(* Without those that overflow, at most MaxEntries entries are left.       *)
LEMMA OverflowBound ==
  ASSUME NEW S \in [Keys -> Entries \cup {NoEntry}], NEW left \in SUBSET Keys,
         IsFiniteSet(left)
  PROVE  /\ IsFiniteSet(left \ Overflow(S, left))
         /\ Cardinality(left \ Overflow(S, left)) <= MaxEntries
<1> DEFINE R == left \ Overflow(S, left)
           Older(k) == {j \in left : S[j].born < S[k].born}
<1>1. IsFiniteSet(R) /\ Cardinality(R) \in Nat
  BY FS_Subset, FS_CardinalityType
<1>2. CASE R = {}
  BY <1>2, FS_EmptySet, MaxEntriesAssumption
<1>3. CASE R # {}
  <2>1. \A k \in Keys : S[k].born \in Nat
    <3>1. \A e \in Entries \cup {NoEntry} : e.born \in Nat
      BY DEF Entries, NoEntry
    <3> QED BY <3>1
  <2>2. \A k \in R : S[k].born \in Nat
    BY <2>1
  <2> HIDE DEF R
  <2>3. PICK m \in R : \A k \in R : S[m].born <= S[k].born
    BY <1>3, <2>2, OldestExists
  <2>4. m \in left /\ ~(Cardinality(Older(m)) + MaxEntries < Cardinality(left))
    BY <2>3 DEF R, Overflow
  <2>5. /\ IsFiniteSet(left \ Older(m))
        /\ Cardinality(left \ Older(m)) = Cardinality(left) - Cardinality(left \cap Older(m))
    BY FS_Difference
  <2>6. left \cap Older(m) = Older(m)
    OBVIOUS
  <2>7. R \subseteq left \ Older(m)
    BY <2>2, <2>3 DEF R
  <2>8. Cardinality(R) <= Cardinality(left \ Older(m))
    BY <2>5, <2>7, FS_Subset
  <2>9. /\ Cardinality(Older(m)) \in Nat /\ Cardinality(left) \in Nat
        /\ Cardinality(left \ Older(m)) \in Nat
    <3>1. IsFiniteSet(Older(m))
      BY FS_Subset
    <3> QED BY <2>5, <3>1, FS_CardinalityType
  <2> HIDE DEF Older
  <2>10. Cardinality(R) <= MaxEntries
    BY <1>1, <2>4, <2>5, <2>6, <2>8, <2>9, MaxEntriesAssumption
  <2> QED BY <1>1, <2>10 DEF R
<1> QED BY <1>2, <1>3

(* A store with fewer entries keeps the limit.                             *)
LEMMA StoreLess ==
  ASSUME StoreInv, Stored(store') \subseteq Stored(store)
  PROVE  StoreInv'
<1>1. /\ IsFiniteSet(Stored(store'))
      /\ Cardinality(Stored(store')) <= Cardinality(Stored(store))
  BY FS_Subset DEF StoreInv
<1>2. /\ Cardinality(Stored(store')) \in Nat /\ Cardinality(Stored(store)) \in Nat
      /\ MaxEntries \in Nat
  BY <1>1, FS_CardinalityType, MaxEntriesAssumption DEF StoreInv
<1> QED BY <1>1, <1>2 DEF StoreInv

(* A handler that concludes keeps the limit: a new entry may push out      *)
(* others, or itself.                                                      *)
LEMMA ConcludeStore ==
  ASSUME TypeOK, StoreInv, NEW f \in Frags, NEW pending \in Entries \cup {NoEntry},
         NEW owner \in Owners, Conclude(f, pending, owner)
  PROVE  StoreInv'
<1>1. CASE Send(f, pending, owner)
  <2>1. Stored(store') \subseteq Stored(store)
    BY <1>1, NoEntryFacts DEF Send, Cleared, Stored
  <2> QED BY <2>1, StoreLess
<1>2. CASE Refuse(f, pending)
  BY <1>2, StoreLess DEF Refuse
<1>3. CASE Keep(f, pending, owner)
  <2> DEFINE S == With(f, pending, owner)
  <2>1. KeyOf[f] \in Keys
    BY <1>3, KeepFacts
  <2>2. PICK left \in SUBSET Stored(S) : store' = Cleared(S, Gone(S, left))
    BY <1>3, KeepFacts
  <2>3. /\ S \in [Keys -> Entries \cup {NoEntry}]
        /\ \A k \in Keys : k # KeyOf[f] => S[k] = store[k]
    BY <2>1, WithFacts
  <2> HIDE DEF S
  <2>4. left \in SUBSET Keys /\ left \subseteq Stored(store) \cup {KeyOf[f]}
    BY <2>2, <2>3 DEF Stored
  <2>5. IsFiniteSet(left)
    <3>1. IsFiniteSet(Stored(store) \cup {KeyOf[f]})
      BY FS_AddElement DEF StoreInv
    <3> QED BY <2>4, <3>1, FS_Subset
  <2>6. Stored(store') = left \ Overflow(S, left)
    BY <2>2, <2>3, NoEntryFacts DEF Stored, Cleared, Gone, Overflow
  <2> QED BY <2>3, <2>4, <2>5, <2>6, OverflowBound DEF StoreInv
<1> QED BY <1>1, <1>2, <1>3 DEF Conclude

(* Every step keeps the limit.                                             *)
LEMMA StoreNext == BaseInv /\ StoreInv /\ [Next]_vars => StoreInv'
<1> SUFFICES ASSUME BaseInv, StoreInv, [Next]_vars PROVE StoreInv'
  OBVIOUS
<1>0. TypeOK
  BY DEF BaseInv
<1>1. ASSUME NEW f \in Frags, RunConclude(f) PROVE StoreInv'
  <2>1. Conclude(f, Pending(f), OwnerOf[f])
    BY <1>1 DEF RunConclude
  <2>2. Pending(f) \in Entries \cup {NoEntry} /\ OwnerOf[f] \in Owners
    BY <1>0, PendingFacts
  <2> QED BY <1>0, <2>1, <2>2, ConcludeStore
<1>2. ASSUME NEW f \in Frags, Finalized(f) PROVE StoreInv'
  <2>1. consumed[KeyOf[f]] \in Entries \cup {NoEntry} /\ NoTxn \in Owners
    BY <1>2, FinalizedBase DEF Owners
  <2>2. store' = store \/ Conclude(f, consumed[KeyOf[f]], NoTxn)
    BY <1>2 DEF Finalized
  <2>3. CASE store' = store
    BY <2>3, StoreLess
  <2> QED BY <1>0, <2>1, <2>2, <2>3, ConcludeStore
<1>3. CASE \A k \in Keys : store'[k] \in {store[k], NoEntry}
  <2>1. Stored(store') \subseteq Stored(store)
    BY <1>3, NoEntryFacts DEF Stored
  <2> QED BY <2>1, StoreLess
<1>4. ASSUME \/ \E f \in Frags : RunClosed(f) \/ RunInvalid(f) \/ RunExpired(f) \/ RunFinalize(f)
             \/ \E f \in Frags : Input(f)
             \/ \E k \in Keys : TimerFires(k) \/ \E f \in Frags : RunTimer(k, f)
             \/ (\E S \in SUBSET Txns : TxnsEnd(S)) \/ \E t \in Txns : TxnSettles(t)
             \/ Close
             \/ UNCHANGED vars
      PROVE  \A k \in Keys : store'[k] \in {store[k], NoEntry}
  BY <1>4 DEF RunClosed, RunInvalid, RunExpired, RunFinalize, Consume, Input, TimerFires,
              RunTimer, TxnsEnd, TxnSettles, Close, vars, local, Cleared
<1> QED BY <1>1, <1>2, <1>3, <1>4 DEF Next, Work, RunInput

(* At first the store is empty.                                            *)
LEMMA StoreInit == Init => StoreInv
<1> SUFFICES ASSUME Init PROVE StoreInv
  OBVIOUS
<1>1. Stored(store) = {}
  BY NoEntryFacts DEF Init, Stored
<1> QED BY <1>1, FS_EmptySet, MaxEntriesAssumption DEF StoreInv

(* The store and the admitted inputs stay under maxCompositeEntries, and   *)
(* pendingInputs counts what it should (queueComposite,                    *)
(* enforceCompositeLimits).                                                *)
THEOREM LimitsHold == Spec => []Bounded
<1>1. BaseInv /\ StoreInv => Bounded
  BY DEF BaseInv, CountInv, StoreInv, Bounded, Queued
<1> QED BY <1>1, InputsAreCounted, StoreInit, StoreNext, PTL DEF Spec

------------------------------------------------------------------------------
(* References.                                                             *)

Reached(o) == \/ \E k \in Keys : store[k].owner = o
              \/ \E e \in emitted : e.carries = o

(* A flush passes an active reference on.                                  *)
LEMMA FlushReaches ==
  ASSUME NEW S \in [Keys -> Entries \cup {NoEntry}], NEW gone \in SUBSET Keys,
         NEW o \in Txns, txn[o] = "active", NEW k \in Keys, S[k].owner = o
  PROVE  \/ Cleared(S, gone)[k].owner = o
         \/ \E e \in Flushed(S, gone) : e.carries = o
<1>1. Valid(o)
  BY DEF Valid
<1>2. CASE k \in gone
  <2>1. Event(S[k].payload, S[k].owner) \in Flushed(S, gone)
    BY <1>1, <1>2 DEF Flushed
  <2> QED BY <2>1 DEF Event
<1>3. CASE k \notin gone
  BY <1>3 DEF Cleared
<1> QED BY <1>2, <1>3

(* A handler that concludes hands on its reference and loses none.         *)
LEMMA ConcludeReaches ==
  ASSUME TypeOK, NEW f \in Frags, NEW pending \in Entries \cup {NoEntry},
         NEW owner \in Owners, Conclude(f, pending, owner),
         NEW o \in Txns, txn[o] = "active",
         KeyOf[f] \in Keys /\ store[KeyOf[f]].owner = o => owner = o,
         Reached(o) \/ (owner = o /\ answer'[f] = "ok")
  PROVE  Reached(o)'
<1>1. CASE Send(f, pending, owner)
  <2>1. /\ emitted' = emitted \cup {Event(Whole(f, pending), owner)}
        /\ \A k \in Keys : k # KeyOf[f] => store'[k] = store[k]
    BY <1>1 DEF Send, Cleared
  <2>2. Event(Whole(f, pending), owner).carries = owner
    BY DEF Event
  <2> QED BY <2>1, <2>2 DEF Reached
<1>2. CASE Refuse(f, pending)
  <2>1. answer'[f] # "ok" /\ UNCHANGED <<store, emitted>>
    BY <1>2 DEF Refuse, Answer, TypeOK
  <2> QED BY <2>1 DEF Reached
<1>3. CASE Keep(f, pending, owner)
  <2> DEFINE S == With(f, pending, owner)
  <2>1. KeyOf[f] \in Keys
    BY <1>3, KeepFacts
  <2>2. PICK left \in SUBSET Stored(S) :
          /\ store' = Cleared(S, Gone(S, left))
          /\ emitted' = emitted \cup Flushed(S, Gone(S, left))
    BY <1>3, KeepFacts
  <2>3. /\ S \in [Keys -> Entries \cup {NoEntry}]
        /\ S[KeyOf[f]].owner = owner
        /\ \A k \in Keys : k # KeyOf[f] => S[k] = store[k]
    BY <2>1, WithFacts, EntryForFacts
  <2> HIDE DEF S
  <2>4. Gone(S, left) \in SUBSET Keys
    BY <2>2, GoneFacts
  <2>5. CASE \E e \in emitted : e.carries = o
    BY <2>2, <2>5 DEF Reached
  <2>6. CASE \E k \in Keys : S[k].owner = o
    BY <2>2, <2>3, <2>4, <2>6, FlushReaches DEF Reached
  <2>7. (\E k \in Keys : store[k].owner = o) \/ owner = o => \E k \in Keys : S[k].owner = o
    BY <2>1, <2>3
  <2> QED BY <2>5, <2>6, <2>7 DEF Reached
<1> QED BY <1>1, <1>2, <1>3 DEF Conclude

(* An active transaction was active before, and an open node open.         *)
LEMMA WasActive ==
  ASSUME TypeOK, [Next]_vars, NEW o \in Txns, txn'[o] = "active"
  PROVE  txn[o] = "active"
<1>1. CASE txn' = txn
  BY <1>1
<1>2. CASE \E S : Finalize(S)
  BY <1>2 DEF Finalize, Registry!End
<1>3. CASE (\E S \in SUBSET Txns : TxnsEnd(S)) \/ \E t \in Txns : TxnSettles(t)
  BY <1>3 DEF TxnsEnd, TxnSettles, TypeOK, Outcomes, Registry!End, Registry!Settle,
              Registry!Outcomes
<1>4. ASSUME \/ \E f \in Frags : Input(f) \/ RunInput(f)
             \/ \E k \in Keys : TimerFires(k) \/ \E f \in Frags : RunTimer(k, f)
             \/ Close
             \/ UNCHANGED vars
      PROVE  txn' = txn \/ \E S : Finalize(S)
  BY <1>4 DEF RunInput, RunClosed, RunInvalid, RunExpired, RunFinalize, RunConclude, Finalized,
              Input, TimerFires, RunTimer, Close, vars
<1> QED BY <1>1, <1>2, <1>3, <1>4 DEF Next, Work

(* Every step keeps active references reachable.                           *)
LEMMA ReachNext ==
  BaseInv /\ PlaceInv /\ NoReferenceLost /\ [Next]_vars => NoReferenceLost'
<1> SUFFICES ASSUME BaseInv, PlaceInv, NoReferenceLost, [Next]_vars, NEW h \in Frags,
                    ~closed', answer'[h] = "ok", OwnerOf[h] # NoTxn,
                    txn'[OwnerOf[h]] = "active"
             PROVE  Reached(OwnerOf[h])'
  BY DEF NoReferenceLost, Reached
<1> DEFINE o == OwnerOf[h]
<1>0. /\ TypeOK /\ o \in Txns /\ o # NoTxn /\ txn[o] = "active"
      /\ ~closed
  <2>1. TypeOK /\ o \in Txns
    BY OwnerOfAssumption DEF BaseInv
  <2>2. ~closed
    BY DEF Next, Work, RunInput, RunClosed, RunInvalid, RunExpired, RunFinalize, RunConclude,
           Finalized, Input, TimerFires, RunTimer, TxnsEnd, TxnSettles, Close, vars, local
  <2> QED BY <2>1, <2>2, WasActive
<1>1. answer[h] = "ok" => Reached(o)
  BY <1>0 DEF NoReferenceLost, Reached
<1> HIDE DEF o
<1>2. ASSUME NEW f \in Frags, RunConclude(f) PROVE Reached(o)'
  <2>1. Conclude(f, Pending(f), OwnerOf[f]) /\ ~Settles(f) /\ answer[f] = "queued"
    BY <1>2, RunConcludeBase DEF RunConclude
  <2>2. /\ Pending(f) \in Entries \cup {NoEntry}
        /\ KeyOf[f] # NoKey => KeyOf[f] \in Keys /\ Pending(f) = store[KeyOf[f]]
        /\ OwnerOf[f] \in Owners
    BY <1>0, PendingFacts
  <2>3. KeyOf[f] \in Keys /\ store[KeyOf[f]].owner = o => OwnerOf[f] = o
    <3>1. SUFFICES ASSUME KeyOf[f] \in Keys, store[KeyOf[f]].owner = o PROVE OwnerOf[f] = o
      OBVIOUS
    <3>2. Pending(f).owner = o
      BY <2>2, <3>1, KeyOfAssumption
    <3>3. Pending(f).by # NoFrag
      BY <1>0, <2>2, <3>2, EntryFacts, NoEntryFacts
    <3> QED BY <2>1, <3>2, <3>3 DEF Settles
  <2>4. Reached(o) \/ (OwnerOf[f] = o /\ answer'[f] = "ok")
    <3>1. CASE h = f
      BY <3>1 DEF o
    <3>2. CASE h # f
      <4>1. \E a \in {"ok", "noKey"} : answer' = [answer EXCEPT ![f] = a]
        BY <1>0, <2>1, <2>2, ConcludeTypes
      <4>2. answer[h] = "ok"
        BY <1>0, <3>2, <4>1 DEF TypeOK
      <4> QED BY <1>1, <4>2
    <3> QED BY <3>1, <3>2
  <2> QED BY <1>0, <2>1, <2>2, <2>3, <2>4, ConcludeReaches
<1>3. ASSUME NEW f \in Frags, Finalized(f) PROVE Reached(o)'
  <2> DEFINE k == KeyOf[f]
             owners == {consumed[k].owner, OwnerOf[f]} \ {NoTxn}
  <2>1. /\ k \in Keys /\ consumed[k] \in Entries \cup {NoEntry} /\ consumed[k] # NoEntry
        /\ answer[f] = "queued"
    BY <1>3, FinalizedBase DEF Finalized
  <2>2. store[k] = NoEntry
    BY <2>1 DEF PlaceInv, Placed
  <2>3. OwnerOf[f] = NoTxn \/ txn[OwnerOf[f]] \in Outcomes
    BY <1>3 DEF Finalized, Ended
  <2>4. h # f
    BY <1>0, <2>3 DEF Outcomes, Registry!Outcomes, o
  <2>5. CASE UNCHANGED <<store, emitted>> /\ (Answer(f, "failed") \/ Answer(f, "dropped"))
    <3>1. answer[h] = "ok"
      BY <1>0, <2>4, <2>5 DEF Answer, TypeOK
    <3> QED BY <1>1, <2>5, <3>1 DEF Reached
  <2>6. CASE Conclude(f, consumed[k], NoTxn)
    <3>1. NoTxn \in Owners
      BY DEF Owners
    <3> HIDE DEF k
    <3>2. \E a \in {"ok", "noKey"} : answer' = [answer EXCEPT ![f] = a]
      BY <1>0, <2>1, <2>6, <3>1, ConcludeTypes
    <3>3. answer[h] = "ok"
      BY <1>0, <2>4, <3>2 DEF TypeOK
    <3>4. KeyOf[f] \in Keys /\ store[KeyOf[f]].owner = o => NoTxn = o
      BY <2>2, NoEntryFacts DEF k
    <3> QED BY <1>0, <1>1, <2>1, <2>6, <3>1, <3>3, <3>4, ConcludeReaches
  <2> QED BY <1>3, <2>5, <2>6 DEF Finalized
<1>4. ASSUME NEW k \in Keys, NEW f \in Frags, RunTimer(k, f) PROVE Reached(o)'
  <2>1. Reached(o)
    BY <1>1, <1>4 DEF RunTimer
  <2>2. CASE UNCHANGED <<store, emitted>>
    BY <2>1, <2>2 DEF Reached
  <2>3. CASE store' = Cleared(store, {k}) /\ emitted' = emitted \cup Flushed(store, {k})
    <3>1. store \in [Keys -> Entries \cup {NoEntry}] /\ {k} \in SUBSET Keys
      BY <1>0 DEF TypeOK
    <3>2. ASSUME NEW j \in Keys, store[j].owner = o PROVE Reached(o)'
      <4>1. \/ Cleared(store, {k})[j].owner = o
            \/ \E e \in Flushed(store, {k}) : e.carries = o
        BY <1>0, <3>1, <3>2, FlushReaches
      <4> QED BY <2>3, <4>1 DEF Reached
    <3> QED BY <2>1, <2>3, <3>2 DEF Reached
  <2> QED BY <1>4, <2>2, <2>3 DEF RunTimer
<1>5. ASSUME NEW f \in Frags, RunInvalid(f) \/ RunClosed(f) PROVE Reached(o)'
  <2>1. UNCHANGED <<store, emitted>> /\ (Answer(f, "invalid") \/ Answer(f, "dropped"))
    BY <1>5 DEF RunInvalid, RunClosed
  <2>2. answer[h] = "ok"
    BY <1>0, <2>1 DEF Answer, TypeOK
  <2> QED BY <1>1, <2>1, <2>2 DEF Reached
<1>6. ASSUME NEW f \in Frags, RunExpired(f) PROVE Reached(o)'
  <2>1. /\ Answer(f, "invalid") /\ emitted' = emitted /\ ~Valid(Pending(f).owner)
        /\ \A j \in Keys : store'[j] = IF j = KeyOf[f] THEN NoEntry ELSE store[j]
    BY <1>6 DEF RunExpired, Cleared
  <2>2. answer[h] = "ok"
    BY <1>0, <2>1 DEF Answer, TypeOK
  <2>3. KeyOf[f] \in Keys => store[KeyOf[f]].owner # o
    <3>1. KeyOf[f] \in Keys => Pending(f) = store[KeyOf[f]]
      BY <1>0, PendingFacts, KeyOfAssumption
    <3> QED BY <1>0, <2>1, <3>1 DEF Valid
  <2> QED BY <1>1, <2>1, <2>2, <2>3 DEF Reached
<1>7. ASSUME NEW f \in Frags, RunFinalize(f) PROVE Reached(o)'
  <2>1. /\ KeyOf[f] \in Keys /\ emitted' = emitted /\ answer' = answer
        /\ \A j \in Keys : store'[j] = IF j = KeyOf[f] THEN NoEntry ELSE store[j]
        /\ Finalize({Pending(f).owner, OwnerOf[f]})
    BY <1>7, FinalizeBase DEF RunFinalize, Consume, Cleared, public
  <2>2. store[KeyOf[f]].owner # o
    <3>1. Pending(f) = store[KeyOf[f]]
      BY <1>0, <2>1, PendingFacts, KeyOfAssumption
    <3>2. txn'[o] # "ending"
      BY DEF o
    <3> QED BY <1>0, <2>1, <3>1, <3>2 DEF Finalize, Registry!End
  <2> QED BY <1>1, <2>1, <2>2 DEF Reached
<1>8. ASSUME NEW f \in Frags, Input(f) PROVE Reached(o)'
  <2>1. UNCHANGED <<store, emitted>>
    BY <1>8 DEF Input
  <2>2. answer[h] = "ok"
    BY <1>0, <1>8 DEF Input, TypeOK
  <2> QED BY <1>1, <2>1, <2>2 DEF Reached
<1>9. CASE \/ \E k \in Keys : TimerFires(k)
           \/ (\E S \in SUBSET Txns : TxnsEnd(S)) \/ \E t \in Txns : TxnSettles(t)
           \/ UNCHANGED vars
  <2>1. UNCHANGED <<store, answer, emitted>>
    BY <1>9 DEF TimerFires, TxnsEnd, TxnSettles, vars, local, public
  <2>2. Reached(o)
    BY <1>1, <2>1
  <2> QED BY <2>1, <2>2 DEF Reached, o
<1>10. ~Close
  BY DEF Close
<1>11. QED
  BY <1>2, <1>3, <1>4, <1>5, <1>6, <1>7, <1>8, <1>9, <1>10 DEF Next, Work, RunInput, o

(* An active transaction that came with an accepted fragment is held by an *)
(* entry or was sent on (handleComposite, flushCompositeEntry).            *)
THEOREM ReferencesAreKept == Spec => []NoReferenceLost
<1>1. Init => NoReferenceLost
  BY DEF Init, NoReferenceLost
<1> QED BY <1>1, InputsAreCounted, PlaceInit, PlaceNext, ReachNext, PTL DEF Spec

(* Fragments, entries and transactions are accounted for (the composite    *)
(* store of smo-transformer).                                              *)
THEOREM AllAccountedFor == Spec => []NothingLostOrTwice
<1>1. OnePlace /\ Bounded /\ NoReferenceLost => NothingLostOrTwice
  BY DEF NothingLostOrTwice
<1> QED BY <1>1, OnePlaceOnly, LimitsHold, ReferencesAreKept, PTL

------------------------------------------------------------------------------
(* What leaves the node.                                                   *)

Fresh(e) == ~closed /\ (e.carries # NoTxn => txn[e.carries] = "active")

(* A flush sends no stale reference.                                       *)
LEMMA FlushFresh ==
  ASSUME NEW S, NEW gone, ~closed, NEW e \in Flushed(S, gone)
  PROVE  Fresh(e)
BY DEF Flushed, Event, Valid, Fresh

(* Neither does a handler that concludes with a valid one.                 *)
LEMMA ConcludeFresh ==
  ASSUME NEW f \in Frags, NEW pending, NEW owner, Conclude(f, pending, owner),
         ~closed, Valid(owner), NEW e \in emitted', e \notin emitted
  PROVE  Fresh(e)
<1>1. CASE Send(f, pending, owner)
  BY <1>1 DEF Send, Event, Valid, Fresh
<1>2. CASE Refuse(f, pending)
  BY <1>2 DEF Refuse
<1>3. CASE Keep(f, pending, owner)
  <2>1. PICK left \in SUBSET Stored(With(f, pending, owner)) :
          emitted' = emitted \cup Flushed(With(f, pending, owner),
                                          Gone(With(f, pending, owner), left))
    BY <1>3, KeepFacts
  <2> QED BY <2>1, FlushFresh
<1> QED BY <1>1, <1>2, <1>3 DEF Conclude

(* No event leaves with a reference whose transaction has begun to end, or *)
(* after close, a merge whose commit was under way included                *)
(* (flushCompositeEntry, and handleComposite behind its await).            *)
THEOREM OnlyFreshLeave == Spec => NothingStale
<1>1. [Next]_vars => [\A e \in emitted' \ emitted :
                        ~closed /\ (e.carries # NoTxn => txn[e.carries] = "active")]_vars
  <2> SUFFICES ASSUME [Next]_vars, NEW e \in emitted', e \notin emitted PROVE Fresh(e)
    BY DEF Fresh
  <2>1. ASSUME NEW f \in Frags, RunConclude(f) PROVE Fresh(e)
    <3>1. Conclude(f, Pending(f), OwnerOf[f]) /\ ~closed /\ Valid(OwnerOf[f])
      BY <2>1 DEF RunConclude
    <3> QED BY <3>1, ConcludeFresh
  <2>2. ASSUME NEW f \in Frags, Finalized(f) PROVE Fresh(e)
    <3>1. Conclude(f, consumed[KeyOf[f]], NoTxn) /\ ~closed
      BY <2>2 DEF Finalized, Discards
    <3>2. Valid(NoTxn)
      BY DEF Valid
    <3> QED BY <3>1, <3>2, ConcludeFresh
  <2>3. ASSUME NEW k \in Keys, NEW f \in Frags, RunTimer(k, f) PROVE Fresh(e)
    BY <2>3, FlushFresh DEF RunTimer
  <2>4. ASSUME \/ \E f \in Frags : RunClosed(f) \/ RunInvalid(f) \/ RunExpired(f) \/ RunFinalize(f)
               \/ \E f \in Frags : Input(f)
               \/ \E k \in Keys : TimerFires(k)
               \/ (\E S \in SUBSET Txns : TxnsEnd(S)) \/ \E t \in Txns : TxnSettles(t)
               \/ Close
               \/ UNCHANGED vars
        PROVE  emitted' = emitted
    BY <2>4 DEF RunClosed, RunInvalid, RunExpired, RunFinalize, Input, TimerFires, TxnsEnd,
                TxnSettles, Close, vars, public
  <2> QED BY <2>1, <2>2, <2>3, <2>4 DEF Next, Work, RunInput
<1> QED BY <1>1, PTL DEF Spec, NothingStale
==============================================================================
