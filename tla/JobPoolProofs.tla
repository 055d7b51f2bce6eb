---------------------------- MODULE JobPoolProofs -----------------------------
(***************************************************************************)
(* Proofs about JobPool for any inputs, any limits and both libraries.     *)
(***************************************************************************)
EXTENDS JobPool, FiniteSetTheorems, SequenceTheorems, TLAPS

Busy == {"starting", "preparing", "calling", "resolved", "rejected", "cancelled", "leaving"}

(* A slot is in use exactly while the work of its job goes on.             *)
SlotInv ==
  /\ IsFiniteSet(active)
  /\ Cardinality(active) <= MaxConcurrent
  /\ \A j \in Jobs : j \in active <=> phase[j] \in Busy

NoRepeat(q) == \A i, k \in DOMAIN q : q[i] = q[k] => i = k

(* The queue holds the waiting jobs, each once, and only while it has to.  *)
QueueInv ==
  /\ Len(queue) <= MaxQueue
  /\ \A i \in DOMAIN queue : phase[queue[i]] = "waiting"
  /\ NoRepeat(queue)
  /\ \A j \in Jobs : phase[j] = "waiting" => j \in Elements(queue)
  /\ closed => queue = <<>>
  /\ NoIdleSlot

(* A closed node has answered everyone, and clients belong to slots.       *)
SettledInv ==
  /\ CloseLeavesNothing
  /\ ClientsAreOwned
  /\ \A j \in Jobs : client[j] = "live" => Owned

(* Nobody is answered before it is received.                               *)
FreshInv == \A j \in Jobs : phase[j] = "new" => answer[j] = "none"

PoolInv == TypeOK /\ SlotInv /\ QueueInv /\ SettledInv /\ FreshInv

------------------------------------------------------------------------------
(* Sequences of jobs.                                                      *)

(* Without its element i a sequence is one shorter and keeps the others.   *)
LEMMA SplicedFacts ==
  ASSUME NEW q \in Seq(Jobs), NEW i \in DOMAIN q,
         NEW r, r = SubSeq(q, 1, i - 1) \o SubSeq(q, i + 1, Len(q))
  PROVE  /\ r \in Seq(Jobs)
         /\ Len(r) = Len(q) - 1
         /\ \A k \in DOMAIN r : r[k] = IF k < i THEN q[k] ELSE q[k + 1]
<1> DEFINE a == SubSeq(q, 1, i - 1)
           b == SubSeq(q, i + 1, Len(q))
<1>1. Len(q) \in Nat /\ i \in 1 .. Len(q) /\ DOMAIN q = 1 .. Len(q)
  BY LenProperties
<1>2. \A k \in 1 .. Len(q) : q[k] \in Jobs
  BY LenProperties
<1>3. /\ a \in Seq(Jobs) /\ Len(a) = i - 1
      /\ \A k \in 1 .. i - 1 : a[k] = q[k]
  <2>1. \A k \in 1 .. i - 1 : q[k] \in Jobs
    BY <1>1, <1>2
  <2>2. 1 \in Int /\ i - 1 \in Int
    BY <1>1
  <2>3. /\ a \in Seq(Jobs)
        /\ Len(a) = (IF 1 <= i - 1 THEN (i - 1) - 1 + 1 ELSE 0)
        /\ \A k \in 1 .. (i - 1) - 1 + 1 : a[k] = q[1 + k - 1]
    BY <2>1, <2>2, SubSeqProperties
  <2> QED BY <2>3, <1>1
<1>4. /\ b \in Seq(Jobs) /\ Len(b) = Len(q) - i
      /\ \A k \in 1 .. Len(q) - i : b[k] = q[i + k]
  <2>1. \A k \in i + 1 .. Len(q) : q[k] \in Jobs
    BY <1>1, <1>2
  <2>2. i + 1 \in Int /\ Len(q) \in Int
    BY <1>1
  <2>3. /\ b \in Seq(Jobs)
        /\ Len(b) = (IF i + 1 <= Len(q) THEN Len(q) - (i + 1) + 1 ELSE 0)
        /\ \A k \in 1 .. Len(q) - (i + 1) + 1 : b[k] = q[(i + 1) + k - 1]
    BY <2>1, <2>2, SubSeqProperties
  <2> QED BY <2>3, <1>1
<1>5. /\ r \in Seq(Jobs) /\ Len(r) = Len(a) + Len(b)
      /\ \A k \in 1 .. Len(a) + Len(b) :
           r[k] = IF k <= Len(a) THEN a[k] ELSE b[k - Len(a)]
  BY <1>3, <1>4, ConcatProperties
<1> HIDE DEF a, b
<1>6. Len(r) = Len(q) - 1 /\ DOMAIN r = 1 .. Len(q) - 1
  BY <1>1, <1>3, <1>4, <1>5, LenProperties
<1>7. ASSUME NEW k \in 1 .. Len(q) - 1
      PROVE  r[k] = IF k < i THEN q[k] ELSE q[k + 1]
  <2>1. CASE k < i
    BY <2>1, <1>1, <1>3, <1>4, <1>5
  <2>2. CASE ~(k < i)
    <3>1. i \in Int /\ k \in Int /\ Len(q) \in Int /\ i <= k /\ k <= Len(q) - 1
      BY <2>2, <1>1
    <3> DEFINE h == (k - i) + 1
    <3>2. h \in 1 .. Len(q) - i /\ i + h = k + 1 /\ h = k - Len(a)
      <4>1. h \in Int /\ 1 <= h /\ h <= Len(q) - i /\ i + h = k + 1
        BY <3>1
      <4>2. h = k - Len(a)
        BY <3>1, <1>3
      <4> QED BY <4>1, <4>2, <3>1
    <3>3. k \in 1 .. Len(a) + Len(b) /\ ~(k <= Len(a))
      BY <3>1, <1>1, <1>3, <1>4
    <3>4. r[k] = b[h]
      BY <3>2, <3>3, <1>5
    <3> HIDE DEF h
    <3>5. b[h] = q[i + h]
      BY <3>2, <1>4
    <3> QED BY <3>2, <3>4, <3>5, <2>2
  <2> QED BY <2>1, <2>2
<1> QED BY <1>5, <1>6, <1>7

(* The tail of a sequence from n + 1 on.                                   *)
LEMMA TailFacts ==
  ASSUME NEW q \in Seq(Jobs), NEW n \in 0 .. Len(q),
         NEW r, r = SubSeq(q, n + 1, Len(q))
  PROVE  /\ r \in Seq(Jobs)
         /\ Len(r) = Len(q) - n
         /\ \A k \in DOMAIN r : n + k \in DOMAIN q /\ r[k] = q[n + k]
<1>1. Len(q) \in Nat /\ DOMAIN q = 1 .. Len(q) /\ \A k \in 1 .. Len(q) : q[k] \in Jobs
  BY LenProperties
<1>2. \A k \in n + 1 .. Len(q) : q[k] \in Jobs
  BY <1>1
<1>3. n + 1 \in Int /\ Len(q) \in Int
  BY <1>1
<1>4. /\ r \in Seq(Jobs)
      /\ Len(r) = (IF n + 1 <= Len(q) THEN Len(q) - (n + 1) + 1 ELSE 0)
      /\ \A k \in 1 .. Len(q) - (n + 1) + 1 : r[k] = q[(n + 1) + k - 1]
  BY <1>2, <1>3, SubSeqProperties
<1>5. Len(r) = Len(q) - n
  <2>1. n \in Int /\ Len(q) \in Int /\ 0 <= n /\ n <= Len(q)
    BY <1>1
  <2> QED BY <2>1, <1>4
<1>6. DOMAIN r = 1 .. Len(q) - n
  BY <1>4, <1>5, LenProperties
<1>7. ASSUME NEW k \in 1 .. Len(q) - n
      PROVE  n + k \in 1 .. Len(q) /\ r[k] = q[n + k]
  <2>1. n \in Int /\ k \in Int /\ Len(q) \in Int
        /\ 0 <= n /\ 1 <= k /\ n + k <= Len(q)
    BY <1>1
  <2>2. k \in 1 .. Len(q) - (n + 1) + 1 /\ (n + 1) + k - 1 = n + k
    BY <2>1
  <2> QED BY <2>1, <2>2, <1>4
<1> QED BY <1>1, <1>4, <1>5, <1>6, <1>7

(* The first n elements of a sequence without repetition are n.            *)
LEMMA FirstFacts ==
  ASSUME NEW q \in Seq(Jobs), NEW n \in 0 .. Len(q),
         NoRepeat(q),
         NEW F, F = {q[i] : i \in 1 .. n}
  PROVE  F \subseteq Jobs /\ IsFiniteSet(F) /\ Cardinality(F) = n
<1>1. Len(q) \in Nat /\ DOMAIN q = 1 .. Len(q) /\ \A k \in 1 .. Len(q) : q[k] \in Jobs
  BY LenProperties
<1>2. IsFiniteSet(1 .. n) /\ Cardinality(1 .. n) = n
  <2>1. 1 \in Int /\ n \in Int
    BY <1>1
  <2>2. IsFiniteSet(1 .. n) /\ Cardinality(1 .. n) = (IF 1 > n THEN 0 ELSE n - 1 + 1)
    BY <2>1, FS_Interval
  <2> QED BY <2>2, <1>1
<1> DEFINE f == [i \in 1 .. n |-> q[i]]
<1>3. f \in Bijection(1 .. n, F)
  BY <1>1 DEF Bijection, Injection, Surjection, IsInjective, NoRepeat
<1>4. ExistsBijection(1 .. n, F)
  BY <1>3 DEF ExistsBijection
<1> QED BY <1>1, <1>2, <1>4, FS_Bijection

------------------------------------------------------------------------------
(* What drain(), splice() and the settling operators return.               *)

(* drain() starts as many waiting jobs as fit, and leaves a slot idle only *)
(* when nothing waits.                                                     *)
LEMMA RoomFacts ==
  ASSUME TypeOK, NEW used, Cardinality(used) \in Nat
  PROVE  /\ Room(used) \in 0 .. Len(queue)
         /\ closed => Room(used) = 0
         /\ Cardinality(used) <= MaxConcurrent => Cardinality(used) + Room(used) <= MaxConcurrent
         /\ ~closed /\ Room(used) < Len(queue) => Cardinality(used) + Room(used) >= MaxConcurrent
<1>1. Len(queue) \in Nat
  BY LenProperties DEF TypeOK
<1>2. MaxConcurrent \in Nat
  BY LimitAssumption
<1> QED BY <1>1, <1>2 DEF Room

(* splice() takes one job out and nothing else.                            *)
LEMMA SplicedIs ==
  ASSUME TypeOK, NoRepeat(queue), NEW j \in Jobs
  PROVE  /\ Spliced(j) \in Seq(Jobs)
         /\ Len(Spliced(j)) <= Len(queue)
         /\ NoRepeat(Spliced(j))
         /\ Elements(Spliced(j)) = Elements(queue) \ {j}
<1> DEFINE r == Spliced(j)
<1>1. Len(queue) \in Nat /\ DOMAIN queue = 1 .. Len(queue)
  BY LenProperties DEF TypeOK
<1>2. CASE j \notin Elements(queue)
  <2>1. r = queue
    BY <1>2 DEF Spliced
  <2> QED BY <1>1, <1>2, <2>1 DEF TypeOK
<1>3. CASE j \in Elements(queue)
  <2>1. PICK i \in DOMAIN queue : /\ queue[i] = j
                                /\ r = SubSeq(queue, 1, i - 1) \o SubSeq(queue, i + 1, Len(queue))
    <3> DEFINE i == CHOOSE i \in DOMAIN queue : queue[i] = j
    <3>1. i \in DOMAIN queue /\ queue[i] = j
      BY <1>3 DEF Elements
    <3>2. r = SubSeq(queue, 1, i - 1) \o SubSeq(queue, i + 1, Len(queue))
      BY <1>3 DEF Spliced
    <3> QED BY <3>1, <3>2
  <2> HIDE DEF r
  <2>2. /\ r \in Seq(Jobs)
        /\ Len(r) = Len(queue) - 1
        /\ \A k \in DOMAIN r : r[k] = IF k < i THEN queue[k] ELSE queue[k + 1]
    BY <2>1, SplicedFacts DEF TypeOK
  <2>3. DOMAIN r = 1 .. Len(queue) - 1
    BY <2>2, LenProperties
  <2>4. i \in Int /\ 1 <= i /\ i <= Len(queue)
    BY <1>1
  <2>5. NoRepeat(r)
    <3> SUFFICES ASSUME NEW k \in DOMAIN r, NEW l \in DOMAIN r, r[k] = r[l]
                 PROVE  k = l
      BY DEF NoRepeat
    <3> DEFINE kk == IF k < i THEN k ELSE k + 1
               ll == IF l < i THEN l ELSE l + 1
    <3>1. kk \in DOMAIN queue /\ ll \in DOMAIN queue
      BY <1>1, <2>3, <2>4
    <3>2. r[k] = queue[kk] /\ r[l] = queue[ll]
      BY <2>2
    <3>3. kk = ll
      <4> HIDE DEF kk, ll
      <4> QED BY <3>1, <3>2 DEF NoRepeat
    <3> QED BY <3>3, <2>3, <2>4
  <2>6. Elements(r) \subseteq Elements(queue) \ {j}
    <3> SUFFICES ASSUME NEW k \in DOMAIN r PROVE r[k] \in Elements(queue) /\ r[k] # j
      BY DEF Elements
    <3> DEFINE kk == IF k < i THEN k ELSE k + 1
    <3>1. kk \in DOMAIN queue /\ kk # i
      BY <1>1, <2>3, <2>4
    <3>2. r[k] = queue[kk]
      BY <2>2
    <3> HIDE DEF kk
    <3> QED BY <3>1, <3>2, <2>1 DEF NoRepeat, Elements
  <2>7. Elements(queue) \ {j} \subseteq Elements(r)
    <3> SUFFICES ASSUME NEW k \in DOMAIN queue, queue[k] # j PROVE queue[k] \in Elements(r)
      BY DEF Elements
    <3>1. k # i
      BY <2>1
    <3>2. CASE k < i
      <4>1. k \in DOMAIN r
        BY <3>2, <1>1, <2>3, <2>4
      <4> QED BY <3>2, <4>1, <2>2 DEF Elements
    <3>3. CASE ~(k < i)
      <4>1. k - 1 \in DOMAIN r /\ ~(k - 1 < i) /\ (k - 1) + 1 = k
        BY <3>1, <3>3, <1>1, <2>3, <2>4
      <4> QED BY <4>1, <2>2 DEF Elements
    <3> QED BY <3>2, <3>3
  <2> QED BY <1>1, <2>2, <2>5, <2>6, <2>7 DEF r
<1> QED BY <1>2, <1>3

(* Settling and disposing keep the types, and finish() leaves no unowned   *)
(* client behind.                                                          *)
LEMMA SettledIs ==
  ASSUME TypeOK, NEW S, NEW a \in Answers
  PROVE  /\ Settled(S, a) \in [Jobs -> Answers]
         /\ Disposed(S) \in [Jobs -> {"none", "live", "shut"}]
         /\ \A j \in Jobs : answer[j] # "none" => Settled(S, a)[j] = answer[j]
         /\ \A j \in Jobs : a # "none" /\ j \in S => Settled(S, a)[j] # "none"
         /\ \A j \in Jobs : Settled(S, a)[j] # answer[j] => Settled(S, a)[j] = a
         /\ \A j \in Jobs : Disposed(S)[j] = "live" => client[j] = "live" /\ j \notin S
BY DEF TypeOK, Settled, Disposed, Answers

(* finish() with a code, in the same terms; only owned clients are shut.   *)
LEMMA FinishIs ==
  ASSUME TypeOK, NEW j \in Jobs, NEW a \in Answers, Finish({j}, a)
  PROVE  /\ answer' \in [Jobs -> Answers]
         /\ client' \in [Jobs -> {"none", "live", "shut"}]
         /\ \A k \in Jobs : client'[k] = "live" => client[k] = "live"
         /\ Owned /\ answer[j] = "none" => client'[j] # "live"
BY DEF TypeOK, Finish, Settled, Disposed, Answers

------------------------------------------------------------------------------
(* Every step keeps the types.                                             *)
LEMMA TypeStep ==
  ASSUME TypeOK, NoRepeat(queue), IsFiniteSet(active), [Next]_vars
  PROVE  TypeOK'
<1>1. ASSUME NEW j \in Jobs, Submit(j) PROVE TypeOK'
  <2>1. CASE \E a \in Answers : Refuse(j, a)
    BY <2>1 DEF TypeOK, Refuse, Phases, Answers
  <2>2. CASE Run(j) /\ UNCHANGED <<kind, closed, answer, late, client>>
    BY <2>2 DEF TypeOK, Run, Phases
  <2>3. CASE Wait(j) /\ UNCHANGED <<kind, closed, answer, late, client>>
    <3>1. queue' \in Seq(Jobs)
      BY <2>3, AppendProperties DEF TypeOK, Wait
    <3> QED BY <2>3, <3>1 DEF TypeOK, Wait, Phases
  <2> QED BY <1>1, <2>1, <2>2, <2>3 DEF Submit, Answers
<1>2. ASSUME NEW j \in Jobs, Begin(j) \/ Prepared(j) \/ Called(j) \/ Conclude(j)
      PROVE  TypeOK'
  <2>1. UNCHANGED <<kind, closed, active, queue, late>>
    BY <1>2 DEF Begin, Prepared, Called, Conclude
  <2>2. phase' \in [Jobs -> Phases]
    BY <1>2 DEF TypeOK, Phases, Begin, Prepared, Called, Conclude, Cancel, MoveTo
  <2>3. answer' \in [Jobs -> Answers] /\ client' \in [Jobs -> {"none", "live", "shut"}]
    <3>1. CASE \E a \in Answers : Finish({j}, a)
      BY <3>1, FinishIs
    <3>2. CASE \E a \in Answers : answer' = Settled({j}, a) /\ UNCHANGED client
      BY <3>2, SettledIs DEF TypeOK
    <3>3. CASE UNCHANGED answer /\ (UNCHANGED client \/ client' = [client EXCEPT ![j] = "live"])
      BY <3>3 DEF TypeOK
    <3> QED BY <1>2, <3>1, <3>2, <3>3
        DEF Begin, Prepared, Called, Conclude, Cancel, MoveTo, Send, CancelCode, Answers
  <2> QED BY <2>1, <2>2, <2>3 DEF TypeOK
<1>3. ASSUME NEW j \in Jobs, Release(j) PROVE TypeOK'
  <2> DEFINE used  == active \ {j}
             n     == Room(used)
             first == {queue[i] : i \in 1 .. n}
  <2>1. Cardinality(used) \in Nat
    BY FS_RemoveElement, FS_CardinalityType
  <2>2. n \in 0 .. Len(queue)
    BY <2>1, RoomFacts
  <2>3. active' = used \cup first /\ queue' = SubSeq(queue, n + 1, Len(queue))
    BY <1>3 DEF Release
  <2> HIDE DEF n
  <2>4. queue' \in Seq(Jobs)
    BY <2>2, <2>3, TailFacts DEF TypeOK
  <2>5. first \subseteq Jobs
    BY <2>2, FirstFacts DEF TypeOK
  <2>6. active' \subseteq Jobs
    BY <2>3, <2>5 DEF TypeOK
  <2>7. phase' \in [Jobs -> Phases]
    BY <1>3 DEF Release, TypeOK, Phases
  <2>8. client' \in [Jobs -> {"none", "live", "shut"}] /\ UNCHANGED <<kind, closed, answer, late>>
    BY <1>3 DEF Release, Disposed, TypeOK
  <2> QED BY <2>4, <2>6, <2>7, <2>8 DEF TypeOK
<1>4. ASSUME NEW j \in Jobs, Expire(j) PROVE TypeOK'
  BY <1>4 DEF Expire, TypeOK
<1>5. ASSUME NEW j \in Jobs, Timeout(j) PROVE TypeOK'
  <2>1. queue' \in Seq(Jobs)
    BY <1>5, SplicedIs DEF Timeout
  <2>2. phase' \in [Jobs -> Phases]
    BY <1>5 DEF Timeout, Unqueued, TypeOK, Phases
  <2>3. answer' \in [Jobs -> Answers] /\ client' \in [Jobs -> {"none", "live", "shut"}]
    BY <1>5, FinishIs DEF Timeout, Answers
  <2> QED BY <1>5, <2>1, <2>2, <2>3 DEF Timeout, TypeOK
<1>6. CASE Close
  <2>1. queue' \in Seq(Jobs)
    BY <1>6, EmptySeq DEF Close, CloseNode
  <2>2. phase' \in [Jobs -> Phases]
    BY <1>6 DEF Close, CloseNode, Unqueued, TypeOK, Phases
  <2>3. answer' \in [Jobs -> Answers] /\ client' \in [Jobs -> {"none", "live", "shut"}]
    BY <1>6, SettledIs DEF Close, CloseNode, TypeOK, Answers
  <2> QED BY <1>6, <2>1, <2>2, <2>3 DEF Close, TypeOK
<1>7. CASE UNCHANGED vars
  BY <1>7 DEF vars, TypeOK
<1> QED BY <1>1, <1>2, <1>3, <1>4, <1>5, <1>6, <1>7 DEF Next, Step

------------------------------------------------------------------------------
(* A job that leaves: its slot goes to the first waiting jobs.             *)
LEMMA ReleaseStep ==
  ASSUME TypeOK, SlotInv, QueueInv, NEW j \in Jobs, Release(j)
  PROVE  SlotInv' /\ QueueInv'
<1> DEFINE used  == active \ {j}
           n     == Room(used)
           first == {queue[i] : i \in 1 .. n}
<1>1. /\ active' = used \cup first
      /\ queue' = SubSeq(queue, n + 1, Len(queue))
      /\ phase' = [k \in Jobs |-> IF k \in first THEN "starting"
                                ELSE IF k = j THEN "over" ELSE phase[k]]
      /\ phase[j] = "leaving" /\ closed' = closed
  BY DEF Release
<1>2. j \in active
  BY <1>1 DEF SlotInv, Busy
<1>3. IsFiniteSet(used) /\ Cardinality(used) \in Nat /\ Cardinality(used) <= MaxConcurrent
  <2>1. IsFiniteSet(used) /\ Cardinality(used) = Cardinality(active) - 1
    BY <1>2, FS_RemoveElement DEF SlotInv
  <2>2. Cardinality(used) \in Nat /\ Cardinality(active) \in Nat
    BY <2>1, FS_CardinalityType DEF SlotInv
  <2> QED BY <2>1, <2>2, LimitAssumption DEF SlotInv
<1>4. /\ n \in 0 .. Len(queue)
      /\ closed => n = 0
      /\ Cardinality(used) + n <= MaxConcurrent
      /\ ~closed /\ n < Len(queue) => Cardinality(used) + n >= MaxConcurrent
  BY <1>3, RoomFacts
<1> HIDE DEF n
<1>5. Len(queue) \in Nat /\ DOMAIN queue = 1 .. Len(queue)
  BY LenProperties DEF TypeOK
<1>6. first \subseteq Jobs /\ IsFiniteSet(first) /\ Cardinality(first) = n
  BY <1>4, FirstFacts DEF TypeOK, QueueInv
<1>7. \A k \in first : phase[k] = "waiting"
  BY <1>4, <1>5 DEF QueueInv
<1>8. used \cap first = {}
  BY <1>7 DEF SlotInv, Busy, TypeOK
<1>9. IsFiniteSet(active') /\ Cardinality(active') = Cardinality(used) + n
  <2>1. IsFiniteSet(used \cup first)
        /\ Cardinality(used \cup first)
             = Cardinality(used) + Cardinality(first) - Cardinality(used \cap first)
    BY <1>3, <1>6, FS_Union
  <2>2. Cardinality(used \cap first) = 0
    BY <1>8, FS_EmptySet
  <2> QED BY <1>1, <1>3, <1>4, <1>5, <1>6, <2>1, <2>2
<1>10. /\ queue' \in Seq(Jobs)
       /\ Len(queue') = Len(queue) - n
       /\ \A k \in DOMAIN queue' : n + k \in DOMAIN queue /\ queue'[k] = queue[n + k]
  BY <1>1, <1>4, TailFacts DEF TypeOK
<1>11. DOMAIN queue' = 1 .. Len(queue) - n
  BY <1>10, LenProperties
<1>12. \A k \in DOMAIN queue' : queue'[k] \notin first
  <2> SUFFICES ASSUME NEW k \in DOMAIN queue', NEW i \in 1 .. n, queue'[k] = queue[i]
               PROVE  FALSE
    OBVIOUS
  <2>1. i \in DOMAIN queue /\ n + k \in DOMAIN queue /\ queue[n + k] = queue[i]
    BY <1>4, <1>5, <1>10
  <2>2. n + k = i
    BY <2>1 DEF QueueInv, NoRepeat
  <2> QED BY <2>2, <1>4, <1>5, <1>11
<1>13. SlotInv'
  <2>1. Cardinality(active') <= MaxConcurrent
    BY <1>4, <1>9
  <2>2. ASSUME NEW k \in Jobs PROVE k \in active' <=> phase'[k] \in Busy
    <3>1. CASE k \in first
      BY <3>1, <1>1 DEF Busy
    <3>2. CASE k \notin first /\ k = j
      BY <3>2, <1>1 DEF Busy
    <3>3. CASE k \notin first /\ k # j
      BY <3>3, <1>1 DEF SlotInv
    <3> QED BY <3>1, <3>2, <3>3
  <2> QED BY <1>9, <2>1, <2>2 DEF SlotInv
<1>14. QueueInv'
  <2>1. Len(queue') <= MaxQueue
    BY <1>4, <1>5, <1>10, LimitAssumption DEF QueueInv
  <2>2. ASSUME NEW k \in DOMAIN queue' PROVE phase'[queue'[k]] = "waiting"
    <3>1. queue'[k] = queue[n + k] /\ n + k \in DOMAIN queue
      BY <1>10
    <3>2. phase[queue'[k]] = "waiting" /\ queue'[k] \in Jobs
      BY <3>1, LenProperties DEF QueueInv, TypeOK
    <3> QED BY <3>2, <1>1, <1>12
  <2>3. NoRepeat(queue')
    <3> SUFFICES ASSUME NEW i \in DOMAIN queue', NEW k \in DOMAIN queue', queue'[i] = queue'[k]
                 PROVE  i = k
      BY DEF NoRepeat
    <3>1. n + i = n + k
      BY <1>10 DEF QueueInv, NoRepeat
    <3> QED BY <3>1, <1>4, <1>5, <1>11
  <2>4. ASSUME NEW k \in Jobs, phase'[k] = "waiting" PROVE k \in Elements(queue')
    <3>1. k \notin first /\ phase[k] = "waiting"
      BY <1>1, <2>4
    <3>2. PICK i \in DOMAIN queue : queue[i] = k
      BY <3>1 DEF QueueInv, Elements
    <3>3. ~(i <= n)
      BY <3>1, <3>2, <1>4, <1>5
    <3>4. i - n \in DOMAIN queue' /\ n + (i - n) = i
      BY <3>3, <1>4, <1>5, <1>11
    <3> QED BY <3>2, <3>4, <1>10 DEF Elements
  <2>5. closed' => queue' = <<>>
    BY <1>1, <1>4, <1>5, <1>10, EmptySeq DEF QueueInv
  <2>6. NoIdleSlot'
    <3> SUFFICES ASSUME queue' # <<>> PROVE Cardinality(active') >= MaxConcurrent
      BY DEF NoIdleSlot
    <3>1. Len(queue') \in Nat \ {0} /\ ~closed
      BY <1>1, <1>10, <2>5, EmptySeq
    <3>2. n \in Int /\ n < Len(queue)
      <4>1. n \in Int /\ Len(queue') > 0
        BY <3>1, <1>4, <1>5
      <4> QED BY <4>1, <1>5, <1>10
    <3>3. Cardinality(used) + n >= MaxConcurrent
      BY <3>1, <3>2, <1>4
    <3> QED BY <3>3, <1>9
  <2> QED BY <2>1, <2>2, <2>3, <2>4, <2>5, <2>6 DEF QueueInv
<1> QED BY <1>13, <1>14

(* A step of the work keeps the job in its slot and the queue as it is.    *)
LEMMA WorkStep ==
  ASSUME TypeOK, SlotInv, QueueInv, NEW j \in Jobs,
         Begin(j) \/ Prepared(j) \/ Called(j) \/ Conclude(j)
  PROVE  SlotInv' /\ QueueInv'
<1>1. PICK p \in Busy : phase[j] \in Busy /\ phase' = [phase EXCEPT ![j] = p]
  BY DEF Begin, Prepared, Called, Conclude, Cancel, MoveTo, Busy
<1>2. UNCHANGED <<closed, active, queue>>
  BY DEF Begin, Prepared, Called, Conclude
<1>3. \A k \in Jobs : /\ phase'[k] \in Busy <=> phase[k] \in Busy
                      /\ phase'[k] = "waiting" <=> phase[k] = "waiting"
  BY <1>1 DEF TypeOK, Busy
<1>4. SlotInv'
  BY <1>2, <1>3 DEF SlotInv
<1>5. \A i \in DOMAIN queue : queue[i] \in Jobs
  BY LenProperties DEF TypeOK
<1>6. QueueInv'
  BY <1>2, <1>3, <1>5 DEF QueueInv, NoIdleSlot, Elements, NoRepeat
<1> QED BY <1>4, <1>6

(* An input is refused, gets a slot or a place in the queue.               *)
LEMMA SubmitStep ==
  ASSUME TypeOK, SlotInv, QueueInv, NEW j \in Jobs, Submit(j)
  PROVE  SlotInv' /\ QueueInv'
<1>1. phase[j] = "new" /\ j \notin active
  BY DEF Submit, SlotInv, Busy
<1>2. Cardinality(active) \in Nat
  BY FS_CardinalityType DEF SlotInv
<1>3. /\ Len(queue) \in Nat /\ DOMAIN queue = 1 .. Len(queue)
      /\ \A i \in DOMAIN queue : queue[i] \in Jobs
  BY LenProperties DEF TypeOK
<1>4. \A i \in DOMAIN queue : queue[i] # j
  BY <1>1 DEF QueueInv
<1>5. CASE \E a \in Answers : Refuse(j, a)
  <2>1. UNCHANGED <<closed, active, queue>> /\ phase' = [phase EXCEPT ![j] = "over"]
    BY <1>5 DEF Refuse
  <2>2. \A k \in Jobs : /\ phase'[k] \in Busy <=> phase[k] \in Busy
                        /\ phase'[k] = "waiting" <=> phase[k] = "waiting"
    BY <1>1, <2>1 DEF TypeOK, Busy
  <2> QED BY <1>3, <2>1, <2>2 DEF SlotInv, QueueInv, NoIdleSlot, Elements, NoRepeat
<1>6. CASE ~closed /\ Run(j) /\ UNCHANGED closed
  <2>1. Cardinality(active) < MaxConcurrent /\ active' = active \cup {j}
        /\ phase' = [phase EXCEPT ![j] = "starting"] /\ queue' = queue
    BY <1>6 DEF Run
  <2>2. IsFiniteSet(active') /\ Cardinality(active') = Cardinality(active) + 1
    BY <1>1, <2>1, FS_AddElement DEF SlotInv
  <2>3. Cardinality(active') <= MaxConcurrent
    BY <1>2, <2>1, <2>2, LimitAssumption
  <2>4. \A k \in Jobs : k \in active' <=> phase'[k] \in Busy
    BY <2>1 DEF SlotInv, Busy, TypeOK
  <2>5. queue = <<>>
    BY <2>1, <1>2, LimitAssumption DEF QueueInv, NoIdleSlot
  <2>6. QueueInv'
    <3>1. \A k \in Jobs : phase'[k] = "waiting" => phase[k] = "waiting"
      BY <2>1 DEF TypeOK
    <3> QED BY <2>1, <2>5, <3>1, <1>3, <1>4 DEF QueueInv, NoIdleSlot, Elements, NoRepeat, TypeOK
  <2> QED BY <2>2, <2>3, <2>4, <2>6 DEF SlotInv
<1>7. CASE ~closed /\ ~Full /\ Wait(j) /\ UNCHANGED closed
  <2>1. Cardinality(active) >= MaxConcurrent /\ queue' = Append(queue, j)
        /\ phase' = [phase EXCEPT ![j] = "waiting"] /\ active' = active /\ closed' = closed
    BY <1>7 DEF Wait
  <2>2. SlotInv'
    <3>1. \A k \in Jobs : phase'[k] \in Busy <=> phase[k] \in Busy
      BY <1>1, <2>1 DEF TypeOK, Busy
    <3> QED BY <2>1, <3>1 DEF SlotInv
  <2>3. /\ queue' \in Seq(Jobs)
        /\ Len(queue') = Len(queue) + 1
        /\ \A i \in 1 .. Len(queue) : queue'[i] = queue[i]
        /\ queue'[Len(queue) + 1] = j
    BY <2>1, AppendProperties DEF TypeOK
  <2>4. DOMAIN queue' = 1 .. Len(queue) + 1
    BY <2>3, LenProperties
  <2>5. Len(queue') <= MaxQueue
    BY <1>2, <1>3, <1>7, <2>1, <2>3, LimitAssumption DEF Full
  <2>6. \A i \in DOMAIN queue' : (i \in DOMAIN queue /\ queue'[i] = queue[i])
                               \/ (i = Len(queue) + 1 /\ queue'[i] = j)
    BY <1>3, <2>3, <2>4
  <2>7. \A i \in DOMAIN queue' : phase'[queue'[i]] = "waiting"
    BY <1>3, <1>4, <2>1, <2>6 DEF QueueInv, TypeOK
  <2>8. NoRepeat(queue')
    BY <1>4, <2>6 DEF QueueInv, NoRepeat
  <2>9. ASSUME NEW k \in Jobs, phase'[k] = "waiting" PROVE k \in Elements(queue')
    <3>1. CASE k = j
      BY <3>1, <1>3, <2>3, <2>4 DEF Elements
    <3>2. CASE k # j
      <4>1. PICK i \in DOMAIN queue : queue[i] = k
        BY <3>2, <2>1, <2>9 DEF QueueInv, Elements, TypeOK
      <4> QED BY <4>1, <1>3, <2>3, <2>4 DEF Elements
    <3> QED BY <3>1, <3>2
  <2>10. QueueInv'
    BY <1>7, <2>1, <2>5, <2>7, <2>8, <2>9 DEF QueueInv, NoIdleSlot
  <2> QED BY <2>2, <2>10
<1> QED BY <1>5, <1>6, <1>7 DEF Submit, Answers

(* The deadline of a waiting job takes it out of the queue; close empties  *)
(* the queue; neither frees a slot.                                        *)
LEMMA SettleStep ==
  ASSUME TypeOK, SlotInv, QueueInv, Close \/ \E j \in Jobs : Expire(j) \/ Timeout(j)
  PROVE  SlotInv' /\ QueueInv'
<1>1. \A i \in DOMAIN queue : queue[i] \in Jobs
  BY LenProperties DEF TypeOK
<1>2. ASSUME NEW j \in Jobs, Expire(j) PROVE SlotInv' /\ QueueInv'
  BY <1>2 DEF Expire, SlotInv, QueueInv, NoIdleSlot, Elements, NoRepeat
<1>3. ASSUME NEW S, phase' = Unqueued(S), UNCHANGED active PROVE SlotInv'
  <2>1. \A k \in Jobs : phase'[k] \in Busy <=> phase[k] \in Busy
    BY <1>3 DEF Unqueued, Busy
  <2> QED BY <1>3, <2>1 DEF SlotInv
<1>4. ASSUME NEW j \in Jobs, Timeout(j) PROVE SlotInv' /\ QueueInv'
  <2>1. phase' = Unqueued({j}) /\ queue' = Spliced(j) /\ UNCHANGED <<closed, active>>
    BY <1>4 DEF Timeout
  <2>2. /\ queue' \in Seq(Jobs) /\ Len(queue') <= Len(queue) /\ NoRepeat(queue')
        /\ Elements(queue') = Elements(queue) \ {j}
    BY <2>1, SplicedIs DEF QueueInv
  <2>3. Len(queue') <= MaxQueue
    <3>1. Len(queue) \in Nat /\ Len(queue') \in Nat
      BY <2>2, LenProperties DEF TypeOK
    <3> QED BY <2>2, <3>1, LimitAssumption DEF QueueInv
  <2>4. ASSUME NEW i \in DOMAIN queue' PROVE phase'[queue'[i]] = "waiting"
    <3>1. queue'[i] \in Elements(queue) /\ queue'[i] # j
      BY <2>2 DEF Elements
    <3> QED BY <3>1, <2>1, <1>1 DEF QueueInv, Elements, Unqueued
  <2>5. \A k \in Jobs : phase'[k] = "waiting" => k \in Elements(queue')
    BY <2>1, <2>2 DEF QueueInv, Unqueued
  <2>6. queue = <<>> => queue' = <<>>
    <3> SUFFICES ASSUME queue = <<>>, queue' # <<>> PROVE FALSE
      OBVIOUS
    <3>1. Len(queue) = 0 /\ Len(queue') \in Nat \ {0}
      BY <2>2, EmptySeq
    <3> QED BY <3>1, <2>2
  <2>7. QueueInv'
    BY <2>1, <2>2, <2>3, <2>4, <2>5, <2>6 DEF QueueInv, NoIdleSlot
  <2> QED BY <1>3, <2>1, <2>7
<1>5. CASE Close
  <2>1. phase' = Unqueued(Elements(queue) \cup active) /\ queue' = <<>> /\ active' = active
    BY <1>5 DEF Close, CloseNode
  <2>2. Len(queue') = 0 /\ DOMAIN queue' = {}
    <3>1. queue' \in Seq(Jobs) /\ Len(queue') = 0
      BY <2>1, EmptySeq
    <3>2. DOMAIN queue' = 1 .. 0
      BY <3>1, LenProperties
    <3> QED BY <3>1, <3>2
  <2>3. \A k \in Jobs : phase'[k] # "waiting"
    BY <2>1 DEF QueueInv, Unqueued
  <2>4. QueueInv'
    <3>1. Len(queue') <= MaxQueue
      BY <2>2, LimitAssumption
    <3>2. NoRepeat(queue') /\ \A i \in DOMAIN queue' : phase'[queue'[i]] = "waiting"
      BY <2>2 DEF NoRepeat
    <3> QED BY <2>1, <2>3, <3>1, <3>2 DEF QueueInv, NoIdleSlot
  <2> QED BY <1>3, <2>1, <2>4
<1> QED BY <1>2, <1>4, <1>5

(* Slots and queue are in order after every step.                          *)
LEMMA PoolStep ==
  ASSUME TypeOK, SlotInv, QueueInv, [Next]_vars
  PROVE  SlotInv' /\ QueueInv'
<1>1. CASE UNCHANGED vars
  BY <1>1 DEF vars, SlotInv, QueueInv, NoIdleSlot, Elements, NoRepeat
<1>2. CASE Next
  BY <1>2, WorkStep, SubmitStep, SettleStep, ReleaseStep DEF Next, Step
<1> QED BY <1>1, <1>2

------------------------------------------------------------------------------
(* Answers and clients.                                                    *)

(* A job that leaves goes on leaving until its client is gone.             *)
LEMMA LeavesUntilDisposed ==
  ASSUME TypeOK, SlotInv, QueueInv, SettledInv, Next
  PROVE  \A k \in Jobs : phase[k] = "leaving" /\ client'[k] = "live" => phase'[k] = "leaving"
<1> SUFFICES ASSUME NEW k \in Jobs, phase[k] = "leaving", client'[k] = "live"
             PROVE  phase'[k] = "leaving"
  OBVIOUS
<1>1. ASSUME NEW j \in Jobs, Submit(j) PROVE phase'[k] = "leaving"
  BY <1>1 DEF Submit, Refuse, Run, Wait, TypeOK
<1>2. ASSUME NEW j \in Jobs, Begin(j) \/ Prepared(j) \/ Called(j) PROVE phase'[k] = "leaving"
  BY <1>2 DEF Begin, Prepared, Called, Cancel, MoveTo, TypeOK
<1>3. ASSUME NEW j \in Jobs, Conclude(j) PROVE phase'[k] = "leaving"
  BY <1>3 DEF Conclude, TypeOK
<1>4. ASSUME NEW j \in Jobs, Release(j) PROVE phase'[k] = "leaving"
  <2> DEFINE n     == Room(active \ {j})
             first == {queue[i] : i \in 1 .. n}
  <2>1. n \in 0 .. Len(queue) /\ Len(queue) \in Nat /\ DOMAIN queue = 1 .. Len(queue)
    <3>1. IsFiniteSet(active \ {j}) /\ Cardinality(active \ {j}) <= MaxConcurrent
      <4>1. j \in active
        BY <1>4 DEF Release, SlotInv, Busy
      <4>2. /\ IsFiniteSet(active \ {j})
            /\ Cardinality(active \ {j}) = Cardinality(active) - 1
        BY <4>1, FS_RemoveElement DEF SlotInv
      <4>3. Cardinality(active) \in Nat
        BY FS_CardinalityType DEF SlotInv
      <4> QED BY <4>2, <4>3, LimitAssumption DEF SlotInv
    <3>2. Cardinality(active \ {j}) \in Nat
      BY <3>1, FS_CardinalityType
    <3> QED BY <3>1, <3>2, RoomFacts, LenProperties DEF TypeOK
  <2>2. \A i \in 1 .. n : phase[queue[i]] = "waiting"
    BY <2>1 DEF QueueInv
  <2>3. client' = IF Owned THEN Disposed({j}) ELSE client
    BY <1>4 DEF Release
  <2>4. k # j
    BY <2>3 DEF Disposed, SettledInv
  <2>5. phase'[k] = IF k \in first THEN "starting" ELSE IF k = j THEN "over" ELSE phase[k]
    BY <1>4 DEF Release
  <2> HIDE DEF n
  <2> QED BY <2>2, <2>4, <2>5
<1>5. ASSUME NEW j \in Jobs, Expire(j) \/ Timeout(j) PROVE phase'[k] = "leaving"
  BY <1>5 DEF Expire, Timeout, Unqueued
<1>6. ASSUME Close PROVE phase'[k] = "leaving"
  BY <1>6 DEF Close, CloseNode, Unqueued
<1> QED BY <1>1, <1>2, <1>3, <1>4, <1>5, <1>6 DEF Next, Step

(* What a step does to the answer and the client of any job.               *)
LEMMA SettledStep ==
  ASSUME TypeOK, SlotInv, QueueInv, SettledInv, Next
  PROVE  SettledInv'
<1>1. \A k \in Jobs : phase[k] = "leaving" /\ client'[k] = "live" => phase'[k] = "leaving"
  BY LeavesUntilDisposed
<1>2. ASSUME NEW j \in Jobs, Submit(j) PROVE SettledInv'
  <2>1. CASE \E a \in Answers \ {"none"} : Refuse(j, a)
    <3>1. client[j] # "live"
      BY <1>2 DEF SettledInv, ClientsAreOwned, SlotInv, Busy, Submit
    <3> QED BY <1>1, <2>1, <3>1 DEF Refuse, SettledInv, CloseLeavesNothing, ClientsAreOwned,
                              Admitted, Owned, TypeOK
  <2>2. CASE ~closed /\ (Run(j) \/ Wait(j)) /\ UNCHANGED <<kind, closed, answer, late, client>>
    BY <1>1, <2>2 DEF Run, Wait, SettledInv, CloseLeavesNothing, ClientsAreOwned, Owned
  <2> QED BY <1>2, <2>1, <2>2 DEF Submit, Answers
<1>3. ASSUME NEW j \in Jobs, Begin(j) \/ Prepared(j) \/ Called(j) PROVE SettledInv'
  <2>1. UNCHANGED <<kind, closed, active>> /\ j \in active /\ phase[j] \in Busy
    BY <1>3 DEF Begin, Prepared, Called, SlotInv, Busy
  <2>2. \A k \in Jobs : k \in Admitted' => k \in Admitted
    BY <1>3 DEF Admitted, Begin, Prepared, Called, Cancel, MoveTo, TypeOK
  <2>3. CASE UNCHANGED <<answer, client>>
    BY <1>1, <2>1, <2>2, <2>3 DEF SettledInv, CloseLeavesNothing, ClientsAreOwned, Owned
  <2>4. CASE Owned /\ Finish({j}, "timeout")
    <3>1. \A k \in Jobs : answer'[k] # answer[k] => k = j /\ answer[k] = "none" /\ answer'[k] = "timeout"
      BY <2>4 DEF Finish, Settled, TypeOK
    <3>2. \A k \in Jobs : client'[k] = "live" => client[k] = "live"
      BY <2>4, FinishIs DEF Answers
    <3>3. answer[j] = "none" => client'[j] # "live"
      BY <2>4, FinishIs DEF Answers
    <3> QED BY <1>1, <2>1, <2>2, <3>1, <3>2, <3>3
            DEF SettledInv, CloseLeavesNothing, ClientsAreOwned, Owned
  <2>5. CASE /\ MayGoOn(j) /\ UNCHANGED answer
             /\ client' = IF Owned THEN [client EXCEPT ![j] = "live"] ELSE client
    <3>1. \A k \in Jobs : client'[k] = "live" => (k = j /\ Owned) \/ client[k] = "live"
      BY <2>5 DEF TypeOK
    <3> QED BY <1>1, <2>1, <2>5, <3>1 DEF MayGoOn, SettledInv, CloseLeavesNothing, ClientsAreOwned, Owned
  <2> QED BY <1>3, <2>3, <2>4, <2>5 DEF Begin, Prepared, Called, Cancel, MoveTo
<1>4. ASSUME NEW j \in Jobs, Conclude(j) PROVE SettledInv'
  <2>1. UNCHANGED <<kind, closed, active>> /\ j \in active
    BY <1>4 DEF Conclude, SlotInv, Busy
  <2>2. \A k \in Jobs : k \in Admitted' => k \in Admitted
    BY <1>4 DEF Admitted, Conclude, TypeOK
  <2>3. phase'[j] = "leaving"
    BY <1>4 DEF Conclude, TypeOK
  <2>4. CASE \E a \in {"sent", "failed"} : answer' = Settled({j}, a) /\ UNCHANGED client
    <3>1. \A k \in Jobs : answer'[k] # answer[k] => k = j /\ answer'[k] \in {"sent", "failed"}
      BY <2>4 DEF Settled, TypeOK
    <3> QED BY <1>1, <2>1, <2>2, <2>4, <2>3, <3>1 DEF SettledInv, CloseLeavesNothing, ClientsAreOwned, Owned
  <2>5. CASE \E a \in {"failed", "timeout", "closed"} : Finish({j}, a)
    <3>1. PICK a \in {"failed", "timeout", "closed"} : Finish({j}, a)
      BY <2>5
    <3>2. \A k \in Jobs : answer'[k] # answer[k] => k = j /\ answer[k] = "none" /\ answer'[k] # "none"
      BY <3>1 DEF Finish, Settled, TypeOK
    <3>3. \A k \in Jobs : client'[k] = "live" => client[k] = "live"
      BY <3>1, FinishIs DEF Answers
    <3>4. Owned /\ answer[j] = "none" => client'[j] # "live"
      BY <3>1, FinishIs DEF Answers
    <3> QED BY <1>1, <2>1, <2>2, <3>2, <3>3, <3>4
            DEF SettledInv, CloseLeavesNothing, ClientsAreOwned, Owned
  <2> QED BY <1>4, <2>4, <2>5 DEF Conclude, Send, CancelCode
<1>5. ASSUME NEW j \in Jobs, Release(j) PROVE SettledInv'
  <2>1. UNCHANGED <<kind, closed, answer>> /\ phase[j] = "leaving" /\ j \in Admitted
    BY <1>5 DEF Release, Admitted
  <2>2. client' = IF Owned THEN Disposed({j}) ELSE client
    BY <1>5 DEF Release
  <2>3. \A k \in Jobs : client'[k] = "live" => client[k] = "live" /\ k # j
    BY <2>2 DEF Disposed, SettledInv
  <2>4. active \ {j} \subseteq active'
    BY <1>5 DEF Release
  <2>5. \A k \in Jobs : closed /\ k \in Admitted' => k \in Admitted
    <3> SUFFICES ASSUME closed, NEW k \in Jobs, k \in Admitted' PROVE k \in Admitted
      OBVIOUS
    <3> DEFINE n == Room(active \ {j})
    <3>1. n = 0
      BY DEF Room
    <3>2. 1 .. n = {}
      BY <3>1
    <3>3. phase' = [l \in Jobs |-> IF l \in {queue[i] : i \in 1 .. n} THEN "starting"
                                  ELSE IF l = j THEN "over" ELSE phase[l]]
      BY <1>5 DEF Release
    <3> HIDE DEF n
    <3> QED BY <3>2, <3>3 DEF Admitted
  <2> QED BY <1>1, <2>1, <2>3, <2>4, <2>5 DEF SettledInv, CloseLeavesNothing, ClientsAreOwned, Owned
<1>6. ASSUME NEW j \in Jobs, Expire(j) PROVE SettledInv'
  BY <1>1, <1>6 DEF Expire, SettledInv, CloseLeavesNothing, ClientsAreOwned, Admitted, Owned
<1>7. ASSUME NEW j \in Jobs, Timeout(j) PROVE SettledInv'
  <2>1. UNCHANGED <<kind, closed, active>> /\ answer[j] = "none" /\ Finish({j}, "timeout")
    BY <1>7 DEF Timeout
  <2>2. \A k \in Jobs : k \in Admitted' => k \in Admitted
    BY <1>7 DEF Timeout, Unqueued, Admitted
  <2>3. \A k \in Jobs : answer'[k] # answer[k] => k = j /\ answer'[k] = "timeout"
    BY <2>1 DEF Finish, Settled, TypeOK
  <2>4. \A k \in Jobs : client'[k] = "live" => client[k] = "live"
    BY <2>1, FinishIs DEF Answers
  <2>5. Owned => client'[j] # "live"
    BY <2>1, FinishIs DEF Answers
  <2> QED BY <1>1, <2>1, <2>2, <2>3, <2>4, <2>5
          DEF SettledInv, CloseLeavesNothing, ClientsAreOwned, Owned
<1>8. CASE Close
  <2> DEFINE S == Elements(queue) \cup active
  <2>1. /\ answer' = Settled(S, "closed") /\ kind' = kind /\ active' = active
        /\ client' = IF Owned THEN Disposed(S) ELSE client
        /\ phase' = Unqueued(S)
    BY <1>8 DEF Close, CloseNode
  <2>2. \A k \in Jobs : k \in Admitted => k \in S
    BY DEF Admitted, SlotInv, QueueInv, Busy, TypeOK, Phases
  <2>3. \A k \in Jobs : k \in Admitted' => k \in Admitted
    BY <2>1 DEF Unqueued, Admitted
  <2>4. \A k \in Jobs : k \in S => answer'[k] # "none"
    BY <2>1 DEF Settled
  <2>5. \A k \in Jobs : client'[k] # "live"
    BY <2>1 DEF Disposed, SettledInv, ClientsAreOwned, TypeOK
  <2> HIDE DEF S
  <2> QED BY <2>2, <2>3, <2>4, <2>5 DEF SettledInv, CloseLeavesNothing, ClientsAreOwned
<1> QED BY <1>2, <1>3, <1>4, <1>5, <1>6, <1>7, <1>8 DEF Next, Step

(* Only inputs that were received are answered.                            *)
LEMMA FreshStep ==
  ASSUME TypeOK, SlotInv, QueueInv, FreshInv, Next
  PROVE  FreshInv'
<1>1. ASSUME NEW j \in Jobs, Submit(j) PROVE FreshInv'
  BY <1>1 DEF Submit, Refuse, Run, Wait, FreshInv, TypeOK
<1>2. ASSUME NEW j \in Jobs, Begin(j) \/ Prepared(j) \/ Called(j) \/ Conclude(j)
      PROVE  FreshInv'
  <2>1. phase[j] # "new" /\ \E p \in Busy : phase' = [phase EXCEPT ![j] = p]
    BY <1>2 DEF Begin, Prepared, Called, Conclude, Cancel, MoveTo, Busy
  <2>2. \A k \in Jobs : k # j => answer'[k] = answer[k]
    BY <1>2 DEF Begin, Prepared, Called, Conclude, Cancel, MoveTo, Send, Finish, Settled, TypeOK
  <2> QED BY <2>1, <2>2 DEF FreshInv, TypeOK, Busy
<1>3. ASSUME NEW j \in Jobs, Release(j) PROVE FreshInv'
  BY <1>3 DEF Release, FreshInv
<1>4. ASSUME NEW j \in Jobs, Expire(j) PROVE FreshInv'
  BY <1>4 DEF Expire, FreshInv
<1>5. ASSUME NEW j \in Jobs, Timeout(j) PROVE FreshInv'
  BY <1>5 DEF Timeout, Unqueued, Finish, Settled, Admitted, FreshInv
<1>6. CASE Close
  <2> DEFINE S == Elements(queue) \cup active
  <2>1. answer' = Settled(S, "closed") /\ phase' = Unqueued(S)
    BY <1>6 DEF Close, CloseNode
  <2>2. \A k \in Jobs : k \in S => phase[k] # "new"
    BY DEF SlotInv, QueueInv, Busy, Elements
  <2> HIDE DEF S
  <2> QED BY <2>1, <2>2 DEF Unqueued, Settled, FreshInv
<1> QED BY <1>1, <1>2, <1>3, <1>4, <1>5, <1>6 DEF Next, Step

------------------------------------------------------------------------------
(* The invariant, and what follows from it.                                *)

(* The inductive invariant of the pool: slots, queue, answers and clients. *)
THEOREM PoolInvariant == Spec => []PoolInv
<1>1. Init => PoolInv
  <2> SUFFICES ASSUME Init PROVE PoolInv
    OBVIOUS
  <2>1. queue \in Seq(Jobs) /\ Len(queue) = 0 /\ DOMAIN queue = {}
    <3>1. queue \in Seq(Jobs) /\ Len(queue) = 0
      BY EmptySeq DEF Init
    <3>2. DOMAIN queue = 1 .. 0
      BY <3>1, LenProperties
    <3> QED BY <3>1, <3>2
  <2>2. TypeOK
    BY <2>1 DEF Init, TypeOK, Phases, Answers
  <2>3. SlotInv
    <3>1. IsFiniteSet(active) /\ Cardinality(active) = 0
      BY FS_EmptySet DEF Init
    <3> QED BY <3>1, LimitAssumption DEF Init, SlotInv, Busy
  <2>4. QueueInv
    <3>1. Len(queue) <= MaxQueue
      BY <2>1, LimitAssumption
    <3> QED BY <2>1, <3>1 DEF Init, QueueInv, NoRepeat, NoIdleSlot
  <2>5. SettledInv
    BY DEF Init, SettledInv, CloseLeavesNothing, ClientsAreOwned
  <2>6. FreshInv
    BY DEF Init, FreshInv
  <2> QED BY <2>2, <2>3, <2>4, <2>5, <2>6 DEF PoolInv
<1>2. PoolInv /\ [Next]_vars => PoolInv'
  <2> SUFFICES ASSUME PoolInv, [Next]_vars PROVE PoolInv'
    OBVIOUS
  <2>1. TypeOK'
    BY TypeStep DEF PoolInv, SlotInv, QueueInv
  <2>2. SlotInv' /\ QueueInv'
    BY PoolStep DEF PoolInv
  <2>3. SettledInv' /\ FreshInv'
    <3>1. CASE UNCHANGED vars
      BY <3>1 DEF vars, PoolInv, SettledInv, CloseLeavesNothing, ClientsAreOwned, Admitted,
                  Owned, FreshInv
    <3>2. CASE Next
      BY <3>2, SettledStep, FreshStep DEF PoolInv
    <3> QED BY <3>1, <3>2
  <2> QED BY <2>1, <2>2, <2>3 DEF PoolInv
<1> QED BY <1>1, <1>2, PTL DEF Spec

(* Type correctness of the pool.                                           *)
THEOREM TypeCorrect == Spec => []TypeOK
<1>1. PoolInv => TypeOK
  BY DEF PoolInv
<1> QED BY <1>1, PoolInvariant, PTL

(* However late its answers, the node never has more work under way than   *)
(* maxConcurrent allows, nor more inputs waiting than maxQueue.            *)
THEOREM LimitsHold == Spec => []Bounded
<1>1. PoolInv => Bounded
  <2> SUFFICES ASSUME PoolInv PROVE Bounded
    OBVIOUS
  <2>1. InFlight \in SUBSET active
    BY DEF PoolInv, SlotInv, InFlight, Busy
  <2>2. /\ Cardinality(InFlight) <= Cardinality(active) /\ IsFiniteSet(InFlight)
    BY <2>1, FS_Subset DEF PoolInv, SlotInv
  <2>3. Cardinality(InFlight) \in Nat /\ Cardinality(active) \in Nat
    BY <2>2, FS_CardinalityType DEF PoolInv, SlotInv
  <2>4. Cardinality(InFlight) <= MaxConcurrent
    BY <2>2, <2>3, LimitAssumption DEF PoolInv, SlotInv
  <2> QED BY <2>4 DEF Bounded, PoolInv, QueueInv
<1> QED BY <1>1, PoolInvariant, PTL

(* A waiting input never sees an idle slot.                                *)
THEOREM SlotsAreUsed == Spec => []NoIdleSlot
<1>1. PoolInv => NoIdleSlot
  BY DEF PoolInv, QueueInv
<1> QED BY <1>1, PoolInvariant, PTL

(* A closed node has shut its clients and answered its inputs.             *)
THEOREM CloseIsComplete == Spec => []CloseLeavesNothing
<1>1. PoolInv => CloseLeavesNothing
  BY DEF PoolInv, SettledInv
<1> QED BY <1>1, PoolInvariant, PTL

(* A client does not outlive its operation.                                *)
THEOREM ClientsHaveOwners == Spec => []ClientsAreOwned
<1>1. PoolInv => ClientsAreOwned
  BY DEF PoolInv, SettledInv
<1> QED BY <1>1, PoolInvariant, PTL

(* One answer per input, and no result after close or deadline.            *)
THEOREM AnswersAreFinal == Spec => AnsweredInTime
<1>1. PoolInv /\ [Next]_vars => [\A j \in Jobs : answer'[j] # answer[j] =>
        answer[j] = "none" /\ (answer'[j] = "sent" => ~closed /\ ~late[j])]_vars
  <2> SUFFICES ASSUME PoolInv, Next, NEW k \in Jobs, answer'[k] # answer[k]
               PROVE  answer[k] = "none" /\ (answer'[k] = "sent" => ~closed /\ ~late[k])
    BY DEF vars
  <2>1. ASSUME NEW j \in Jobs, Submit(j)
        PROVE  answer[k] = "none" /\ answer'[k] # "sent"
    <3>1. PICK a \in {"failed", "closed", "full"} : Refuse(j, a)
      BY <2>1 DEF Submit
    <3>2. k = j /\ phase[k] = "new" /\ answer'[k] = a
      BY <2>1, <3>1 DEF Refuse, Submit, PoolInv, TypeOK
    <3>3. answer[k] = "none"
      BY <3>2 DEF PoolInv, FreshInv
    <3> QED BY <3>2, <3>3
  <2>2. ASSUME NEW S, NEW a, answer' = Settled(S, a), a # "sent"
        PROVE  answer[k] = "none" /\ answer'[k] # "sent"
    BY <2>2 DEF Settled
  <2>3. ASSUME NEW j \in Jobs, Begin(j) \/ Prepared(j) \/ Called(j)
        PROVE  answer[k] = "none" /\ answer'[k] # "sent"
    BY <2>2, <2>3 DEF Begin, Prepared, Called, Cancel, MoveTo, Finish
  <2>4. ASSUME NEW j \in Jobs, Conclude(j)
        PROVE  answer[k] = "none" /\ (answer'[k] = "sent" => ~closed /\ ~late[k])
    <3>1. CASE \E a \in {"timeout", "failed", CancelCode} : answer' = Settled({j}, a)
      BY <2>2, <3>1 DEF CancelCode
    <3>2. CASE ~late[j] /\ \E a \in {"sent", "failed"} : answer' = Settled({j}, a)
      <4>1. k = j /\ answer[k] = "none"
        BY <3>2 DEF Settled
      <4>2. j \in Admitted
        BY <2>4 DEF Conclude, Admitted
      <4> QED BY <3>2, <4>1, <4>2 DEF PoolInv, SettledInv, CloseLeavesNothing
    <3> QED BY <2>4, <3>1, <3>2 DEF Conclude, Send, Finish
  <2>5. ASSUME NEW j \in Jobs, Release(j) \/ Expire(j) PROVE FALSE
    BY <2>5 DEF Release, Expire
  <2>6. ASSUME NEW j \in Jobs, Timeout(j) PROVE answer[k] = "none" /\ answer'[k] # "sent"
    BY <2>2, <2>6 DEF Timeout, Finish
  <2>7. CASE Close
    BY <2>2, <2>7 DEF Close, CloseNode
  <2> QED BY <2>1, <2>3, <2>4, <2>5, <2>6, <2>7 DEF Next, Step
<1> QED BY <1>1, PoolInvariant, PTL DEF Spec, AnsweredInTime

\* The limits hold and no slot is idle while an input waits (drain(), the
\* deadline and close of both libraries).
THEOREM SlotsAreSharedAlways == Spec => []SlotsAreShared
  BY LimitsHold, SlotsAreUsed, PTL DEF SlotsAreShared

\* Neither close nor a failure leaves a client behind (finish() and dispose()).
THEOREM ClientsNeverOutlive == Spec => []NoClientOutlives
  BY CloseIsComplete, ClientsHaveOwners, PTL DEF NoClientOutlives

==============================================================================
