--------------------------- MODULE OciConfigProofs ---------------------------
(***************************************************************************)
(* Theorems about the two OCI configuration nodes whose state their users  *)
(* share: OrdsPoll, for any number of polls, requests, poll nodes, slots   *)
(* and places in the queue, and IotSubscriptions, for any subscribers,     *)
(* topics, inputs and bound of the wire.                                   *)
(***************************************************************************)
EXTENDS OrdsPoll, IotSubscriptions, FiniteSetTheorems, SequenceTheorems, TLAPS

------------------------------------------------------------------------------
(* OrdsPoll.                                                               *)

(* A slot is in use exactly while the work of its poll goes on.            *)
AtWork == {i \in Polls : at[i] \in Running}

SlotInv ==
  /\ IsFiniteSet(AtWork)
  /\ active = Cardinality(AtWork)
  /\ active <= MaxConcurrent
  /\ queue # <<>> => active = MaxConcurrent

NoRepeat(q) == \A x, y \in DOMAIN q : q[x] = q[y] => x = y

Elements(q) == {q[x] : x \in DOMAIN q}

First(q, n) == {q[x] : x \in 1 .. n}

(* The queue holds the waiting polls, once each, and nobody once closed.   *)
QueueInv ==
  /\ Len(queue) <= maxQueued
  /\ NoRepeat(queue)
  /\ Elements(queue) = {i \in Polls : at[i] = "queued"}
  /\ closed => queue = <<>>

(* Nobody is answered before it is received, and a race tells the truth    *)
(* about the work it settles: an abort comes with an outcome of its own.   *)
ReplyInv ==
  /\ \A i \in Inputs : at[i] = "new" => reply[i] = "none"
  /\ \A i \in Requests : at[i] # "over" => reply[i] = "none"
  /\ \A i \in Polls :
       /\ at[i] = "new" => raced[i] = "none" /\ ~late[i]
       /\ aborted[i] => raced[i] # "none" \/ at[i] = "over"
       /\ at[i] = "answered" => answer[i] # "none"
       /\ raced[i] = "complete" => answer[i] = "complete" /\ at[i] \in {"settled", "over"}
       /\ raced[i] = "incomplete" =>
            late[i] \/ (answer[i] = "partial" /\ at[i] \in {"settled", "over"})

(* What a step may answer: the action of RepliesAreTrue.                   *)
TrueReplies ==
  \A i \in Inputs : reply'[i] # reply[i] =>
    /\ reply[i] = "none"
    /\ i \in Polls /\ reply'[i] # "error" =>
         /\ Open(i)
         /\ reply'[i] = "sent" => answer[i] = "complete"
         /\ reply'[i] = "timedout" => late[i] \/ answer[i] = "partial"

PollInv == TypeOK /\ SlotInv /\ QueueInv /\ ReplyInv

------------------------------------------------------------------------------
(* Sequences.                                                              *)

(* A function on 1 .. n is a sequence of length n.                         *)
LEMMA FunctionIsSeq ==
  ASSUME NEW S, NEW n \in Nat, NEW f \in [1 .. n -> S]
  PROVE  f \in Seq(S) /\ Len(f) = n /\ DOMAIN f = 1 .. n
OBVIOUS

(* How many places of a set come up to each of them: every count up to the *)
(* size of the set, once each.                                             *)
LEMMA Ranks ==
  ASSUME NEW m \in Nat, NEW kept \in SUBSET (1 .. m)
  PROVE  /\ IsFiniteSet(kept) /\ Cardinality(kept) \in Nat /\ Cardinality(kept) <= m
         /\ \A n \in 1 .. Cardinality(kept) :
              \E x \in kept : Cardinality({y \in kept : y <= x}) = n
         /\ \A x \in kept : Cardinality({y \in kept : y <= x}) \in 1 .. Cardinality(kept)
         /\ \A x, z \in kept :
              Cardinality({y \in kept : y <= x}) = Cardinality({y \in kept : y <= z}) => x = z
<1> DEFINE UpTo(x) == {y \in kept : y <= x}
           r == [x \in kept |-> Cardinality(UpTo(x))]
<1>1. IsFiniteSet(kept) /\ Cardinality(kept) \in Nat /\ Cardinality(kept) <= m
  <2>1. IsFiniteSet(1 .. m) /\ Cardinality(1 .. m) = m
    <3>1. IsFiniteSet(1 .. m) /\ Cardinality(1 .. m) = IF 1 > m THEN 0 ELSE m - 1 + 1
      BY FS_Interval
    <3> QED BY <3>1
  <2> QED BY <2>1, FS_Subset, FS_CardinalityType
<1>2. ASSUME NEW x \in kept
      PROVE  /\ IsFiniteSet(UpTo(x)) /\ Cardinality(UpTo(x)) \in Nat
             /\ Cardinality(UpTo(x)) <= Cardinality(kept)
             /\ x \in UpTo(x)
  <2>1. UpTo(x) \in SUBSET kept /\ x \in UpTo(x)
    OBVIOUS
  <2> QED BY <2>1, <1>1, FS_Subset, FS_CardinalityType
<1>3. \A x \in kept : Cardinality(UpTo(x)) \in 1 .. Cardinality(kept)
  <2> SUFFICES ASSUME NEW x \in kept PROVE Cardinality(UpTo(x)) \in 1 .. Cardinality(kept)
    OBVIOUS
  <2>1. Cardinality(UpTo(x)) # 0
    BY <1>2, FS_EmptySet
  <2> QED BY <2>1, <1>1, <1>2
<1>4. ASSUME NEW x \in kept, NEW z \in kept, x < z
      PROVE  Cardinality(UpTo(x)) # Cardinality(UpTo(z))
  <2>1. UpTo(x) \subseteq UpTo(z)
    <3> SUFFICES ASSUME NEW y \in kept, y <= x PROVE y <= z
      OBVIOUS
    <3>1. x \in Int /\ y \in Int /\ z \in Int
      OBVIOUS
    <3> QED BY <3>1, <1>4
  <2>2. z \in UpTo(z) /\ z \notin UpTo(x)
    BY <1>4
  <2> HIDE DEF UpTo
  <2>3. UpTo(x) \in SUBSET UpTo(z) /\ UpTo(x) # UpTo(z)
    BY <2>1, <2>2
  <2> QED BY <2>3, <1>2, FS_Subset
<1>5. r \in Injection(kept, 1 .. Cardinality(kept))
  <2>1. r \in [kept -> 1 .. Cardinality(kept)]
    BY <1>3
  <2>2. ASSUME NEW x \in kept, NEW z \in kept, r[x] = r[z] PROVE x = z
    BY <1>4, <2>2
  <2> QED BY <2>1, <2>2 DEF Injection, IsInjective
<1>6. IsFiniteSet(1 .. Cardinality(kept)) /\ Cardinality(1 .. Cardinality(kept)) = Cardinality(kept)
  <2> DEFINE c == Cardinality(kept)
  <2>1. c \in Nat
    BY <1>1
  <2> HIDE DEF c
  <2>2. IsFiniteSet(1 .. c) /\ Cardinality(1 .. c) = IF 1 > c THEN 0 ELSE c - 1 + 1
    BY <2>1, FS_Interval
  <2>3. IsFiniteSet(1 .. c) /\ Cardinality(1 .. c) = c
    BY <2>1, <2>2
  <2> QED BY <2>3 DEF c
<1> HIDE DEF r
<1>7. r \in Surjection(kept, 1 .. Cardinality(kept))
  BY <1>5, <1>6, FS_Injection
<1>8. \A n \in 1 .. Cardinality(kept) : \E x \in kept : r[x] = n
  BY <1>7 DEF Surjection
<1>9. \A x, z \in kept : Cardinality(UpTo(x)) = Cardinality(UpTo(z)) => x = z
  BY <1>4
<1> QED BY <1>1, <1>3, <1>8, <1>9 DEF r

(* Counting the places of a set of naturals up to each of them arranges    *)
(* them.                                                                   *)
LEMMA RankingFacts ==
  ASSUME NEW m \in Nat, NEW kept \in SUBSET (1 .. m)
  PROVE  [n \in 1 .. Cardinality(kept) |->
            CHOOSE x \in kept : Cardinality({y \in kept : y <= x}) = n]
           \in Bijection(1 .. Cardinality(kept), kept)
<1> DEFINE rank(x) == Cardinality({y \in kept : y <= x})
           nth(n) == CHOOSE x \in kept : rank(x) = n
           c == Cardinality(kept)
           g == [n \in 1 .. c |-> nth(n)]
<1>1. /\ \A n \in 1 .. c : \E x \in kept : rank(x) = n
      /\ \A x \in kept : rank(x) \in 1 .. c
      /\ \A x, z \in kept : rank(x) = rank(z) => x = z
  BY Ranks
<1> HIDE DEF rank, c
<1>2. \A n \in 1 .. c : nth(n) \in kept /\ rank(nth(n)) = n
  BY <1>1
<1> HIDE DEF nth
<1>3. g \in [1 .. c -> kept] /\ \A n \in 1 .. c : g[n] = nth(n)
  BY <1>2
<1> HIDE DEF g
<1>4. \A n, k \in 1 .. c : g[n] = g[k] => n = k
  BY <1>2, <1>3
<1>5. ASSUME NEW x \in kept PROVE \E n \in 1 .. c : g[n] = x
  <2>1. rank(x) \in 1 .. c
    BY <1>1
  <2>2. g[rank(x)] = x
    BY <2>1, <1>1, <1>2, <1>3
  <2> QED BY <2>1, <2>2
<1>6. g \in Bijection(1 .. c, kept)
  BY <1>3, <1>4, <1>5 DEF Bijection, Injection, Surjection, IsInjective
<1> QED BY <1>6 DEF g, nth, rank, c

(* The tail of a sequence from n + 1 on, and its first n elements, when no *)
(* element comes twice.                                                    *)
LEMMA CutFacts ==
  ASSUME NEW S, NEW q \in Seq(S), NoRepeat(q), NEW n \in 0 .. Len(q)
  PROVE  /\ SubSeq(q, n + 1, Len(q)) \in Seq(S)
         /\ Len(SubSeq(q, n + 1, Len(q))) = Len(q) - n
         /\ NoRepeat(SubSeq(q, n + 1, Len(q)))
         /\ Elements(SubSeq(q, n + 1, Len(q))) = Elements(q) \ First(q, n)
         /\ First(q, n) \subseteq Elements(q)
         /\ IsFiniteSet(First(q, n)) /\ Cardinality(First(q, n)) = n
<1> DEFINE r == SubSeq(q, n + 1, Len(q))
           F == First(q, n)
<1>0. F = {q[x] : x \in 1 .. n}
  BY DEF First
<1>1. Len(q) \in Nat /\ DOMAIN q = 1 .. Len(q) /\ \A k \in 1 .. Len(q) : q[k] \in S
  BY LenProperties
<1>2. /\ r \in Seq(S)
      /\ Len(r) = (IF n + 1 <= Len(q) THEN Len(q) - (n + 1) + 1 ELSE 0)
      /\ \A k \in 1 .. Len(q) - (n + 1) + 1 : r[k] = q[(n + 1) + k - 1]
  <2>1. \A k \in n + 1 .. Len(q) : q[k] \in S
    BY <1>1
  <2>2. n + 1 \in Int /\ Len(q) \in Int
    BY <1>1
  <2> QED BY <2>1, <2>2, SubSeqProperties
<1> HIDE DEF r, F
<1>3. n \in Int /\ Len(q) \in Int /\ 0 <= n /\ n <= Len(q)
  BY <1>1
<1>4. Len(r) = Len(q) - n /\ DOMAIN r = 1 .. Len(q) - n
  <2>1. Len(r) = Len(q) - n
    BY <1>2, <1>3
  <2> QED BY <2>1, <1>2, LenProperties
<1>5. ASSUME NEW k \in 1 .. Len(q) - n
      PROVE  n + k \in 1 .. Len(q) /\ r[k] = q[n + k]
  <2>1. k \in Int /\ 1 <= k /\ n + k <= Len(q)
    BY <1>3
  <2>2. k \in 1 .. Len(q) - (n + 1) + 1 /\ (n + 1) + k - 1 = n + k
    BY <2>1, <1>3
  <2> QED BY <2>1, <2>2, <1>2, <1>3
<1>6. NoRepeat(r)
  <2> SUFFICES ASSUME NEW k \in 1 .. Len(q) - n, NEW l \in 1 .. Len(q) - n, r[k] = r[l]
               PROVE  k = l
    BY <1>4 DEF NoRepeat
  <2>1. n + k = n + l
    BY <1>1, <1>5 DEF NoRepeat
  <2> QED BY <2>1, <1>3
<1>7. F \subseteq Elements(q)
  BY <1>0, <1>1, <1>3 DEF Elements
<1>8. Elements(r) \subseteq Elements(q) \ F
  <2> SUFFICES ASSUME NEW k \in 1 .. Len(q) - n PROVE r[k] \in Elements(q) /\ r[k] \notin F
    BY <1>4 DEF Elements
  <2>1. n + k \in DOMAIN q /\ r[k] = q[n + k]
    BY <1>1, <1>5
  <2>2. \A x \in 1 .. n : x \in DOMAIN q /\ x # n + k
    BY <1>1, <1>3
  <2> QED BY <1>0, <2>1, <2>2 DEF Elements, NoRepeat
<1>9. Elements(q) \ F \subseteq Elements(r)
  <2> SUFFICES ASSUME NEW x \in 1 .. Len(q), q[x] \notin F PROVE \E k \in 1 .. Len(q) - n : r[k] = q[x]
    BY <1>1, <1>4 DEF Elements
  <2>1. ~(x <= n)
    BY <1>0, <1>3
  <2>2. x - n \in 1 .. Len(q) - n /\ n + (x - n) = x
    BY <2>1, <1>3
  <2> QED BY <2>2, <1>5
<1>10. IsFiniteSet(F) /\ Cardinality(F) = n
  <2>1. IsFiniteSet(1 .. n) /\ Cardinality(1 .. n) = n
    <3>1. IsFiniteSet(1 .. n) /\ Cardinality(1 .. n) = (IF 1 > n THEN 0 ELSE n - 1 + 1)
      BY <1>3, FS_Interval
    <3> QED BY <3>1, <1>3
  <2> DEFINE f == [x \in 1 .. n |-> q[x]]
  <2>2. f \in Bijection(1 .. n, F)
    <3>1. \A x, y \in 1 .. n : f[x] = f[y] => x = y
      BY <1>1, <1>3 DEF NoRepeat
    <3> QED BY <1>0, <3>1 DEF Bijection, Injection, Surjection, IsInjective
  <2>3. ExistsBijection(1 .. n, F)
    BY <2>2 DEF ExistsBijection
  <2> QED BY <2>1, <2>3, FS_Bijection
<1> QED BY <1>2, <1>4, <1>6, <1>7, <1>8, <1>9, <1>10 DEF r, F

(* A new last element.                                                     *)
LEMMA AppendFacts ==
  ASSUME NEW S, NEW q \in Seq(S), NoRepeat(q), NEW e \in S, e \notin Elements(q)
  PROVE  /\ Append(q, e) \in Seq(S)
         /\ Len(Append(q, e)) = Len(q) + 1
         /\ NoRepeat(Append(q, e))
         /\ Elements(Append(q, e)) = Elements(q) \cup {e}
<1> DEFINE r == Append(q, e)
<1>1. Len(q) \in Nat /\ DOMAIN q = 1 .. Len(q)
  BY LenProperties
<1>2. /\ r \in Seq(S) /\ Len(r) = Len(q) + 1
      /\ \A x \in 1 .. Len(q) : r[x] = q[x]
      /\ r[Len(q) + 1] = e
  BY AppendProperties
<1> HIDE DEF r
<1>3. DOMAIN r = 1 .. Len(q) + 1
  BY <1>2, LenProperties
<1>4. \A x \in DOMAIN r : \/ x \in DOMAIN q /\ r[x] = q[x]
                          \/ x = Len(q) + 1 /\ r[x] = e
  BY <1>1, <1>2, <1>3
<1>5. \A x \in DOMAIN q : x \in DOMAIN r /\ q[x] # e
  BY <1>1, <1>3 DEF Elements
<1>6. NoRepeat(r)
  BY <1>4, <1>5 DEF NoRepeat
<1>7. Len(q) + 1 \in DOMAIN r
  BY <1>1, <1>3
<1>8. Elements(r) = Elements(q) \cup {e}
  <2>1. Elements(r) \subseteq Elements(q) \cup {e}
    BY <1>4 DEF Elements
  <2>2. \A x \in DOMAIN q : r[x] = q[x]
    BY <1>1, <1>2
  <2>3. Elements(q) \cup {e} \subseteq Elements(r)
    BY <1>2, <1>5, <1>7, <2>2 DEF Elements
  <2> QED BY <2>1, <2>3
<1> QED BY <1>2, <1>6, <1>8 DEF r

(* The polls that leave the queue, and what stays.                         *)
LEMMA UnqueuedIs ==
  ASSUME queue \in Seq(Polls), NoRepeat(queue), NEW S
  PROVE  /\ Unqueued(S) \in Seq(Polls)
         /\ Len(Unqueued(S)) <= Len(queue)
         /\ NoRepeat(Unqueued(S))
         /\ Elements(Unqueued(S)) = Elements(queue) \ S
<1> DEFINE kept == {x \in DOMAIN queue : queue[x] \notin S}
           c    == Cardinality(kept)
           g    == [n \in 1 .. c |-> CHOOSE x \in kept : Cardinality({y \in kept : y <= x}) = n]
<1>1. Len(queue) \in Nat /\ DOMAIN queue = 1 .. Len(queue)
  BY LenProperties
<1>2. kept \in SUBSET (1 .. Len(queue)) /\ kept \in SUBSET DOMAIN queue
  BY <1>1
<1>3. Unqueued(S) = [n \in 1 .. c |-> queue[g[n]]]
  BY DEF Unqueued
<1>4. {queue[x] : x \in kept} = Elements(queue) \ S
  BY DEF Elements
<1> HIDE DEF kept
<1>5. c \in Nat /\ c <= Len(queue) /\ g \in Bijection(1 .. c, kept)
  BY <1>1, <1>2, Ranks, RankingFacts
<1> HIDE DEF c, g
<1> DEFINE r == Unqueued(S)
<1>6. r = [n \in 1 .. c |-> queue[g[n]]]
  BY <1>3
<1> HIDE DEF r
<1>7. /\ \A n \in 1 .. c : g[n] \in kept
      /\ \A n, k \in 1 .. c : g[n] = g[k] => n = k
      /\ \A x \in kept : \E n \in 1 .. c : g[n] = x
  BY <1>5 DEF Bijection, Injection, Surjection, IsInjective
<1>8. r \in [1 .. c -> Polls] /\ \A n \in 1 .. c : r[n] = queue[g[n]]
  BY <1>1, <1>2, <1>6, <1>7, LenProperties
<1>9. r \in Seq(Polls) /\ Len(r) = c /\ DOMAIN r = 1 .. c
  BY <1>5, <1>8, FunctionIsSeq
<1>10. NoRepeat(r)
  <2> SUFFICES ASSUME NEW n \in 1 .. c, NEW k \in 1 .. c, r[n] = r[k]
               PROVE  n = k
    BY <1>9 DEF NoRepeat
  <2>1. g[n] \in DOMAIN queue /\ g[k] \in DOMAIN queue /\ queue[g[n]] = queue[g[k]]
    BY <1>2, <1>7, <1>8
  <2> QED BY <2>1, <1>7 DEF NoRepeat
<1>11. Elements(r) \subseteq {queue[x] : x \in kept}
  BY <1>7, <1>8, <1>9 DEF Elements
<1>12. ASSUME NEW x \in kept PROVE queue[x] \in Elements(r)
  <2>1. PICK n \in 1 .. c : g[n] = x
    BY <1>7
  <2> QED BY <2>1, <1>8, <1>9 DEF Elements
<1> QED BY <1>4, <1>5, <1>9, <1>10, <1>11, <1>12 DEF r

------------------------------------------------------------------------------
(* What the shared operators return.                                       *)

Places == Running \cup {"new", "queued", "over"}

(* The work of some inputs ends: polls keep their slot, requests answer.   *)
LEMMA EndsIs ==
  ASSUME TypeOK, NEW S \in SUBSET Inputs, NEW v \in {"complete", "incomplete", "error"},
         Ends(S, v)
  PROVE  /\ at' \in [Inputs -> Places]
         /\ raced' \in [Polls -> {"none", "complete", "incomplete", "error"}]
         /\ reply' \in [Inputs -> {"none", "sent", "timedout", "error"}]
         /\ \A i \in Inputs \ S : at'[i] = at[i] /\ reply'[i] = reply[i]
         /\ \A i \in Polls : i \in S => at'[i] = "settled"
         /\ \A i \in Polls : reply'[i] = reply[i]
         /\ \A i \in Polls : raced'[i] = IF i \in S /\ raced[i] = "none" THEN v ELSE raced[i]
         /\ \A i \in Requests : i \in S => at'[i] = "over" /\ reply'[i] = "error"
<1>1. Polls \cap Requests = {} /\ Inputs = Polls \cup Requests
  BY InputAssumption DEF Inputs
<1>2. at' = [i \in Inputs |-> IF i \notin S THEN at[i]
                              ELSE IF i \in Polls THEN "settled" ELSE "over"]
  BY DEF Ends
<1>3. raced' = [i \in Polls |-> IF i \in S \cap Polls /\ raced[i] = "none" THEN v ELSE raced[i]]
  BY DEF Ends, Settle
<1>4. reply' = [i \in Inputs |-> IF i \in S \cap Requests THEN "error" ELSE reply[i]]
  BY DEF Ends, Put, TypeOK
<1> QED BY <1>1, <1>2, <1>3, <1>4 DEF TypeOK, Places, Running

(* A request goes out, waits for a token or fails at once.                 *)
LEMMA RequestIs ==
  ASSUME TypeOK, NEW i \in Inputs, Request(i)
  PROVE  /\ flight' \in BOOLEAN
         /\ \/ Ends({i}, "error") /\ (closed \/ (i \in Polls /\ aborted[i]))
            \/ /\ \E p \in {"fetch", "token"} : at' = [at EXCEPT ![i] = p]
               /\ UNCHANGED <<raced, reply>>
BY DEF Request, TypeOK

(* The head of a poll's loop ends its work or sends a request.             *)
LEMMA AttemptIs ==
  ASSUME TypeOK, NEW i \in Polls, Attempt(i)
  PROVE  /\ flight' \in BOOLEAN
         /\ \/ Ends({i}, "error")
            \/ Ends({i}, "incomplete") /\ (aborted[i] \/ late[i])
            \/ /\ \E p \in {"fetch", "token"} : at' = [at EXCEPT ![i] = p]
               /\ UNCHANGED <<raced, reply>>
BY RequestIs DEF Attempt, TypeOK, Inputs

(* Nothing but the work of polls that have a slot moves.                   *)
LEMMA SlotsKept ==
  ASSUME SlotInv, QueueInv, UNCHANGED <<maxQueued, closed, queue, active>>,
         \A i \in Polls : /\ at'[i] \in Running <=> at[i] \in Running
                          /\ at'[i] = "queued" <=> at[i] = "queued"
  PROVE  SlotInv' /\ QueueInv'
<1>1. AtWork' = AtWork
  BY DEF AtWork
<1>2. {i \in Polls : at'[i] = "queued"} = {i \in Polls : at[i] = "queued"}
  OBVIOUS
<1>3. SlotInv'
  BY <1>1 DEF SlotInv
<1>4. QueueInv'
  BY <1>2 DEF QueueInv, NoRepeat, Elements
<1> QED BY <1>3, <1>4

(* An abort takes the waiting polls out of the queue and frees no slot.    *)
LEMMA AbortKeeps ==
  ASSUME TypeOK, SlotInv, QueueInv, NEW S \in SUBSET Polls, Abort(S),
         UNCHANGED <<maxQueued, closed, active>>
  PROVE  /\ SlotInv' /\ QueueInv'
         /\ queue' \in Seq(Polls)
         /\ at' \in [Inputs -> Places]
         /\ aborted' \in [Polls -> BOOLEAN]
         /\ \A i \in Inputs : at'[i] # at[i] => i \in S /\ at[i] = "queued" /\ at'[i] = "over"
         /\ \A i \in S : at'[i] # "queued"
         /\ \A i \in Polls : aborted'[i] = (i \in S \/ aborted[i])
<1> DEFINE W == {i \in S : at[i] = "queued"}
<1>1. /\ aborted' = Put(aborted, S, TRUE)
      /\ queue' = Unqueued(W)
      /\ at' = Put(at, W, "over")
  BY DEF Abort
<1>2. queue \in Seq(Polls) /\ NoRepeat(queue) /\ Len(queue) \in Nat
  BY LenProperties DEF TypeOK, QueueInv
<1>3. /\ queue' \in Seq(Polls) /\ Len(queue') <= Len(queue) /\ NoRepeat(queue')
      /\ Elements(queue') = Elements(queue) \ W
  BY <1>1, <1>2, UnqueuedIs
<1>4. Polls \subseteq Inputs /\ at \in [Inputs -> Places]
  BY DEF Inputs, TypeOK, Places
<1>5. /\ at' \in [Inputs -> Places]
      /\ \A i \in Inputs : at'[i] = IF i \in W THEN "over" ELSE at[i]
  BY <1>1, <1>4 DEF Put, Places
<1>6. aborted' \in [Polls -> BOOLEAN] /\ \A i \in Polls : aborted'[i] = (i \in S \/ aborted[i])
  <2>1. aborted' = [i \in Polls |-> IF i \in S THEN TRUE ELSE aborted[i]]
    BY <1>1 DEF Put, TypeOK
  <2>2. aborted \in [Polls -> BOOLEAN]
    BY DEF TypeOK
  <2>3. aborted' \in [Polls -> BOOLEAN]
    BY <2>1, <2>2
  <2> QED BY <2>1, <2>2, <2>3
<1>7. \A i \in Polls : /\ at'[i] \in Running <=> at[i] \in Running
                       /\ at'[i] = "queued" <=> at[i] = "queued" /\ i \notin W
  BY <1>4, <1>5 DEF Running, Abortable
<1>8. SlotInv'
  <2>1. AtWork' = AtWork
    BY <1>7 DEF AtWork
  <2>2. queue' # <<>> => queue # <<>>
    <3>1. queue' # <<>> => Len(queue') \in Nat \ {0}
      BY <1>3, EmptySeq
    <3>2. queue = <<>> => Len(queue) = 0
      BY EmptySeq
    <3> QED BY <3>1, <3>2, <1>2, <1>3
  <2> QED BY <2>1, <2>2 DEF SlotInv
<1>9. QueueInv'
  <2>1. Len(queue') <= maxQueued'
    <3>1. maxQueued \in Nat /\ Len(queue') \in Nat
      BY <1>3, LenProperties, LimitAssumption DEF TypeOK
    <3> QED BY <3>1, <1>2, <1>3 DEF QueueInv
  <2>2. Elements(queue') = {i \in Polls : at'[i] = "queued"}
    BY <1>3, <1>7 DEF QueueInv
  <2>3. closed' => queue' = <<>>
    <3> SUFFICES ASSUME closed PROVE queue' = <<>>
      OBVIOUS
    <3>1. Len(queue) = 0
      BY EmptySeq DEF QueueInv
    <3> QED BY <3>1, <1>2, <1>3, EmptySeq
  <2> QED BY <1>3, <2>1, <2>2, <2>3 DEF QueueInv
<1>10. \A i \in S : at'[i] # "queued"
  BY <1>4, <1>5
<1> QED BY <1>3, <1>5, <1>6, <1>8, <1>9, <1>10

(* drainPollQueue() hands free slots to the head of the queue, as many as  *)
(* there are, and leaves one idle only when nothing waits.                 *)
LEMMA DrainKeeps ==
  ASSUME TypeOK, UNCHANGED <<maxQueued, closed>>,
         NEW q, q \in Seq(Polls), NoRepeat(q), NEW n, n \in Nat, n <= MaxConcurrent,
         NEW st, st \in [Inputs -> Places],
         IsFiniteSet({i \in Polls : st[i] \in Running}),
         n = Cardinality({i \in Polls : st[i] \in Running}),
         Elements(q) = {i \in Polls : st[i] = "queued"},
         Len(q) <= maxQueued \/ (Len(q) = 1 /\ n < MaxConcurrent),
         Drain(q, n, st)
  PROVE  /\ SlotInv' /\ QueueInv'
         /\ queue' \in Seq(Polls)
         /\ active' \in Nat
         /\ at' \in [Inputs -> Places]
         /\ raced' \in [Polls -> {"none", "complete", "incomplete", "error"}]
         /\ \A i \in Inputs : at'[i] # st[i] =>
              st[i] = "queued" /\ i \in Polls /\ at'[i] \in {"starting", "over"}
         /\ \A i \in Polls : raced'[i] # raced[i] =>
              raced[i] = "none" /\ raced'[i] = "error" /\ st[i] = "queued"
<1> DEFINE free == IF n < MaxConcurrent THEN MaxConcurrent - n ELSE 0
           k    == IF Len(q) < free THEN Len(q) ELSE free
           F    == First(q, k)
           R    == {i \in Polls : st[i] \in Running}
<1>1. Len(q) \in Nat /\ DOMAIN q = 1 .. Len(q) /\ \A x \in DOMAIN q : q[x] \in Polls
  BY LenProperties
<1>2. MaxConcurrent \in Nat \ {0} /\ maxQueued \in Nat
  BY LimitAssumption DEF TypeOK
<1>3. /\ k \in 0 .. Len(q) /\ n + k <= MaxConcurrent
      /\ k < Len(q) => n + k = MaxConcurrent
      /\ Len(q) - k <= maxQueued
  <2>1. free \in Nat /\ n + free = MaxConcurrent
    BY <1>2
  <2>2. Len(q) <= maxQueued \/ (free >= 1 /\ Len(q) = 1)
    BY <1>2
  <2> HIDE DEF free
  <2>3. CASE Len(q) < free
    BY <2>1, <2>3, <1>1, <1>2
  <2>4. CASE ~(Len(q) < free)
    <3> DEFINE l == Len(q)
    <3>1. k = free /\ l \in Nat /\ free \in Nat /\ free <= l /\ maxQueued \in Nat
      BY <2>1, <2>4, <1>1, <1>2
    <3>2. l <= maxQueued \/ (free >= 1 /\ l = 1)
      BY <2>2
    <3> HIDE DEF l, k
    <3>3. l - free <= maxQueued /\ free \in 0 .. l
      BY <3>1, <3>2
    <3>4. n + free <= MaxConcurrent /\ n + free = MaxConcurrent
      BY <2>1, <1>2
    <3> QED BY <3>1, <3>3, <3>4 DEF l
  <2> QED BY <2>3, <2>4
<1>4. Polls \subseteq Inputs
  BY DEF Inputs
<1>5. CASE closed
  <2>1. /\ queue' = <<>> /\ active' = n
        /\ at' = Put(st, Elements(q), "over")
        /\ raced' = Settle(Elements(q), "error")
    BY <1>5 DEF Drain, Elements
  <2>2. /\ at' \in [Inputs -> Places]
        /\ \A i \in Inputs : at'[i] = IF i \in Elements(q) THEN "over" ELSE st[i]
    BY <2>1, <1>4 DEF Put, Places
  <2>3. \A i \in Polls : /\ at'[i] \in Running <=> st[i] \in Running
                         /\ at'[i] # "queued"
    BY <2>2, <1>4 DEF Running, Abortable
  <2>4. AtWork' = R
    BY <2>3 DEF AtWork
  <2>5. SlotInv'
    BY <2>1, <2>4 DEF SlotInv
  <2>6. queue' \in Seq(Polls) /\ Len(queue') = 0 /\ DOMAIN queue' = {}
    BY <2>1, EmptySeq, LenProperties
  <2>7. QueueInv'
    BY <2>1, <2>3, <2>6, <1>2 DEF QueueInv, NoRepeat, Elements
  <2>8. /\ raced' \in [Polls -> {"none", "complete", "incomplete", "error"}]
        /\ \A i \in Polls : raced'[i] # raced[i] =>
             raced[i] = "none" /\ raced'[i] = "error" /\ st[i] = "queued"
    BY <2>1 DEF Settle, TypeOK
  <2> QED BY <2>1, <2>2, <2>5, <2>6, <2>7, <2>8, <1>4
<1>6. CASE ~closed
  <2>1. /\ queue' = SubSeq(q, k + 1, Len(q)) /\ active' = n + k
        /\ at' = Put(st, F, "starting")
        /\ raced' = raced
    BY <1>6 DEF Drain, First
  <2> HIDE DEF k
  <2>2. /\ queue' \in Seq(Polls) /\ Len(queue') = Len(q) - k /\ NoRepeat(queue')
        /\ Elements(queue') = Elements(q) \ F
        /\ F \subseteq Elements(q) /\ IsFiniteSet(F) /\ Cardinality(F) = k
    BY <2>1, <1>3, CutFacts
  <2> HIDE DEF F
  <2>3. /\ at' \in [Inputs -> Places]
        /\ \A i \in Inputs : at'[i] = IF i \in F THEN "starting" ELSE st[i]
    BY <2>1, <1>4 DEF Put, Places, Running
  <2>4. F \subseteq Polls /\ \A i \in F : st[i] = "queued"
    BY <2>2
  <2>5. AtWork' = R \cup F /\ R \cap F = {}
    BY <2>3, <2>4, <1>4 DEF AtWork, Running, Abortable
  <2>6. IsFiniteSet(AtWork') /\ Cardinality(AtWork') = n + k
    <3>1. /\ IsFiniteSet(R \cup F)
          /\ Cardinality(R \cup F) = Cardinality(R) + Cardinality(F) - Cardinality(R \cap F)
      BY <2>2, FS_Union
    <3>2. Cardinality(R \cap F) = 0
      BY <2>5, FS_EmptySet
    <3> QED BY <3>1, <3>2, <2>2, <2>5, <1>1, <1>3
  <2>7. queue' # <<>> => active' = MaxConcurrent
    <3> SUFFICES ASSUME queue' # <<>> PROVE active' = MaxConcurrent
      OBVIOUS
    <3>1. Len(queue') \in Nat \ {0}
      BY <2>2, EmptySeq
    <3>2. k < Len(q)
      BY <3>1, <2>2, <1>1, <1>3
    <3> QED BY <3>2, <2>1, <1>3
  <2>8. SlotInv'
    BY <2>1, <2>6, <2>7, <1>3 DEF SlotInv
  <2>9. Elements(queue') = {i \in Polls : at'[i] = "queued"}
    BY <2>2, <2>3, <2>4, <1>4
  <2>10. QueueInv'
    BY <2>2, <2>9, <1>3, <1>6 DEF QueueInv
  <2>11. active' \in Nat
    <3>1. k \in Int /\ 0 <= k
      BY <1>1, <1>3
    <3> QED BY <3>1, <2>1
  <2>12. \A i \in Inputs : at'[i] # st[i] =>
           st[i] = "queued" /\ i \in Polls /\ at'[i] \in {"starting", "over"}
    BY <2>3, <2>4
  <2>13. raced' \in [Polls -> {"none", "complete", "incomplete", "error"}]
    BY <2>1 DEF TypeOK
  <2> QED BY <2>1, <2>2, <2>3, <2>8, <2>10, <2>11, <2>12, <2>13
<1> QED BY <1>5, <1>6

------------------------------------------------------------------------------
(* What a step does to the outcomes.                                       *)

(* The work of some inputs ends with v, and v is true of them.             *)
LEMMA EndsTrue ==
  ASSUME TypeOK, ReplyInv, NEW S \in SUBSET Inputs,
         NEW v \in {"complete", "incomplete", "error"}, Ends(S, v),
         UNCHANGED <<answer, aborted, late>>,
         \A i \in S : at[i] # "over",
         v = "complete" => \A i \in Polls : i \in S => answer[i] = "complete",
         v = "incomplete" => \A i \in Polls : i \in S =>
           aborted[i] \/ late[i] \/ answer[i] = "partial"
  PROVE  ReplyInv' /\ TrueReplies
<1>1. Polls \cap Requests = {} /\ Inputs = Polls \cup Requests
  BY InputAssumption DEF Inputs
<1>2. /\ \A i \in Inputs \ S : at'[i] = at[i] /\ reply'[i] = reply[i]
      /\ \A i \in Polls : i \in S => at'[i] = "settled"
      /\ \A i \in Polls : reply'[i] = reply[i]
      /\ \A i \in Polls : raced'[i] = IF i \in S /\ raced[i] = "none" THEN v ELSE raced[i]
      /\ \A i \in Requests : i \in S => at'[i] = "over" /\ reply'[i] = "error"
  BY EndsIs
<1>3. \A i \in Inputs : at'[i] = "new" => reply'[i] = "none"
  <2> SUFFICES ASSUME NEW i \in Inputs, at'[i] = "new" PROVE reply'[i] = "none"
    OBVIOUS
  <2>1. i \notin S
    BY <1>1, <1>2
  <2> QED BY <2>1, <1>2 DEF ReplyInv
<1>4. \A i \in Requests : at'[i] # "over" => reply'[i] = "none"
  BY <1>1, <1>2 DEF ReplyInv
<1>5. ASSUME NEW i \in Polls
      PROVE  /\ at'[i] = "new" => raced'[i] = "none" /\ ~late'[i]
             /\ aborted'[i] => raced'[i] # "none" \/ at'[i] = "over"
             /\ at'[i] = "answered" => answer'[i] # "none"
             /\ raced'[i] = "complete" => answer'[i] = "complete" /\ at'[i] \in {"settled", "over"}
             /\ raced'[i] = "incomplete" =>
                  late'[i] \/ (answer'[i] = "partial" /\ at'[i] \in {"settled", "over"})
  <2>1. CASE i \notin S
    <3>1. at'[i] = at[i] /\ raced'[i] = raced[i]
      BY <2>1, <1>1, <1>2
    <3> QED BY <3>1 DEF ReplyInv
  <2>2. CASE i \in S
    <3>1. at'[i] = "settled" /\ raced'[i] = IF raced[i] = "none" THEN v ELSE raced[i]
      BY <2>2, <1>2
    <3>2. aborted[i] => raced[i] # "none"
      BY <2>2 DEF ReplyInv
    <3> QED BY <2>2, <3>1, <3>2 DEF ReplyInv
  <2> QED BY <2>1, <2>2
<1>6. ReplyInv'
  BY <1>3, <1>4, <1>5 DEF ReplyInv
<1>7. TrueReplies
  <2> SUFFICES ASSUME NEW i \in Inputs, reply'[i] # reply[i]
               PROVE  i \notin Polls /\ reply[i] = "none"
    BY DEF TrueReplies
  <2>1. i \in S /\ i \in Requests /\ i \notin Polls
    BY <1>1, <1>2
  <2> QED BY <2>1 DEF ReplyInv
<1> QED BY <1>6, <1>7

(* Work that goes on is not settled yet, and answers nobody.               *)
LEMMA MovesTrue ==
  ASSUME TypeOK, ReplyInv, UNCHANGED <<raced, aborted, late, reply>>,
         \A i \in Inputs : at'[i] # at[i] => at[i] \notin {"settled", "over"} /\ at'[i] # "new",
         \A i \in Polls : answer'[i] # answer[i] => at[i] \notin {"settled", "over"},
         \A i \in Polls : at'[i] = "answered" => answer'[i] # "none"
  PROVE  ReplyInv' /\ TrueReplies
<1>1. Polls \subseteq Inputs /\ Requests \subseteq Inputs
  BY DEF Inputs
<1>2. \A i \in Inputs : at'[i] = "new" => reply'[i] = "none"
  BY DEF ReplyInv
<1>3. \A i \in Requests : at'[i] # "over" => reply'[i] = "none"
  BY <1>1 DEF ReplyInv
<1>4. ASSUME NEW i \in Polls
      PROVE  /\ at'[i] = "new" => raced'[i] = "none" /\ ~late'[i]
             /\ aborted'[i] => raced'[i] # "none" \/ at'[i] = "over"
             /\ at'[i] = "answered" => answer'[i] # "none"
             /\ raced'[i] = "complete" => answer'[i] = "complete" /\ at'[i] \in {"settled", "over"}
             /\ raced'[i] = "incomplete" =>
                  late'[i] \/ (answer'[i] = "partial" /\ at'[i] \in {"settled", "over"})
  <2>1. CASE at'[i] = at[i]
    BY <2>1, <1>1 DEF ReplyInv
  <2>2. CASE at'[i] # at[i]
    <3>1. at[i] \notin {"settled", "over"} /\ at'[i] # "new"
      BY <2>2, <1>1
    <3> QED BY <3>1 DEF ReplyInv
  <2> QED BY <2>1, <2>2
<1> QED BY <1>2, <1>3, <1>4 DEF ReplyInv, TrueReplies

(* An abort comes with an outcome for the polls it aborts.                 *)
LEMMA AbortTrue ==
  ASSUME TypeOK, ReplyInv, NEW S \in SUBSET Polls,
         UNCHANGED <<answer, late>>,
         \A i \in Inputs : at'[i] # at[i] => i \in S /\ at[i] = "queued" /\ at'[i] = "over",
         \A i \in Polls : aborted'[i] = (i \in S \/ aborted[i]),
         \A i \in S : at[i] # "new" /\ raced'[i] # "none",
         \A i \in Polls : raced'[i] # raced[i] =>
           /\ raced[i] = "none" /\ i \in S
           /\ raced'[i] = "error" \/ (raced'[i] = "incomplete" /\ late[i]),
         \A i \in Inputs : reply'[i] # reply[i] => i \in S
  PROVE  ReplyInv'
<1>1. Polls \cap Requests = {} /\ Inputs = Polls \cup Requests
  BY InputAssumption DEF Inputs
<1>2. \A i \in Inputs : at'[i] = "new" => reply'[i] = "none"
  BY DEF ReplyInv
<1>3. \A i \in Requests : at'[i] # "over" => reply'[i] = "none"
  BY <1>1 DEF ReplyInv
<1>4. ASSUME NEW i \in Polls
      PROVE  /\ at'[i] = "new" => raced'[i] = "none" /\ ~late'[i]
             /\ aborted'[i] => raced'[i] # "none" \/ at'[i] = "over"
             /\ at'[i] = "answered" => answer'[i] # "none"
             /\ raced'[i] = "complete" => answer'[i] = "complete" /\ at'[i] \in {"settled", "over"}
             /\ raced'[i] = "incomplete" =>
                  late'[i] \/ (answer'[i] = "partial" /\ at'[i] \in {"settled", "over"})
  <2>1. at'[i] = at[i] \/ (i \in S /\ at[i] = "queued" /\ at'[i] = "over")
    BY <1>1
  <2>2. \/ raced'[i] = raced[i]
        \/ /\ raced[i] = "none" /\ i \in S
           /\ raced'[i] = "error" \/ (raced'[i] = "incomplete" /\ late[i])
    OBVIOUS
  <2>3. /\ at[i] = "new" => raced[i] = "none" /\ ~late[i]
        /\ aborted[i] => raced[i] # "none" \/ at[i] = "over"
        /\ at[i] = "answered" => answer[i] # "none"
        /\ raced[i] = "complete" => answer[i] = "complete" /\ at[i] \in {"settled", "over"}
        /\ raced[i] = "incomplete" =>
             late[i] \/ (answer[i] = "partial" /\ at[i] \in {"settled", "over"})
    BY DEF ReplyInv
  <2>4. aborted'[i] => i \in S \/ aborted[i]
    OBVIOUS
  <2>5. i \in S => at[i] # "new" /\ raced'[i] # "none"
    OBVIOUS
  <2>6. answer'[i] = answer[i] /\ late'[i] = late[i]
    OBVIOUS
  <2> QED BY <2>1, <2>2, <2>3, <2>4, <2>5, <2>6
<1> QED BY <1>2, <1>3, <1>4 DEF ReplyInv

(* Slots change hands: the queued that lose their place are settled.       *)
LEMMA DrainTrue ==
  ASSUME TypeOK, ReplyInv, UNCHANGED <<answer, aborted, late, reply>>,
         \A i \in Inputs : at'[i] # at[i] =>
           /\ i \in Polls /\ at[i] \in {"new", "queued", "settled"}
           /\ at'[i] \in {"queued", "starting", "over"}
           /\ at[i] = "settled" => at'[i] = "over",
         \A i \in Polls : raced'[i] # raced[i] =>
           raced[i] = "none" /\ raced'[i] = "error" /\ at'[i] # "new"
  PROVE  ReplyInv' /\ TrueReplies
<1>1. Polls \cap Requests = {} /\ Inputs = Polls \cup Requests
  BY InputAssumption DEF Inputs
<1>2. \A i \in Inputs : at'[i] = "new" => reply'[i] = "none"
  BY DEF ReplyInv
<1>3. \A i \in Requests : at'[i] # "over" => reply'[i] = "none"
  BY <1>1 DEF ReplyInv
<1>4. ASSUME NEW i \in Polls
      PROVE  /\ at'[i] = "new" => raced'[i] = "none" /\ ~late'[i]
             /\ aborted'[i] => raced'[i] # "none" \/ at'[i] = "over"
             /\ at'[i] = "answered" => answer'[i] # "none"
             /\ raced'[i] = "complete" => answer'[i] = "complete" /\ at'[i] \in {"settled", "over"}
             /\ raced'[i] = "incomplete" =>
                  late'[i] \/ (answer'[i] = "partial" /\ at'[i] \in {"settled", "over"})
  <2>1. /\ at[i] = "new" => raced[i] = "none" /\ ~late[i]
        /\ aborted[i] => raced[i] # "none" \/ at[i] = "over"
        /\ at[i] = "answered" => answer[i] # "none"
        /\ raced[i] = "complete" => answer[i] = "complete" /\ at[i] \in {"settled", "over"}
        /\ raced[i] = "incomplete" =>
             late[i] \/ (answer[i] = "partial" /\ at[i] \in {"settled", "over"})
    BY DEF ReplyInv
  <2>2. raced'[i] # raced[i] => raced[i] = "none" /\ raced'[i] = "error" /\ at'[i] # "new"
    OBVIOUS
  <2>3. at'[i] # at[i] => /\ at[i] \in {"new", "queued", "settled"}
                          /\ at'[i] \in {"queued", "starting", "over"}
                          /\ at[i] = "settled" => at'[i] = "over"
    BY <1>1
  <2>4. answer'[i] = answer[i] /\ late'[i] = late[i] /\ aborted'[i] = aborted[i]
    OBVIOUS
  <2> QED BY <2>1, <2>2, <2>3, <2>4
<1> QED BY <1>2, <1>3, <1>4 DEF ReplyInv, TrueReplies

------------------------------------------------------------------------------
(* The steps.                                                              *)

(* The work of one input ends, or goes on at another await.                *)
LEMMA WorkEnds ==
  ASSUME PollInv, NEW S \in SUBSET Inputs,
         NEW v \in {"complete", "incomplete", "error"}, Ends(S, v),
         UNCHANGED <<settings, gone, queue, active, answer, aborted, late>>,
         token' \in BOOLEAN, flight' \in BOOLEAN,
         \A i \in S : at[i] # "over" /\ (i \in Polls => at[i] \in Running),
         v = "complete" => \A i \in Polls : i \in S => answer[i] = "complete",
         v = "incomplete" => \A i \in Polls : i \in S =>
           aborted[i] \/ late[i] \/ answer[i] = "partial"
  PROVE  PollInv' /\ TrueReplies
<1>1. UNCHANGED <<maxQueued, closed, gone, queue, active, answer, aborted, late>>
  BY DEF settings
<1>2. /\ at' \in [Inputs -> Places]
      /\ raced' \in [Polls -> {"none", "complete", "incomplete", "error"}]
      /\ reply' \in [Inputs -> {"none", "sent", "timedout", "error"}]
      /\ \A i \in Inputs \ S : at'[i] = at[i]
      /\ \A i \in Polls : i \in S => at'[i] = "settled"
  BY EndsIs DEF PollInv
<1>3. TypeOK'
  BY <1>1, <1>2 DEF PollInv, TypeOK, Places
<1>4. \A i \in Polls : /\ at'[i] \in Running <=> at[i] \in Running
                       /\ at'[i] = "queued" <=> at[i] = "queued"
  <2> SUFFICES ASSUME NEW i \in Polls
               PROVE  /\ at'[i] \in Running <=> at[i] \in Running
                      /\ at'[i] = "queued" <=> at[i] = "queued"
    OBVIOUS
  <2>1. CASE i \in S
    BY <2>1, <1>2 DEF Running, Abortable
  <2>2. CASE i \notin S
    BY <2>2, <1>2 DEF Inputs
  <2> QED BY <2>1, <2>2
<1>5. SlotInv' /\ QueueInv'
  BY <1>1, <1>4, SlotsKept DEF PollInv
<1>6. ReplyInv' /\ TrueReplies
  BY <1>1, EndsTrue DEF PollInv
<1> QED BY <1>3, <1>5, <1>6 DEF PollInv

(* The work of some inputs goes on at another await.                       *)
LEMMA WorkMoves ==
  ASSUME PollInv,
         UNCHANGED <<settings, gone, queue, active, raced, aborted, late, reply>>,
         token' \in BOOLEAN, flight' \in BOOLEAN,
         answer' \in [Polls -> {"none", "complete", "partial"}],
         at' \in [Inputs -> Places],
         \A i \in Inputs : at'[i] # at[i] =>
           /\ at[i] \notin {"settled", "over"} /\ at'[i] # "new"
           /\ i \in Polls => at[i] \in Running /\ at'[i] \in Running,
         \A i \in Polls : answer'[i] # answer[i] => at[i] \notin {"settled", "over"},
         \A i \in Polls : at'[i] = "answered" => answer'[i] # "none"
  PROVE  PollInv' /\ TrueReplies
<1>1. UNCHANGED <<maxQueued, closed, gone, queue, active, raced, aborted, late, reply>>
  BY DEF settings
<1>2. TypeOK'
  BY <1>1 DEF PollInv, TypeOK, Places
<1>3. \A i \in Polls : /\ at'[i] \in Running <=> at[i] \in Running
                       /\ at'[i] = "queued" <=> at[i] = "queued"
  BY DEF Running, Abortable, Inputs
<1>4. SlotInv' /\ QueueInv'
  BY <1>1, <1>3, SlotsKept DEF PollInv
<1>5. ReplyInv' /\ TrueReplies
  BY <1>1, MovesTrue DEF PollInv
<1> QED BY <1>2, <1>4, <1>5 DEF PollInv

(* The head of the loop of a poll whose work goes on.                      *)
LEMMA AttemptStep ==
  ASSUME PollInv, NEW i \in Polls, at[i] \in {"starting", "waiting"},
         Attempt(i) \/ (Ends({i}, "error") /\ UNCHANGED flight),
         UNCHANGED <<settings, gone, token, queue, active, answer, aborted, late>>
  PROVE  PollInv' /\ TrueReplies
<1>1. i \in Inputs /\ {i} \in SUBSET Inputs /\ i \notin Requests
  BY InputAssumption DEF Inputs
<1>2. TypeOK /\ token' \in BOOLEAN /\ flight' \in BOOLEAN
  BY AttemptIs DEF PollInv, TypeOK
<1>3. at[i] # "over" /\ at[i] \in Running /\ at[i] \notin {"settled", "new"}
  BY DEF Running, Abortable
<1>4. CASE Ends({i}, "error")
  BY <1>1, <1>2, <1>3, <1>4, WorkEnds
<1>5. CASE Ends({i}, "incomplete") /\ (aborted[i] \/ late[i])
  BY <1>1, <1>2, <1>3, <1>5, WorkEnds
<1>6. CASE /\ \E p \in {"fetch", "token"} : at' = [at EXCEPT ![i] = p]
           /\ UNCHANGED <<raced, reply>>
  <2>1. PICK p \in {"fetch", "token"} : at' = [at EXCEPT ![i] = p]
    BY <1>6
  <2>2. p \in Running /\ p \notin {"new", "answered"}
    BY DEF Running, Abortable
  <2>3. /\ at' \in [Inputs -> Places]
        /\ \A k \in Inputs : at'[k] = IF k = i THEN p ELSE at[k]
    BY <2>1, <2>2, <1>1, <1>2 DEF TypeOK, Places
  <2>4. \A k \in Polls : at'[k] = "answered" => answer'[k] # "none"
    BY <2>2, <2>3 DEF PollInv, ReplyInv, Inputs
  <2>5. answer' \in [Polls -> {"none", "complete", "partial"}] /\ answer' = answer
    BY <1>2 DEF TypeOK
  <2> QED BY <1>2, <1>3, <1>6, <2>2, <2>3, <2>4, <2>5, WorkMoves
<1> QED BY <1>2, <1>4, <1>5, <1>6, AttemptIs

(* An input of a request node.                                             *)
LEMMA SendRequestStep ==
  ASSUME PollInv, NEW i \in Requests, SendRequest(i)
  PROVE  PollInv' /\ TrueReplies
<1>1. i \in Inputs /\ {i} \in SUBSET Inputs /\ i \notin Polls
  BY InputAssumption DEF Inputs
<1>2. /\ at[i] = "new" /\ TypeOK
      /\ UNCHANGED <<settings, gone, token, queue, active, answer, aborted, late>>
  BY DEF SendRequest, PollInv
<1>3. token' \in BOOLEAN /\ flight' \in BOOLEAN
  BY <1>1, <1>2, RequestIs DEF SendRequest, TypeOK
<1>4. CASE Ends({i}, "error")
  BY <1>1, <1>2, <1>3, <1>4, WorkEnds
<1>5. CASE /\ \E p \in {"fetch", "token"} : at' = [at EXCEPT ![i] = p]
           /\ UNCHANGED <<raced, reply>>
  <2>1. PICK p \in {"fetch", "token"} : at' = [at EXCEPT ![i] = p]
    BY <1>5
  <2>2. p \in Running /\ p \notin {"new", "answered"}
    BY DEF Running, Abortable
  <2>3. /\ at' \in [Inputs -> Places]
        /\ \A k \in Inputs : at'[k] = IF k = i THEN p ELSE at[k]
    BY <2>1, <2>2, <1>1, <1>2 DEF TypeOK, Places
  <2>4. \A k \in Polls : at'[k] = "answered" => answer'[k] # "none"
    BY <1>1, <1>2, <2>2, <2>3 DEF PollInv, ReplyInv, Inputs
  <2>5. answer' \in [Polls -> {"none", "complete", "partial"}] /\ answer' = answer
    BY <1>2 DEF TypeOK
  <2> QED BY <1>1, <1>2, <1>3, <1>5, <2>2, <2>3, <2>4, <2>5, WorkMoves
<1> QED BY <1>1, <1>2, <1>4, <1>5, RequestIs DEF SendRequest

(* The token request ends for everybody who awaits it.                     *)
LEMMA TokenStep ==
  ASSUME PollInv, TokenEnds
  PROVE  PollInv' /\ TrueReplies
<1>1. UNCHANGED <<settings, gone, queue, active, answer, aborted, late>> /\ TypeOK
  BY DEF TokenEnds, PollInv
<1>2. flight' \in BOOLEAN /\ token' \in BOOLEAN
  BY <1>1 DEF TokenEnds, TypeOK
<1>3. /\ Waiters \in SUBSET Inputs
      /\ \A i \in Waiters : at[i] \in {"token", "retoken"}
  BY DEF Waiters
<1>4. \A i \in Waiters : at[i] \notin {"over", "settled", "new"} /\ at[i] \in Running
  BY <1>3 DEF Running, Abortable
<1>5. CASE Ends(Waiters, "error")
  BY <1>1, <1>2, <1>3, <1>4, <1>5, WorkEnds
<1>6. CASE /\ at' = [i \in Inputs |-> IF i \notin Waiters THEN at[i]
                                      ELSE IF at[i] = "token" THEN "fetch" ELSE "refetch"]
           /\ UNCHANGED <<raced, reply>>
  <2>1. \A i \in Inputs : at'[i] # at[i] => i \in Waiters /\ at'[i] \in {"fetch", "refetch"}
    BY <1>6
  <2>2. at' \in [Inputs -> Places]
    BY <1>1, <1>6 DEF TypeOK, Places, Running, Abortable
  <2>3. \A i \in Inputs : at'[i] # at[i] =>
          /\ at[i] \notin {"settled", "over"} /\ at'[i] # "new"
          /\ i \in Polls => at[i] \in Running /\ at'[i] \in Running
    BY <1>4, <2>1 DEF Running, Abortable
  <2>4. \A i \in Polls : at'[i] = "answered" => answer'[i] # "none"
    BY <1>1, <2>1 DEF PollInv, ReplyInv, Inputs
  <2>5. answer' \in [Polls -> {"none", "complete", "partial"}] /\ answer' = answer
    BY <1>1 DEF TypeOK
  <2> QED BY <1>1, <1>2, <1>6, <2>2, <2>3, <2>4, <2>5, WorkMoves
<1> QED BY <1>5, <1>6 DEF TokenEnds

(* The call of an input answers or fails.                                  *)
LEMMA FetchStep ==
  ASSUME PollInv, NEW i \in Inputs, Work(i)
  PROVE  PollInv' /\ TrueReplies
<1>1. /\ at[i] \in {"fetch", "refetch"} /\ TypeOK /\ {i} \in SUBSET Inputs
      /\ UNCHANGED <<settings, gone, token, queue, active, aborted, late>>
  BY DEF Work, FetchAnswers, FetchFails, PollInv
<1>2. token' \in BOOLEAN /\ flight' \in BOOLEAN
  BY <1>1 DEF Work, FetchAnswers, FetchFails, TypeOK
<1>3. at[i] \notin {"over", "settled", "new", "answered"} /\ at[i] \in Running
  BY <1>1 DEF Running, Abortable
<1>4. CASE FetchFails(i)
  BY <1>1, <1>2, <1>3, <1>4, WorkEnds DEF FetchFails
<1>5. CASE /\ \E p \in {"answered", "retoken"} :
                /\ at' = [at EXCEPT ![i] = p]
                /\ p = "answered" =>
                     /\ i \in Polls
                     /\ \E a \in {"complete", "partial"} : answer' = [answer EXCEPT ![i] = a]
                /\ p = "retoken" => UNCHANGED answer
           /\ UNCHANGED <<raced, reply>>
  <2>1. PICK p \in {"answered", "retoken"} :
          /\ at' = [at EXCEPT ![i] = p]
          /\ p = "answered" =>
               /\ i \in Polls
               /\ \E a \in {"complete", "partial"} : answer' = [answer EXCEPT ![i] = a]
          /\ p = "retoken" => UNCHANGED answer
    BY <1>5
  <2>2. p \in Running /\ p # "new"
    BY DEF Running, Abortable
  <2>3. /\ at' \in [Inputs -> Places]
        /\ \A k \in Inputs : at'[k] = IF k = i THEN p ELSE at[k]
    BY <1>1, <2>1, <2>2 DEF TypeOK, Places
  <2>4. /\ answer' \in [Polls -> {"none", "complete", "partial"}]
        /\ \A k \in Polls : k # i => answer'[k] = answer[k]
        /\ p = "answered" => i \in Polls /\ answer'[i] # "none"
    <3>1. answer \in [Polls -> {"none", "complete", "partial"}]
      BY <1>1 DEF TypeOK
    <3>2. CASE p = "retoken"
      BY <2>1, <3>1, <3>2
    <3>3. CASE p = "answered"
      <4>1. PICK a \in {"complete", "partial"} : answer' = [answer EXCEPT ![i] = a]
        BY <2>1, <3>3
      <4> QED BY <2>1, <3>1, <3>3, <4>1
    <3> QED BY <3>2, <3>3
  <2>5. \A k \in Polls : at'[k] = "answered" => answer'[k] # "none"
    BY <2>3, <2>4 DEF PollInv, ReplyInv, Inputs
  <2> QED BY <1>1, <1>2, <1>3, <1>5, <2>2, <2>3, <2>4, <2>5, WorkMoves
<1>6. CASE /\ i \notin Polls
           /\ at' = [at EXCEPT ![i] = "over"]
           /\ reply' = [reply EXCEPT ![i] = "sent"]
           /\ UNCHANGED <<answer, raced>>
  <2>1. UNCHANGED <<maxQueued, closed, gone, queue, active, answer, raced, aborted, late>>
    BY <1>1, <1>6 DEF settings
  <2>2. /\ at' \in [Inputs -> Places] /\ reply' \in [Inputs -> {"none", "sent", "timedout", "error"}]
        /\ \A k \in Inputs : k # i => at'[k] = at[k] /\ reply'[k] = reply[k]
        /\ at'[i] = "over"
    BY <1>1, <1>6 DEF TypeOK, Places
  <2>3. TypeOK'
    BY <1>1, <1>2, <2>1, <2>2 DEF TypeOK, Places
  <2>4. \A k \in Polls : at'[k] = at[k] /\ k # i
    BY <1>6, <2>2 DEF Inputs
  <2>5. SlotInv' /\ QueueInv'
    BY <2>1, <2>4, SlotsKept DEF PollInv
  <2>6. i \in Requests /\ reply[i] = "none"
    BY <1>3, <1>6 DEF PollInv, ReplyInv, Inputs
  <2>7. TrueReplies
    BY <1>6, <2>2, <2>6 DEF TrueReplies
  <2>8. ReplyInv'
    <3>1. \A k \in Inputs : at'[k] = "new" => reply'[k] = "none"
      BY <2>2 DEF PollInv, ReplyInv
    <3>2. \A k \in Requests : at'[k] # "over" => reply'[k] = "none"
      BY <2>2 DEF PollInv, ReplyInv, Inputs
    <3> QED BY <2>1, <2>4, <3>1, <3>2 DEF PollInv, ReplyInv
  <2> QED BY <2>3, <2>5, <2>7, <2>8 DEF PollInv
<1>7. FetchAnswers(i) => \/ /\ \E p \in {"answered", "retoken"} :
                                 /\ at' = [at EXCEPT ![i] = p]
                                 /\ p = "answered" =>
                                      /\ i \in Polls
                                      /\ \E a \in {"complete", "partial"} :
                                           answer' = [answer EXCEPT ![i] = a]
                                 /\ p = "retoken" => UNCHANGED answer
                            /\ UNCHANGED <<raced, reply>>
                         \/ /\ i \notin Polls
                            /\ at' = [at EXCEPT ![i] = "over"]
                            /\ reply' = [reply EXCEPT ![i] = "sent"]
                            /\ UNCHANGED <<answer, raced>>
  BY DEF FetchAnswers
<1> QED BY <1>4, <1>5, <1>6, <1>7 DEF Work

(* A response is examined: it ends the work, or the interval begins.       *)
LEMMA ExamineStep ==
  ASSUME PollInv, NEW i \in Polls, Examine(i)
  PROVE  PollInv' /\ TrueReplies
<1>1. /\ at[i] = "answered" /\ TypeOK /\ i \in Inputs /\ {i} \in SUBSET Inputs
      /\ UNCHANGED <<settings, gone, token, flight, queue, active, answer, aborted, late>>
  BY DEF Examine, PollInv, Inputs
<1>2. token' \in BOOLEAN /\ flight' \in BOOLEAN
  BY <1>1 DEF TypeOK
<1>3. at[i] \notin {"over", "settled", "new"} /\ at[i] \in Running
  BY <1>1 DEF Running, Abortable
<1>4. answer[i] \in {"complete", "partial"}
  BY <1>1 DEF PollInv, ReplyInv, TypeOK
<1>5. CASE Ends({i}, "error")
  BY <1>1, <1>2, <1>3, <1>5, WorkEnds
<1>6. CASE Ends({i}, "incomplete") /\ (aborted[i] \/ late[i] \/ answer[i] = "partial")
  BY <1>1, <1>2, <1>3, <1>6, WorkEnds
<1>7. CASE Ends({i}, "complete") /\ answer[i] = "complete"
  BY <1>1, <1>2, <1>3, <1>7, WorkEnds
<1>8. CASE at' = [at EXCEPT ![i] = "waiting"] /\ UNCHANGED <<raced, reply>>
  <2>1. "waiting" \in Running /\ "waiting" \notin {"new", "answered"}
    BY DEF Running, Abortable
  <2>2. /\ at' \in [Inputs -> Places]
        /\ \A k \in Inputs : at'[k] = IF k = i THEN "waiting" ELSE at[k]
    BY <1>1, <1>8, <2>1 DEF TypeOK, Places
  <2>3. \A k \in Polls : at'[k] = "answered" => answer'[k] # "none"
    BY <1>1, <2>2 DEF PollInv, ReplyInv, Inputs
  <2>4. answer' \in [Polls -> {"none", "complete", "partial"}] /\ answer' = answer
    BY <1>1 DEF TypeOK
  <2> QED BY <1>1, <1>2, <1>3, <1>8, <2>1, <2>2, <2>3, <2>4, WorkMoves
<1> QED BY <1>4, <1>5, <1>6, <1>7, <1>8 DEF Examine

(* A slot that is released goes to the next in the queue.                  *)
LEMMA ReleaseStep ==
  ASSUME PollInv, NEW i \in Polls, Release(i)
  PROVE  PollInv' /\ TrueReplies
<1> DEFINE n  == active - 1
           st == [at EXCEPT ![i] = "over"]
<1>1. /\ at[i] = "settled" /\ TypeOK /\ i \in Inputs
      /\ Drain(queue, n, st)
      /\ UNCHANGED <<maxQueued, closed, gone, token, flight, answer, aborted, late, reply>>
  BY DEF Release, PollInv, Inputs, settings
<1>2. /\ st \in [Inputs -> Places]
      /\ \A k \in Inputs : st[k] = IF k = i THEN "over" ELSE at[k]
  BY <1>1 DEF TypeOK, Places
<1>3. i \in AtWork /\ {k \in Polls : st[k] \in Running} = AtWork \ {i}
  BY <1>1, <1>2 DEF AtWork, Running, Abortable, Inputs
<1>4. /\ IsFiniteSet(AtWork \ {i}) /\ Cardinality(AtWork \ {i}) = n
      /\ n \in Nat /\ n <= MaxConcurrent
  <2>1. /\ IsFiniteSet(AtWork \ {i}) /\ Cardinality(AtWork \ {i}) = Cardinality(AtWork) - 1
        /\ active = Cardinality(AtWork) /\ active <= MaxConcurrent
    BY <1>3, FS_RemoveElement DEF PollInv, SlotInv
  <2>2. Cardinality(AtWork) \in Nat /\ Cardinality(AtWork \ {i}) \in Nat
    BY <2>1, FS_CardinalityType DEF PollInv, SlotInv
  <2> QED BY <2>1, <2>2, LimitAssumption
<1>5. /\ queue \in Seq(Polls) /\ NoRepeat(queue) /\ Len(queue) <= maxQueued
      /\ Elements(queue) = {k \in Polls : at[k] = "queued"}
  BY <1>1 DEF PollInv, QueueInv, TypeOK
<1>6. {k \in Polls : st[k] = "queued"} = {k \in Polls : at[k] = "queued"}
  BY <1>1, <1>2 DEF Inputs
<1> HIDE DEF n, st
<1>7. /\ SlotInv' /\ QueueInv'
      /\ queue' \in Seq(Polls) /\ active' \in Nat /\ at' \in [Inputs -> Places]
      /\ raced' \in [Polls -> {"none", "complete", "incomplete", "error"}]
      /\ \A k \in Inputs : at'[k] # st[k] =>
           st[k] = "queued" /\ k \in Polls /\ at'[k] \in {"starting", "over"}
      /\ \A k \in Polls : raced'[k] # raced[k] =>
           raced[k] = "none" /\ raced'[k] = "error" /\ st[k] = "queued"
  BY <1>1, <1>2, <1>3, <1>4, <1>5, <1>6, DrainKeeps
<1>8. TypeOK'
  BY <1>1, <1>7 DEF TypeOK, Places
<1>9. \A k \in Inputs : at'[k] # at[k] =>
        /\ k \in Polls /\ at[k] \in {"new", "queued", "settled"}
        /\ at'[k] \in {"queued", "starting", "over"}
        /\ at[k] = "settled" => at'[k] = "over"
  BY <1>1, <1>2, <1>7
<1>10. \A k \in Polls : raced'[k] # raced[k] =>
         raced[k] = "none" /\ raced'[k] = "error" /\ at'[k] # "new"
  BY <1>2, <1>7 DEF Inputs
<1>11. ReplyInv' /\ TrueReplies
  BY <1>1, <1>9, <1>10, DrainTrue DEF PollInv
<1> QED BY <1>7, <1>8, <1>11 DEF PollInv

(* An input of a poll node is refused, or gets a slot or a place.          *)
LEMMA PollStarts ==
  ASSUME PollInv, NEW i \in Polls, Poll(i)
  PROVE  PollInv' /\ TrueReplies
<1>1. /\ at[i] = "new" /\ TypeOK /\ i \in Inputs /\ i \notin Requests
      /\ UNCHANGED <<maxQueued, closed, gone, token, flight, answer, late>>
  BY InputAssumption DEF Poll, PollInv, Inputs, settings
<1>2. reply[i] = "none" /\ raced[i] = "none" /\ ~late[i] /\ i \notin AtWork
  BY <1>1 DEF PollInv, ReplyInv, AtWork, Running, Abortable
<1>3. /\ queue \in Seq(Polls) /\ NoRepeat(queue) /\ Len(queue) <= maxQueued
      /\ Elements(queue) = {k \in Polls : at[k] = "queued"}
      /\ Len(queue) \in Nat /\ maxQueued \in Nat
  BY <1>1, LenProperties, LimitAssumption DEF PollInv, QueueInv, TypeOK
<1>4. CASE /\ at' = [at EXCEPT ![i] = "over"]
           /\ UNCHANGED <<queue, active>>
           /\ \/ reply' = [reply EXCEPT ![i] = "error"] /\ UNCHANGED raced
                                                       /\ aborted' = [aborted EXCEPT ![i] = TRUE]
              \/ raced' = [raced EXCEPT ![i] = "error"] /\ UNCHANGED <<aborted, reply>>
  <2>1. /\ at' \in [Inputs -> Places] /\ at'[i] = "over"
        /\ \A k \in Inputs : k # i => at'[k] = at[k]
    BY <1>1, <1>4 DEF TypeOK, Places
  <2>2. /\ reply' \in [Inputs -> {"none", "sent", "timedout", "error"}]
        /\ raced' \in [Polls -> {"none", "complete", "incomplete", "error"}]
        /\ aborted' \in [Polls -> BOOLEAN]
        /\ \A k \in Inputs : k # i => reply'[k] = reply[k]
        /\ reply'[i] = reply[i] \/ reply'[i] = "error"
        /\ \A k \in Polls : k # i => raced'[k] = raced[k] /\ aborted'[k] = aborted[k]
        /\ raced'[i] \in {"none", "error"}
    BY <1>1, <1>2, <1>4 DEF TypeOK
  <2>3. TypeOK'
    BY <1>1, <1>4, <2>1, <2>2 DEF TypeOK, Places
  <2>4. \A k \in Polls : /\ at'[k] \in Running <=> at[k] \in Running
                         /\ at'[k] = "queued" <=> at[k] = "queued"
    BY <1>1, <2>1 DEF Running, Abortable, Inputs
  <2>5. SlotInv' /\ QueueInv'
    BY <1>1, <1>4, <2>4, SlotsKept DEF PollInv
  <2>6. TrueReplies
    BY <1>2, <2>2 DEF TrueReplies
  <2>7. ReplyInv'
    <3>1. \A k \in Inputs : at'[k] = "new" => reply'[k] = "none"
      BY <2>1, <2>2 DEF PollInv, ReplyInv
    <3>2. \A k \in Requests : at'[k] # "over" => reply'[k] = "none"
      BY <1>1, <2>1, <2>2 DEF PollInv, ReplyInv, Inputs
    <3>3. \A k \in Polls : k # i => at'[k] = at[k]
      BY <2>1 DEF Inputs
    <3> QED BY <1>1, <2>1, <2>2, <3>1, <3>2, <3>3 DEF PollInv, ReplyInv
  <2> QED BY <2>3, <2>5, <2>6, <2>7 DEF PollInv
<1>5. CASE /\ ~closed /\ ~Full /\ UNCHANGED <<aborted, reply>>
           /\ Drain(Append(queue, i), active, [at EXCEPT ![i] = "queued"])
  <2> DEFINE q  == Append(queue, i)
             st == [at EXCEPT ![i] = "queued"]
  <2>1. /\ q \in Seq(Polls) /\ Len(q) = Len(queue) + 1 /\ NoRepeat(q)
        /\ Elements(q) = Elements(queue) \cup {i}
    <3>1. i \notin Elements(queue)
      BY <1>1, <1>3
    <3> QED BY <1>3, <3>1, AppendFacts
  <2>2. /\ st \in [Inputs -> Places]
        /\ \A k \in Inputs : st[k] = IF k = i THEN "queued" ELSE at[k]
    BY <1>1 DEF TypeOK, Places
  <2>3. {k \in Polls : st[k] \in Running} = AtWork
    BY <1>1, <2>2 DEF AtWork, Running, Abortable, Inputs
  <2>4. Elements(q) = {k \in Polls : st[k] = "queued"}
    BY <1>3, <2>1, <2>2 DEF Inputs
  <2>5. /\ IsFiniteSet(AtWork) /\ active = Cardinality(AtWork)
        /\ active \in Nat /\ active <= MaxConcurrent
    BY FS_CardinalityType DEF PollInv, SlotInv
  <2>6. Len(q) <= maxQueued \/ (Len(q) = 1 /\ active < MaxConcurrent)
    <3>1. CASE active < MaxConcurrent
      <4>1. queue = <<>>
        BY <3>1, <2>5 DEF PollInv, SlotInv
      <4>2. Len(queue) = 0
        BY <4>1, EmptySeq
      <4> QED BY <3>1, <4>2, <2>1
    <3>2. CASE ~(active < MaxConcurrent)
      <4>1. MaxConcurrent \in Nat
        BY LimitAssumption
      <4>2. ~(Len(queue) >= maxQueued)
        BY <1>5, <2>5, <3>2, <4>1 DEF Full
      <4> QED BY <4>2, <2>1, <1>3
    <3> QED BY <3>1, <3>2
  <2> HIDE DEF q, st
  <2>7. Drain(q, active, st) /\ UNCHANGED <<maxQueued, closed>>
    BY <1>1, <1>5 DEF q, st
  <2>13. /\ TypeOK
         /\ q \in Seq(Polls) /\ NoRepeat(q) /\ active \in Nat /\ active <= MaxConcurrent
         /\ st \in [Inputs -> Places]
         /\ IsFiniteSet({k \in Polls : st[k] \in Running})
         /\ active = Cardinality({k \in Polls : st[k] \in Running})
         /\ Elements(q) = {k \in Polls : st[k] = "queued"}
         /\ Len(q) <= maxQueued \/ (Len(q) = 1 /\ active < MaxConcurrent)
    BY <1>1, <2>1, <2>2, <2>3, <2>4, <2>5, <2>6
  <2>8. /\ SlotInv' /\ QueueInv'
        /\ queue' \in Seq(Polls) /\ active' \in Nat /\ at' \in [Inputs -> Places]
        /\ raced' \in [Polls -> {"none", "complete", "incomplete", "error"}]
        /\ \A k \in Inputs : at'[k] # st[k] =>
             st[k] = "queued" /\ k \in Polls /\ at'[k] \in {"starting", "over"}
        /\ \A k \in Polls : raced'[k] # raced[k] =>
             raced[k] = "none" /\ raced'[k] = "error" /\ st[k] = "queued"
    BY <2>7, <2>13, DrainKeeps
  <2>9. TypeOK'
    BY <1>1, <1>5, <2>8 DEF TypeOK, Places
  <2>10. \A k \in Inputs : at'[k] # at[k] =>
           /\ k \in Polls /\ at[k] \in {"new", "queued", "settled"}
           /\ at'[k] \in {"queued", "starting", "over"}
           /\ at[k] = "settled" => at'[k] = "over"
    BY <1>1, <2>2, <2>8
  <2>11. \A k \in Polls : raced'[k] # raced[k] =>
           raced[k] = "none" /\ raced'[k] = "error" /\ at'[k] # "new"
    BY <2>2, <2>8 DEF Inputs
  <2>12. ReplyInv' /\ TrueReplies
    BY <1>1, <1>5, <2>10, <2>11, DrainTrue DEF PollInv
  <2> QED BY <2>8, <2>9, <2>12 DEF PollInv
<1> QED BY <1>4, <1>5 DEF Poll

(* The handler answers with the outcome of its race.                       *)
LEMMA AnswerStep ==
  ASSUME PollInv, NEW i \in Polls, Answer(i)
  PROVE  PollInv' /\ TrueReplies
<1>1. /\ raced[i] # "none" /\ reply[i] = "none" /\ TypeOK /\ i \in Inputs
      /\ reply' = [reply EXCEPT ![i] = Outcome(i)]
      /\ Abort({i}) /\ {i} \in SUBSET Polls
      /\ UNCHANGED <<maxQueued, closed, gone, token, flight, active, answer, raced, late>>
  BY DEF Answer, PollInv, Inputs, settings
<1>2. at[i] # "new"
  BY <1>1 DEF PollInv, ReplyInv
<1>3. /\ SlotInv' /\ QueueInv'
      /\ queue' \in Seq(Polls) /\ at' \in [Inputs -> Places]
      /\ aborted' \in [Polls -> BOOLEAN]
      /\ \A k \in Inputs : at'[k] # at[k] => k \in {i} /\ at[k] = "queued" /\ at'[k] = "over"
      /\ \A k \in Polls : aborted'[k] = (k \in {i} \/ aborted[k])
  BY <1>1, AbortKeeps DEF PollInv
<1>4. /\ Outcome(i) \in {"sent", "timedout", "error"}
      /\ Outcome(i) = "sent" => Open(i) /\ raced[i] = "complete"
      /\ Outcome(i) = "timedout" => Open(i) /\ raced[i] = "incomplete"
  <2>1. CASE Open(i) /\ raced[i] = "complete"
    <3>1. Outcome(i) = "sent"
      BY <2>1, Zenon DEF Outcome
    <3> QED BY <2>1, <3>1
  <2>2. CASE Open(i) /\ raced[i] = "incomplete"
    <3>1. ~(raced[i] = "complete")
      BY <2>2
    <3>2. Outcome(i) = "timedout"
      BY <2>2, <3>1, Zenon DEF Outcome
    <3> QED BY <2>2, <3>2
  <2>3. CASE ~(Open(i) /\ raced[i] = "complete") /\ ~(Open(i) /\ raced[i] = "incomplete")
    <3>1. Outcome(i) = "error"
      BY <2>3, Zenon DEF Outcome
    <3> QED BY <3>1
  <2> QED BY <2>1, <2>2, <2>3
<1>5. /\ reply' \in [Inputs -> {"none", "sent", "timedout", "error"}]
      /\ \A k \in Inputs : reply'[k] = IF k = i THEN Outcome(i) ELSE reply[k]
  BY <1>1, <1>4 DEF TypeOK
<1>6. TypeOK'
  BY <1>1, <1>3, <1>5 DEF TypeOK, Places
<1>7. TrueReplies
  BY <1>1, <1>4, <1>5 DEF TrueReplies, PollInv, ReplyInv
<1>8. ReplyInv'
  BY <1>1, <1>2, <1>3, <1>5, AbortTrue DEF PollInv
<1> QED BY <1>3, <1>6, <1>7, <1>8 DEF PollInv

(* Time: the deadline passes, or the expiration timer settles the race.    *)
LEMMA ClockStep ==
  ASSUME PollInv, NEW i \in Polls, Clock(i)
  PROVE  PollInv' /\ TrueReplies
<1>1. TypeOK /\ i \in Inputs /\ {i} \in SUBSET Polls
  BY DEF PollInv, Inputs
<1>2. CASE DeadlinePasses(i)
  <2>1. /\ at[i] # "new" /\ raced[i] = "none"
        /\ late' = [late EXCEPT ![i] = TRUE]
        /\ UNCHANGED <<maxQueued, closed, gone, token, flight, queue, active, at, answer,
                       raced, aborted, reply>>
    BY <1>2 DEF DeadlinePasses, settings
  <2>2. late' \in [Polls -> BOOLEAN] /\ \A k \in Polls : k # i => late'[k] = late[k]
    BY <1>1, <2>1 DEF TypeOK
  <2>3. TypeOK'
    BY <1>1, <2>1, <2>2 DEF TypeOK
  <2>4. SlotInv' /\ QueueInv'
    BY <2>1, SlotsKept DEF PollInv
  <2>5. ReplyInv' /\ TrueReplies
    BY <2>1, <2>2 DEF PollInv, ReplyInv, TrueReplies
  <2> QED BY <2>3, <2>4, <2>5 DEF PollInv
<1>3. CASE Expire(i)
  <2>1. /\ late[i] /\ raced' = Settle({i}, "incomplete") /\ Abort({i})
        /\ UNCHANGED <<maxQueued, closed, gone, token, flight, active, answer, late, reply>>
    BY <1>3 DEF Expire, settings
  <2>2. at[i] # "new"
    BY <2>1 DEF PollInv, ReplyInv
  <2>3. /\ SlotInv' /\ QueueInv'
        /\ queue' \in Seq(Polls) /\ at' \in [Inputs -> Places]
        /\ aborted' \in [Polls -> BOOLEAN]
        /\ \A k \in Inputs : at'[k] # at[k] => k \in {i} /\ at[k] = "queued" /\ at'[k] = "over"
        /\ \A k \in Polls : aborted'[k] = (k \in {i} \/ aborted[k])
    BY <1>1, <2>1, AbortKeeps DEF PollInv
  <2>4. /\ raced' \in [Polls -> {"none", "complete", "incomplete", "error"}]
        /\ \A k \in Polls : raced'[k] # raced[k] =>
             raced[k] = "none" /\ k \in {i} /\ raced'[k] = "incomplete" /\ late[k]
        /\ raced'[i] # "none"
    BY <1>1, <2>1 DEF Settle, TypeOK
  <2>5. TypeOK'
    BY <1>1, <2>1, <2>3, <2>4 DEF TypeOK, Places
  <2>6. ReplyInv'
    BY <1>1, <2>1, <2>2, <2>3, <2>4, AbortTrue DEF PollInv
  <2>7. TrueReplies
    BY <2>1 DEF TrueReplies
  <2> QED BY <2>3, <2>5, <2>6, <2>7 DEF PollInv
<1> QED BY <1>2, <1>3 DEF Clock

(* A poll node closes: its open polls are cancelled.                       *)
LEMMA CloseNodeStep ==
  ASSUME PollInv, NEW n \in PollNodes, CloseNode(n)
  PROVE  PollInv' /\ TrueReplies
<1> DEFINE S == {i \in Polls : NodeOf[i] = n /\ at[i] # "new" /\ reply[i] = "none"}
<1>1. /\ TypeOK /\ S \in SUBSET Polls
      /\ gone' = gone \cup {n} /\ raced' = Settle(S, "error") /\ Abort(S)
      /\ UNCHANGED <<maxQueued, closed, token, flight, active, answer, late, reply>>
  BY DEF CloseNode, PollInv, settings
<1>2. \A i \in S : at[i] # "new"
  OBVIOUS
<1> HIDE DEF S
<1>3. /\ SlotInv' /\ QueueInv'
      /\ queue' \in Seq(Polls) /\ at' \in [Inputs -> Places]
      /\ aborted' \in [Polls -> BOOLEAN]
      /\ \A k \in Inputs : at'[k] # at[k] => k \in S /\ at[k] = "queued" /\ at'[k] = "over"
      /\ \A k \in Polls : aborted'[k] = (k \in S \/ aborted[k])
  BY <1>1, AbortKeeps DEF PollInv
<1>4. /\ raced' \in [Polls -> {"none", "complete", "incomplete", "error"}]
      /\ \A k \in Polls : raced'[k] # raced[k] =>
           raced[k] = "none" /\ k \in S /\ raced'[k] = "error"
      /\ \A k \in S : raced'[k] # "none"
  BY <1>1 DEF Settle, TypeOK
<1>5. TypeOK'
  BY <1>1, <1>3, <1>4 DEF TypeOK, Places
<1>6. ReplyInv'
  BY <1>1, <1>2, <1>3, <1>4, AbortTrue DEF PollInv
<1>7. TrueReplies
  BY <1>1 DEF TrueReplies
<1> QED BY <1>3, <1>5, <1>6, <1>7 DEF PollInv

(* The ords-config node closes: the queue is rejected.                     *)
LEMMA CloseConfigStep ==
  ASSUME PollInv, CloseConfig
  PROVE  PollInv' /\ TrueReplies
<1> DEFINE W == Elements(queue)
<1>1. /\ TypeOK /\ closed' = TRUE /\ queue' = <<>>
      /\ raced' = Settle(W, "error") /\ at' = Put(at, W, "over")
      /\ UNCHANGED <<maxQueued, gone, token, flight, active, answer, aborted, late, reply>>
  BY DEF CloseConfig, PollInv, Elements
<1>2. W = {i \in Polls : at[i] = "queued"}
  BY DEF PollInv, QueueInv
<1> HIDE DEF W
<1>3. /\ at' \in [Inputs -> Places]
      /\ \A i \in Inputs : at'[i] = IF i \in W THEN "over" ELSE at[i]
  BY <1>1 DEF Put, TypeOK, Places
<1>4. /\ raced' \in [Polls -> {"none", "complete", "incomplete", "error"}]
      /\ \A i \in Polls : raced'[i] # raced[i] => raced[i] = "none" /\ raced'[i] = "error" /\ i \in W
  BY <1>1 DEF Settle, TypeOK
<1>5. queue' \in Seq(Polls) /\ Len(queue') = 0 /\ DOMAIN queue' = {}
  BY <1>1, EmptySeq, LenProperties
<1>6. TypeOK'
  BY <1>1, <1>3, <1>4, <1>5 DEF TypeOK, Places
<1>7. \A i \in Polls : /\ at'[i] \in Running <=> at[i] \in Running
                       /\ at'[i] # "queued"
  BY <1>2, <1>3 DEF Running, Abortable, Inputs
<1>8. SlotInv'
  <2>1. AtWork' = AtWork
    BY <1>7 DEF AtWork
  <2> QED BY <1>1, <2>1 DEF PollInv, SlotInv
<1>9. QueueInv'
  <2>1. maxQueued \in Nat
    BY <1>1, LimitAssumption DEF TypeOK
  <2> QED BY <1>1, <1>5, <1>7, <2>1 DEF QueueInv, NoRepeat, Elements
<1>10. \A k \in Inputs : at'[k] # at[k] =>
         /\ k \in Polls /\ at[k] \in {"new", "queued", "settled"}
         /\ at'[k] \in {"queued", "starting", "over"}
         /\ at[k] = "settled" => at'[k] = "over"
  BY <1>2, <1>3
<1>11. \A k \in Polls : raced'[k] # raced[k] =>
         raced[k] = "none" /\ raced'[k] = "error" /\ at'[k] # "new"
  BY <1>3, <1>4 DEF Inputs
<1>12. ReplyInv' /\ TrueReplies
  BY <1>1, <1>10, <1>11, DrainTrue DEF PollInv
<1> QED BY <1>6, <1>8, <1>9, <1>12 DEF PollInv

(* Every step keeps the invariant and answers truly.                       *)
LEMMA PollNext ==
  ASSUME PollInv, [Next]_vars
  PROVE  PollInv' /\ (TrueReplies \/ UNCHANGED vars)
<1>1. CASE TokenExpires
  <2>1. /\ token' = FALSE
        /\ UNCHANGED <<maxQueued, closed, gone, flight, queue, active, at, answer,
                       raced, aborted, late, reply>>
    BY <1>1 DEF TokenExpires, settings
  <2>2. TypeOK' /\ SlotInv' /\ QueueInv'
    BY <2>1, SlotsKept DEF PollInv, TypeOK
  <2>3. ReplyInv' /\ TrueReplies
    BY <2>1 DEF PollInv, ReplyInv, TrueReplies
  <2> QED BY <2>2, <2>3 DEF PollInv
<1>2. ASSUME NEW i \in Polls, PollStep(i) PROVE PollInv' /\ TrueReplies
  <2>1. CASE Start(i)
    <3>1. /\ at[i] = "starting"
          /\ Attempt(i) \/ (Ends({i}, "error") /\ UNCHANGED flight)
          /\ UNCHANGED <<settings, gone, token, queue, active, answer, aborted, late>>
      BY <2>1 DEF Start
    <3> QED BY <3>1, AttemptStep
  <2>2. CASE IntervalEnds(i)
    <3>1. /\ at[i] = "waiting" /\ Attempt(i)
          /\ UNCHANGED <<settings, gone, token, queue, active, answer, aborted, late>>
      BY <2>2 DEF IntervalEnds
    <3> QED BY <3>1, AttemptStep
  <2>3. CASE Cancelled(i)
    <3>1. /\ at[i] \in Abortable /\ Ends({i}, "error")
          /\ UNCHANGED <<settings, gone, token, flight, queue, active, answer, aborted, late>>
      BY <2>3 DEF Cancelled
    <3>2. {i} \in SUBSET Inputs /\ token' \in BOOLEAN /\ flight' \in BOOLEAN
      BY <3>1 DEF PollInv, TypeOK, Inputs
    <3>3. at[i] # "over" /\ at[i] \in Running
      BY <3>1 DEF Running, Abortable
    <3> QED BY <3>1, <3>2, <3>3, WorkEnds
  <2> QED BY <1>2, <2>1, <2>2, <2>3, ExamineStep, ReleaseStep, AnswerStep DEF PollStep
<1>3. CASE UNCHANGED vars
  <2>1. UNCHANGED <<maxQueued, closed, gone, token, flight, queue, active, at, answer,
                    raced, aborted, late, reply>>
    BY <1>3 DEF vars
  <2>2. TypeOK' /\ SlotInv' /\ QueueInv'
    BY <2>1, SlotsKept DEF PollInv, TypeOK
  <2>3. ReplyInv'
    BY <2>1 DEF PollInv, ReplyInv
  <2> QED BY <1>3, <2>2, <2>3 DEF PollInv
<1> QED BY <1>1, <1>2, <1>3, TokenStep, CloseConfigStep, CloseNodeStep, SendRequestStep,
           FetchStep, PollStarts, ClockStep DEF Next

(* The invariant holds at first.                                           *)
LEMMA PollInit ==
  ASSUME Init
  PROVE  PollInv
<1>1. queue = <<>> /\ queue \in Seq(Polls) /\ Len(queue) = 0 /\ DOMAIN queue = {}
  BY EmptySeq, LenProperties DEF Init
<1>2. /\ \A i \in Inputs : at[i] = "new" /\ reply[i] = "none"
      /\ \A i \in Polls : at[i] = "new"
      /\ \A i \in Polls : raced[i] = "none" /\ aborted[i] = FALSE /\ late[i] = FALSE
  BY DEF Init, Inputs
<1>3. TypeOK
  <2>1. maxQueued \in QueueSizes /\ active \in Int /\ gone \subseteq PollNodes
    BY DEF Init
  <2>4. closed \in BOOLEAN /\ token \in BOOLEAN /\ flight \in BOOLEAN
    BY Zenon DEF Init
  <2>2. /\ at \in [Inputs -> Running \cup {"new", "queued", "over"}]
        /\ answer \in [Polls -> {"none", "complete", "partial"}]
        /\ raced \in [Polls -> {"none", "complete", "incomplete", "error"}]
        /\ reply \in [Inputs -> {"none", "sent", "timedout", "error"}]
    BY DEF Init
  <2>3. aborted \in [Polls -> BOOLEAN] /\ late \in [Polls -> BOOLEAN]
    BY DEF Init
  <2> QED BY <1>1, <2>1, <2>2, <2>3, <2>4 DEF TypeOK
<1>4. SlotInv
  <2>1. AtWork = {}
    BY <1>2 DEF AtWork, Running, Abortable
  <2>2. IsFiniteSet(AtWork) /\ Cardinality(AtWork) = 0
    BY <2>1, FS_EmptySet
  <2> QED BY <1>1, <2>2, LimitAssumption DEF SlotInv, Init
<1>5. QueueInv
  <2>1. maxQueued \in Nat
    BY LimitAssumption DEF Init
  <2> QED BY <1>1, <1>2, <2>1 DEF QueueInv, NoRepeat, Elements
<1>6. ReplyInv
  BY <1>2 DEF ReplyInv, Inputs
<1> QED BY <1>3, <1>4, <1>5, <1>6 DEF PollInv

------------------------------------------------------------------------------
(* Theorems.                                                               *)

(* The slots, the queue and the outcomes of the polls agree in every       *)
(* reachable state (ords-config.js:510-581).                               *)
THEOREM PollInvariance == Spec => []PollInv
<1>1. PollInv /\ [Next]_vars => PollInv'
  BY PollNext
<1> QED BY PollInit, <1>1, PTL DEF Spec

(* No slot of the poll queue is lost or handed out twice, the limits hold, *)
(* and no poll waits while a slot is free (ords-config.js:516-569).        *)
THEOREM SlotsConserved == Spec => []SlotsAreConserved
<1>1. ASSUME PollInv PROVE SlotsAreConserved
  <2>1. queue \in Seq(Polls) /\ Len(queue) \in Nat /\ DOMAIN queue = 1 .. Len(queue)
    BY <1>1, LenProperties DEF PollInv, TypeOK
  <2>2. Cardinality(DOMAIN queue) = Cardinality({i \in Polls : at[i] = "queued"})
    <3>1. IsFiniteSet(First(queue, Len(queue))) /\ Cardinality(First(queue, Len(queue))) = Len(queue)
      BY <1>1, <2>1, CutFacts DEF PollInv, QueueInv
    <3>2. First(queue, Len(queue)) = {i \in Polls : at[i] = "queued"}
      BY <1>1, <2>1 DEF First, Elements, PollInv, QueueInv
    <3>3. Cardinality(1 .. Len(queue)) = Len(queue)
      <4> DEFINE l == Len(queue)
      <4>1. l \in Int /\ 1 \in Int /\ l >= 0
        BY <2>1
      <4> HIDE DEF l
      <4>2. Cardinality(1 .. l) = (IF 1 > l THEN 0 ELSE l - 1 + 1)
        BY <4>1, FS_Interval
      <4>3. Cardinality(1 .. l) = l
        BY <4>1, <4>2
      <4> QED BY <4>3 DEF l
    <3> QED BY <2>1, <3>1, <3>2, <3>3
  <2>3. {queue[x] : x \in DOMAIN queue} = {i \in Polls : at[i] = "queued"}
    BY <1>1 DEF PollInv, QueueInv, Elements
  <2> QED BY <1>1, <2>2, <2>3 DEF PollInv, SlotInv, QueueInv, AtWork, SlotsAreConserved
<1> QED BY <1>1, PollInvariance, PTL

(* Every input is answered once, and a poll is told as complete, timed out *)
(* or failed only when it was (oci-ords-poll.js:274-300).                  *)
THEOREM TrueRepliesOnly == Spec => RepliesAreTrue
<1>1. PollInv /\ [Next]_vars => [TrueReplies]_vars
  BY PollNext
<1>2. [TrueReplies]_vars <=>
      [\A i \in Inputs : reply'[i] # reply[i] =>
         /\ reply[i] = "none"
         /\ i \in Polls /\ reply'[i] # "error" =>
              /\ Open(i)
              /\ reply'[i] = "sent" => answer[i] = "complete"
              /\ reply'[i] = "timedout" => late[i] \/ answer[i] = "partial"]_vars
  BY DEF TrueReplies
<1> QED BY <1>1, <1>2, PollInvariance, PTL DEF Spec, RepliesAreTrue

------------------------------------------------------------------------------
(* IotSubscriptions.                                                       *)

(* The QoS the packets of w leave for a topic the broker has b for.        *)
LastQos(w, b, t) ==
  LET about == {i \in DOMAIN w : w[i].topic = t}
  IN  IF about = {} THEN b[t]
      ELSE w[CHOOSE i \in about : \A j \in about : j <= i].qos

(* Packet i is the last one of w about topic t.                            *)
Decides(w, t, i) ==
  /\ i \in DOMAIN w /\ w[i].topic = t
  /\ \A j \in DOMAIN w : w[j].topic = t => j <= i

(* No packet of w is about topic t.                                        *)
Silent(w, t) == \A i \in DOMAIN w : w[i].topic # t

(* A set of places that is not empty has a last one.                       *)
LEMMA LastPlace ==
  ASSUME NEW n \in Nat, NEW T \in SUBSET (1 .. n), T # {}
  PROVE  \E i \in T : \A j \in T : j <= i
<1> DEFINE M == {n - i : i \in T}
<1>0. \A i \in T : i \in Nat /\ i <= n /\ n - i \in Nat
  OBVIOUS
<1>1. M \subseteq Nat /\ M # {}
  <2>1. M \subseteq Nat
    BY <1>0
  <2>2. PICK i \in T : TRUE
    OBVIOUS
  <2>3. n - i \in M
    BY <2>2
  <2> QED BY <2>1, <2>3
<1>2. PICK m \in M : \A k \in M : ~(<<k, m>> \in OpToRel(<, Nat))
  BY <1>1, NatLessThanWellFounded, WFMin
<1>3. \A k \in M : ~(k < m)
  <2> SUFFICES ASSUME NEW k \in M PROVE ~(k < m)
    OBVIOUS
  <2>1. k \in Nat /\ m \in Nat
    BY <1>1
  <2>2. k < m => <<k, m>> \in OpToRel(<, Nat)
    BY <2>1, Zenon DEF OpToRel
  <2> QED BY <2>2, <1>2
<1>4. PICK i \in T : m = n - i
  OBVIOUS
<1>5. ASSUME NEW j \in T PROVE j <= i
  <2>1. ~(n - j < n - i) /\ i \in Int /\ j \in Int /\ n \in Int
    BY <1>3, <1>4
  <2> QED BY <2>1
<1> QED BY <1>5

(* Without a packet about the topic the session decides.                   *)
LEMMA SilentQos ==
  ASSUME NEW w, NEW b, NEW t, Silent(w, t)
  PROVE  LastQos(w, b, t) = b[t]
<1>1. {i \in DOMAIN w : w[i].topic = t} = {}
  BY DEF Silent
<1> QED BY <1>1 DEF LastQos

(* Else the last packet about it does.                                     *)
LEMMA DecidedQos ==
  ASSUME NEW w \in Seq(Packets), NEW b, NEW t, NEW i, Decides(w, t, i)
  PROVE  LastQos(w, b, t) = w[i].qos
<1> DEFINE about == {j \in DOMAIN w : w[j].topic = t}
           k == CHOOSE i_1 \in about : \A j \in about : j <= i_1
<1>1. DOMAIN w = 1 .. Len(w) /\ Len(w) \in Nat
  BY LenProperties
<1>2. i \in about /\ \A j \in about : j <= i
  BY DEF Decides
<1>3. LastQos(w, b, t) = w[k].qos
  BY <1>2 DEF LastQos
<1>4. k \in about /\ \A j \in about : j <= k
  BY <1>2
<1> HIDE DEF k
<1>5. k <= i /\ i <= k /\ k \in Int /\ i \in Int
  BY <1>1, <1>2, <1>4
<1>6. k = i
  BY <1>5
<1> QED BY <1>3, <1>6

(* One of the two is the case.                                             *)
LEMMA SilentOrDecided ==
  ASSUME NEW w \in Seq(Packets), NEW t
  PROVE  Silent(w, t) \/ \E i \in DOMAIN w : Decides(w, t, i)
<1> DEFINE about == {i \in DOMAIN w : w[i].topic = t}
<1>1. DOMAIN w = 1 .. Len(w) /\ Len(w) \in Nat
  BY LenProperties
<1>2. CASE about = {}
  BY <1>2 DEF Silent
<1>3. CASE about # {}
  <2>1. about \in SUBSET (1 .. Len(w))
    BY <1>1
  <2>2. \E i \in about : \A j \in about : j <= i
    <3> HIDE DEF about
    <3> QED BY <2>1, <1>1, <1>3, LastPlace
  <2> QED BY <2>2 DEF Decides
<1> QED BY <1>2, <1>3

(* Another packet decides for its topic and for no other.                  *)
LEMMA AppendGrants ==
  ASSUME NEW w \in Seq(Packets), NEW p \in Packets, NEW b, NEW t
  PROVE  LastQos(Append(w, p), b, t) = IF p.topic = t THEN p.qos ELSE LastQos(w, b, t)
<1> DEFINE r == Append(w, p)
<1>1. DOMAIN w = 1 .. Len(w) /\ Len(w) \in Nat
  BY LenProperties
<1>2. /\ r \in Seq(Packets) /\ Len(r) = Len(w) + 1
      /\ \A i \in 1 .. Len(w) : r[i] = w[i]
      /\ r[Len(w) + 1] = p
  BY AppendProperties
<1> HIDE DEF r
<1>3. DOMAIN r = 1 .. Len(w) + 1
  BY <1>2, LenProperties
<1>4. CASE p.topic = t
  <2>1. Decides(r, t, Len(w) + 1)
    BY <1>1, <1>2, <1>3, <1>4 DEF Decides
  <2>2. LastQos(r, b, t) = r[Len(w) + 1].qos
    BY <1>2, <2>1, DecidedQos
  <2> QED BY <2>2, <1>2, <1>4 DEF r
<1>5. CASE p.topic # t
  <2>1. \A i \in DOMAIN r : r[i].topic = t => i \in DOMAIN w /\ w[i].topic = t
    BY <1>1, <1>2, <1>3, <1>5
  <2>2. CASE Silent(w, t)
    <3>1. Silent(r, t)
      BY <2>1, <2>2 DEF Silent
    <3>2. LastQos(r, b, t) = b[t] /\ LastQos(w, b, t) = b[t]
      BY <2>2, <3>1, SilentQos
    <3> QED BY <3>2, <1>5 DEF r
  <2>3. CASE \E i \in DOMAIN w : Decides(w, t, i)
    <3>1. PICK i \in DOMAIN w : Decides(w, t, i)
      BY <2>3
    <3>2. LastQos(w, b, t) = w[i].qos
      BY <3>1, DecidedQos
    <3>3. i \in DOMAIN r /\ r[i] = w[i]
      BY <1>1, <1>2, <1>3
    <3>4. Decides(r, t, i)
      BY <3>1, <3>3, <2>1 DEF Decides
    <3>5. LastQos(r, b, t) = r[i].qos
      BY <3>4, <1>2, DecidedQos
    <3> QED BY <3>2, <3>3, <3>5, <1>5 DEF r
  <2> QED BY <2>2, <2>3, SilentOrDecided
<1> QED BY <1>4, <1>5

(* A packet that is taken leaves the outcome as it was.                    *)
LEMMA TakenGrants ==
  ASSUME NEW w \in Seq(Packets), w # <<>>, NEW b \in [Topics -> -1 .. 2], NEW t \in Topics
  PROVE  LastQos(Tail(w), [b EXCEPT ![Head(w).topic] = Head(w).qos], t) = LastQos(w, b, t)
<1> DEFINE r == Tail(w)
           p == Head(w)
           c == [b EXCEPT ![p.topic] = p.qos]
<1>1. DOMAIN w = 1 .. Len(w) /\ Len(w) \in Nat \ {0} /\ p = w[1]
  BY LenProperties, EmptySeq
<1>2. /\ r \in Seq(Packets) /\ Len(r) = Len(w) - 1
      /\ \A i \in 1 .. Len(r) : r[i] = w[i + 1]
  BY HeadTailProperties
<1>3. c[t] = IF p.topic = t THEN p.qos ELSE b[t]
  OBVIOUS
<1> HIDE DEF r, p, c
<1>4. DOMAIN r = 1 .. Len(w) - 1
  BY <1>2, LenProperties
<1>5. CASE Silent(r, t)
  <2>1. LastQos(r, c, t) = c[t]
    BY <1>5, SilentQos
  <2>2. ASSUME NEW i \in DOMAIN w, i # 1 PROVE w[i].topic # t
    <3>1. i - 1 \in DOMAIN r /\ (i - 1) + 1 = i
      BY <1>1, <1>4, <2>2
    <3>2. r[i - 1] = w[i]
      BY <3>1, <1>2, <1>4
    <3> QED BY <1>5, <3>1, <3>2 DEF Silent
  <2>3. CASE p.topic = t
    <3>1. Decides(w, t, 1)
      BY <1>1, <2>2, <2>3 DEF Decides
    <3>2. LastQos(w, b, t) = w[1].qos
      BY <3>1, DecidedQos
    <3> QED BY <2>1, <2>3, <3>2, <1>1, <1>3 DEF r, c, p
  <2>4. CASE p.topic # t
    <3>1. Silent(w, t)
      BY <1>1, <2>2, <2>4 DEF Silent
    <3>2. LastQos(w, b, t) = b[t]
      BY <3>1, SilentQos
    <3> QED BY <2>1, <2>4, <3>2, <1>3 DEF r, c, p
  <2> QED BY <2>3, <2>4
<1>6. CASE \E i \in DOMAIN r : Decides(r, t, i)
  <2>1. PICK i \in DOMAIN r : Decides(r, t, i)
    BY <1>6
  <2>2. LastQos(r, c, t) = r[i].qos
    BY <1>2, <2>1, DecidedQos
  <2>3. i + 1 \in DOMAIN w /\ r[i] = w[i + 1] /\ i \in Nat \ {0}
    BY <1>1, <1>2, <1>4
  <2>4. ASSUME NEW j \in DOMAIN w, w[j].topic = t PROVE j <= i + 1
    <3>1. CASE j = 1
      BY <3>1, <2>3
    <3>2. CASE j # 1
      <4>1. j - 1 \in DOMAIN r /\ (j - 1) + 1 = j /\ j \in Int
        BY <1>1, <1>4, <3>2
      <4>2. r[j - 1] = w[j]
        BY <4>1, <1>2, <1>4
      <4>3. j - 1 <= i
        BY <2>1, <2>4, <4>1, <4>2 DEF Decides
      <4> QED BY <4>1, <4>3, <2>3
    <3> QED BY <3>1, <3>2
  <2>5. w[i + 1].topic = t
    BY <2>1, <2>3 DEF Decides
  <2>6. Decides(w, t, i + 1)
    BY <2>3, <2>4, <2>5 DEF Decides
  <2>7. LastQos(w, b, t) = w[i + 1].qos
    BY <2>6, DecidedQos
  <2> QED BY <2>2, <2>3, <2>7 DEF r, c, p
<1>7. Silent(r, t) \/ \E i \in DOMAIN r : Decides(r, t, i)
  BY <1>2, SilentOrDecided
<1> QED BY <1>5, <1>6, <1>7

------------------------------------------------------------------------------
(* The topics of the table T have what their members T need, when the link *)
(* is up, and the others nothing, but for those of z.                      *)
Fits(l, w, b, T, z) ==
  \A t \in Topics :
    /\ l => \A s \in Members(t, T) : LastQos(w, b, t) >= QosOf[s]
    /\ Members(t, T) = {} /\ t \notin z => LastQos(w, b, t) = NoQos

(* While iot-config is open the broker follows the table, and what holds   *)
(* of the topics without a member holds while the connection is down too:  *)
(* "connect" does not unsubscribe them.                                    *)
IotInv ==
  /\ IotTypeOK
  /\ IsFiniteSet(table)
  /\ ~link => wire = <<>>
  /\ config = "open" => Fits(link, wire, broker, table, stale)

(* subscriptionQos() is a QoS that no member of the topic exceeds.         *)
LEMMA HighestQos ==
  ASSUME NEW t, NEW T \in SUBSET Subscribers, Members(t, T) # {}
  PROVE  /\ SubscriptionQos(t, T) \in 0 .. 2
         /\ \A s \in Members(t, T) : SubscriptionQos(t, T) >= QosOf[s]
<1> DEFINE Q == {QosOf[s] : s \in Members(t, T)}
<1>1. Q \subseteq 0 .. 2 /\ \A s \in Members(t, T) : QosOf[s] \in Q
  BY QosAssumption DEF Members
<1>2. Q # {}
  BY <1>1
<1>3. \E q \in Q : \A s \in Members(t, T) : q >= QosOf[s]
  <2> HIDE DEF Q
  <2>1. Q \subseteq {0, 1, 2}
    BY <1>1
  <2>2. \A s \in Members(t, T) : QosOf[s] \in {0, 1, 2} /\ QosOf[s] \in Q
    BY <1>1, <2>1
  <2>3. CASE 2 \in Q
    BY <2>2, <2>3
  <2>4. CASE 2 \notin Q /\ 1 \in Q
    BY <2>2, <2>4
  <2>5. CASE 2 \notin Q /\ 1 \notin Q
    <3>1. 0 \in Q
      BY <1>2, <2>1, <2>5
    <3> QED BY <2>2, <2>5, <3>1
  <2> QED BY <2>3, <2>4, <2>5
<1>4. SubscriptionQos(t, T) \in Q /\ \A s \in Members(t, T) : SubscriptionQos(t, T) >= QosOf[s]
  BY <1>3 DEF SubscriptionQos
<1> QED BY <1>1, <1>4

(* SetToSeq of a finite set is a sequence of its elements, each of them.   *)
LEMMA SetToSeqHas ==
  ASSUME NEW S, IsFiniteSet(S)
  PROVE  /\ SetToSeq(S) \in Seq(S)
         /\ \A i \in DOMAIN SetToSeq(S) : SetToSeq(S)[i] \in S
         /\ \A x \in S : \E i \in DOMAIN SetToSeq(S) : SetToSeq(S)[i] = x
<1> DEFINE n == Cardinality(S)
           f == SetToSeq(S)
<1>1. n \in Nat /\ ExistsBijection(1 .. n, S)
  BY FS_CardinalityType
<1>2. \E g \in [1 .. n -> S] : IsInjective(g)
  BY <1>1 DEF ExistsBijection, Bijection, Injection
<1>3. f \in [1 .. n -> S] /\ IsInjective(f)
  BY <1>2 DEF SetToSeq
<1> HIDE DEF f, n
<1>4. f \in Injection(1 .. n, S)
  BY <1>3 DEF Injection
<1>5. IsFiniteSet(1 .. n) /\ Cardinality(1 .. n) = n
  <2>1. IsFiniteSet(1 .. n) /\ Cardinality(1 .. n) = IF 1 > n THEN 0 ELSE n - 1 + 1
    BY <1>1, FS_Interval
  <2> QED BY <1>1, <2>1
<1>6. Cardinality(1 .. n) = Cardinality(S)
  BY <1>5 DEF n
<1>7. f \in Surjection(1 .. n, S)
  BY <1>4, <1>6, FS_Injection
<1>8. f \in Seq(S) /\ DOMAIN f = 1 .. n
  BY <1>1, <1>3, FunctionIsSeq
<1> QED BY <1>3, <1>7, <1>8 DEF Surjection, f

(* A subscription to a topic that has members is a packet.                 *)
LEMMA SubscribeIsPacket ==
  ASSUME NEW t \in Topics, NEW T \in SUBSET Subscribers, Members(t, T) # {},
         NEW who \in Subscribers \cup {"connect"}
  PROVE  /\ Subscribe(t, T, who) \in Packets
         /\ Subscribe(t, T, who).topic = t
         /\ Subscribe(t, T, who).qos = SubscriptionQos(t, T)
BY HighestQos DEF Subscribe, Packets

(* What "connect" writes: packets, and for every topic that has members,   *)
(* and for no other, its subscription.                                     *)
LEMMA ResubscriptionsCover ==
  ASSUME table \in SUBSET Subscribers, IsFiniteSet(table)
  PROVE  /\ Resubscriptions \in Seq(Packets)
         /\ \A t \in Topics, b \in [Topics -> -1 .. 2] :
              IF Members(t, table) = {} THEN LastQos(Resubscriptions, b, t) = b[t]
              ELSE LastQos(Resubscriptions, b, t) = SubscriptionQos(t, table)
<1> DEFINE N == {TopicOf[s] : s \in table}
           P == {Subscribe(t, table, "connect") : t \in N}
           w == Resubscriptions
<1>1. \A t \in N : t \in Topics /\ Members(t, table) # {}
  BY TopicAssumption DEF Members
<1>2. \A t \in Topics : Members(t, table) # {} => t \in N
  BY DEF Members
<1>3. \A p \in P : p \in Packets /\ p.topic \in N /\ p = Subscribe(p.topic, table, "connect")
  BY <1>1, SubscribeIsPacket
<1>4. IsFiniteSet(P)
  <2> DEFINE f == [s \in table |-> Subscribe(TopicOf[s], table, "connect")]
  <2>1. f \in Surjection(table, P)
    BY DEF Surjection
  <2> QED BY <2>1, FS_Surjection
<1>5. w = SetToSeq(P)
  BY DEF Resubscriptions
<1>6. /\ w \in Seq(P)
      /\ \A i \in DOMAIN w : w[i] \in P
      /\ \A p \in P : \E i \in DOMAIN w : w[i] = p
  <2> HIDE DEF w, P
  <2> QED BY <1>4, <1>5, SetToSeqHas
<1>7. w \in Seq(Packets)
  <2>1. P \subseteq Packets
    BY <1>3
  <2> HIDE DEF P, w
  <2>2. w \in [1 .. Len(w) -> P] /\ Len(w) \in Nat
    BY <1>6, LenProperties
  <2>3. w \in [1 .. Len(w) -> Packets]
    BY <2>1, <2>2
  <2> QED BY <2>2, <2>3, FunctionIsSeq
<1>8. ASSUME NEW t \in Topics, NEW b \in [Topics -> -1 .. 2]
      PROVE  IF Members(t, table) = {} THEN LastQos(w, b, t) = b[t]
             ELSE LastQos(w, b, t) = SubscriptionQos(t, table)
  <2>1. CASE Silent(w, t)
    <3>1. Members(t, table) = {}
      <4> SUFFICES ASSUME Members(t, table) # {} PROVE FALSE
        OBVIOUS
      <4>1. Subscribe(t, table, "connect") \in P
        BY <1>2
      <4>2. PICK i \in DOMAIN w : w[i] = Subscribe(t, table, "connect")
        BY <4>1, <1>6
      <4>3. w[i].topic = t
        BY <4>2 DEF Subscribe
      <4> QED BY <4>3, <2>1 DEF Silent
    <3> QED BY <3>1, <2>1, SilentQos
  <2>2. CASE \E i \in DOMAIN w : Decides(w, t, i)
    <3>1. PICK i \in DOMAIN w : Decides(w, t, i)
      BY <2>2
    <3>2. w[i] \in P /\ w[i].topic = t
      BY <3>1, <1>6 DEF Decides
    <3>3. LastQos(w, b, t) = w[i].qos
      BY <3>1, <1>7, DecidedQos
    <3>4. Members(t, table) # {} /\ w[i] = Subscribe(t, table, "connect")
      BY <3>2, <1>1, <1>3
    <3>5. w[i].qos = SubscriptionQos(t, table)
      BY <3>4 DEF Subscribe
    <3> QED BY <3>3, <3>4, <3>5
  <2> QED BY <2>1, <2>2, <1>7, SilentOrDecided
<1> QED BY <1>7, <1>8

------------------------------------------------------------------------------
(* The steps of the connection.                                            *)

(* "connect" subscribes every topic of the table again, and what the client *)
(* asks for by itself is stale.                                            *)
LEMMA ConnectedFits ==
  ASSUME IotInv, Connected
  PROVE  IotInv'
<1>0. PICK own \in SUBSET stale, q \in 0 .. 2 :
        broker' = [t \in Topics |-> IF t \in own THEN q ELSE broker[t]]
  BY DEF Connected
<1>1. /\ Resubscriptions \in Seq(Packets) /\ table \in SUBSET Subscribers
      /\ broker \in [Topics -> -1 .. 2]
  BY ResubscriptionsCover DEF IotInv, IotTypeOK
<1>b. broker' \in [Topics -> -1 .. 2]
  BY <1>0, <1>1
<1>2. IotTypeOK' /\ IsFiniteSet(table')
  BY <1>1, <1>b, Zenon DEF IotInv, IotTypeOK, Connected
<1>3. Fits(link, wire, broker, table, stale) /\ wire = <<>> /\ IsFiniteSet(table)
  BY DEF IotInv, Connected
<1>4. Fits(TRUE, Resubscriptions, broker', table, stale)
  <2> SUFFICES ASSUME NEW t \in Topics
               PROVE  /\ \A s \in Members(t, table) :
                           LastQos(Resubscriptions, broker', t) >= QosOf[s]
                      /\ Members(t, table) = {} /\ t \notin stale
                           => LastQos(Resubscriptions, broker', t) = NoQos
    BY DEF Fits
  <2>1. IF Members(t, table) = {} THEN LastQos(Resubscriptions, broker', t) = broker'[t]
        ELSE LastQos(Resubscriptions, broker', t) = SubscriptionQos(t, table)
    BY <1>1, <1>b, <1>3, ResubscriptionsCover
  <2>2. CASE Members(t, table) = {} /\ t \notin stale
    <3>1. LastQos(wire, broker, t) = broker[t]
      <4>1. Silent(wire, t)
        BY <1>3 DEF Silent
      <4> QED BY <4>1, SilentQos
    <3>2. broker[t] = NoQos
      BY <1>3, <2>2, <3>1 DEF Fits
    <3>3. broker'[t] = broker[t]
      BY <1>0, <2>2
    <3> QED BY <2>1, <2>2, <3>2, <3>3
  <2>3. CASE Members(t, table) # {}
    BY <1>1, <2>1, <2>3, HighestQos
  <2>4. CASE Members(t, table) = {} /\ t \in stale
    BY <2>4
  <2> QED BY <2>2, <2>3, <2>4
<1>5. link' = TRUE /\ wire' = Resubscriptions /\ table' = table /\ stale' = stale
  BY DEF Connected
<1>6. Fits(link', wire', broker', table', stale')
  BY <1>4, <1>5
<1>7. Fits(link, wire, broker, table, stale)'
  BY <1>6 DEF Fits, Members, LastQos
<1> QED BY <1>2, <1>5, <1>7 DEF IotInv

(* A dropped connection takes a clean session along; the other keeps, of   *)
(* the topics without a member, no more than stale says.                   *)
LEMMA DroppedFits ==
  ASSUME IotInv, Dropped
  PROVE  IotInv'
<1>1. IotTypeOK' /\ IsFiniteSet(table') /\ wire' = <<>>
  <2>1. wire' = <<>> /\ wire' \in Seq(Packets) /\ link' = FALSE /\ IsFiniteSet(table')
    BY DEF IotInv, Dropped
  <2>2. broker' \in [Topics -> -1 .. 2] /\ stale' \subseteq Topics
    BY DEF IotInv, IotTypeOK, Dropped, NoQos
  <2>3. UNCHANGED <<clean, client, config, node, table, input>>
    BY DEF Dropped
  <2> QED BY <2>1, <2>2, <2>3, Zenon DEF IotInv, IotTypeOK
<1>2. Fits(FALSE, <<>>, broker', table, stale')
  <2> SUFFICES ASSUME NEW t \in Topics, Members(t, table) = {}, t \notin stale'
               PROVE  LastQos(<<>>, broker', t) = NoQos
    BY DEF Fits
  <2>1. Silent(<<>>, t)
    BY DEF Silent
  <2>2. LastQos(<<>>, broker', t) = broker'[t]
    BY <2>1, SilentQos
  <2>3. clean
    BY DEF Dropped
  <2> QED BY <2>2, <2>3 DEF Dropped
<1>3. Fits(link, wire, broker, table, stale)'
  BY <1>2, <1>1 DEF Dropped, Fits, Members, LastQos
<1> QED BY <1>1, <1>3 DEF IotInv

(* A packet the broker takes decides nothing anew.                         *)
LEMMA BrokerTakesFits ==
  ASSUME IotInv, BrokerTakes
  PROVE  IotInv'
<1> USE DEF IotInv
<1>1. /\ wire \in Seq(Packets) /\ wire # <<>> /\ broker \in [Topics -> -1 .. 2]
      /\ wire' = Tail(wire) /\ broker' = [broker EXCEPT ![Head(wire).topic] = Head(wire).qos]
  BY DEF IotTypeOK, BrokerTakes
<1>2. Head(wire) \in Packets /\ Tail(wire) \in Seq(Packets)
  BY <1>1, HeadTailProperties
<1>3. broker' \in [Topics -> -1 .. 2]
  BY <1>1, <1>2 DEF Packets
<1>4. node' \in [Subscribers -> {"off", "on", "leaving"}]
  BY DEF BrokerTakes, IotTypeOK
<1>5. IotTypeOK' /\ IsFiniteSet(table') /\ (~link => wire = <<>>)'
  BY <1>1, <1>2, <1>3, <1>4, Zenon DEF IotTypeOK, BrokerTakes
<1>6. \A t \in Topics : LastQos(wire', broker', t) = LastQos(wire, broker, t)
  BY <1>1, TakenGrants
<1>7. /\ table' = table /\ stale' = stale /\ link' = link /\ config' = config
  BY DEF BrokerTakes
<1>8. Fits(link, wire, broker, table, stale) => Fits(link', wire', broker', table', stale')
  BY <1>6, <1>7 DEF Fits
<1> QED BY <1>5, <1>7, <1>8 DEF Fits, Members, LastQos

------------------------------------------------------------------------------
(* The steps of iot-subscribe.                                             *)

(* A node that joins is among the members; only its topic is written.      *)
LEMMA JoinFits ==
  ASSUME IotInv, NEW s \in Subscribers, Join(s)
  PROVE  IotInv'
<1> DEFINE t0 == TopicOf[s]
           p  == Subscribe(t0, table', s)
<1>1. /\ table' = table \cup {s} /\ config' = config /\ config = "open" /\ broker' = broker
      /\ link' = link /\ stale' = stale \ {t0} /\ IsFiniteSet(table) /\ table \in SUBSET Subscribers
      /\ wire \in Seq(Packets) /\ wire' = (IF link THEN Append(wire, p) ELSE wire)
  BY DEF Join, IotInv, IotTypeOK
<1>2. t0 \in Topics /\ table' \in SUBSET Subscribers /\ IsFiniteSet(table')
  BY <1>1, TopicAssumption, FS_AddElement
<1>3. Members(t0, table') # {} /\ \A t \in Topics : t # t0 => Members(t, table') = Members(t, table)
  BY <1>1 DEF Members
<1>4. p \in Packets /\ p.topic = t0 /\ p.qos = SubscriptionQos(t0, table')
  BY <1>2, <1>3, SubscribeIsPacket
<1>5. \A m \in Members(t0, table') : SubscriptionQos(t0, table') >= QosOf[m]
  BY <1>2, <1>3, HighestQos
<1>6. Fits(link, wire, broker, table, stale)
  BY DEF IotInv, Join
<1> HIDE DEF p, t0
<1>7. wire' \in Seq(Packets)
  BY <1>1, <1>4, AppendProperties
<1>8. node' \in [Subscribers -> {"off", "on", "leaving"}]
  BY DEF Join, IotInv, IotTypeOK
<1>9. stale' \subseteq Topics
  BY <1>1 DEF IotInv, IotTypeOK
<1>10. clean' = clean /\ client' = client /\ input' = input
  BY DEF Join
<1>11. IotTypeOK'
  BY <1>1, <1>2, <1>7, <1>8, <1>9, <1>10, Zenon DEF IotInv, IotTypeOK
<1>12. (~link => wire = <<>>)'
  BY <1>1 DEF IotInv
<1>13. Fits(link, wire', broker, table', stale')
  <2> SUFFICES ASSUME NEW t \in Topics
               PROVE  /\ link => \A m \in Members(t, table') : LastQos(wire', broker, t) >= QosOf[m]
                      /\ Members(t, table') = {} /\ t \notin stale' => LastQos(wire', broker, t) = NoQos
    BY DEF Fits
  <2>1. LastQos(Append(wire, p), broker, t) = IF p.topic = t THEN p.qos ELSE LastQos(wire, broker, t)
    BY <1>1, <1>4, AppendGrants
  <2>2. CASE t = t0
    <3>1. link => LastQos(wire', broker, t) = SubscriptionQos(t0, table')
      BY <1>1, <1>4, <2>1, <2>2
    <3> QED BY <1>3, <1>5, <2>2, <3>1
  <2>3. CASE t # t0
    <3>1. LastQos(wire', broker, t) = LastQos(wire, broker, t)
      BY <1>1, <1>4, <2>1, <2>3
    <3>2. Members(t, table') = Members(t, table) /\ (t \notin stale' => t \notin stale)
      BY <1>1, <1>3, <2>3
    <3> QED BY <1>6, <3>1, <3>2 DEF Fits
  <2> QED BY <2>2, <2>3
<1>14. Fits(link, wire, broker, table, stale)'
  BY <1>13, <1>1 DEF Fits, Members, LastQos
<1> QED BY <1>2, <1>11, <1>12, <1>14 DEF IotInv

(* The last node of a topic to leave unsubscribes it, or leaves it stale   *)
(* without a connection; what any other leaves behind still fits.          *)
LEMMA LeaveFits ==
  ASSUME IotInv, NEW s \in Subscribers, Leave(s)
  PROVE  IotInv'
<1> DEFINE t0 == TopicOf[s]
           p  == Unsubscribe(t0, s)
           lastUp == s \in table /\ LastOf(s) /\ link
<1>1. /\ table' = table \ {s} /\ config' = config /\ broker' = broker
      /\ link' = link /\ IsFiniteSet(table) /\ table \in SUBSET Subscribers
      /\ wire \in Seq(Packets) /\ wire' = (IF lastUp THEN Append(wire, p) ELSE wire)
      /\ stale' = (IF s \in table /\ Members(t0, table) = {s} /\ ~link THEN stale \cup {t0} ELSE stale)
  BY DEF Leave, IotInv, IotTypeOK
<1>2. t0 \in Topics /\ table' \in SUBSET Subscribers /\ IsFiniteSet(table')
  BY <1>1, TopicAssumption, FS_RemoveElement
<1>3. /\ \A t \in Topics : Members(t, table') = Members(t, table) \ {s}
      /\ \A t \in Topics : t # t0 => Members(t, table') = Members(t, table)
      /\ lastUp => Members(t0, table') = {}
  BY <1>1 DEF Members, LastOf
<1>4. p \in Packets /\ p.topic = t0 /\ p.qos = NoQos
  BY <1>2 DEF Unsubscribe, Packets, NoQos
<1>5. node' \in [Subscribers -> {"off", "on", "leaving"}]
  BY DEF Leave, IotInv, IotTypeOK
<1>6. lastUp => Members(t0, table) = {s}
  BY DEF LastOf
<1>7. ~lastUp /\ s \in table /\ Members(t0, table) = {s} => ~link
  BY DEF LastOf
<1>8. s \notin table => \A t \in Topics : Members(t, table') = Members(t, table)
  BY <1>1 DEF Members
<1>9. lastUp => link
  OBVIOUS
<1>10. s \in table => s \in Members(t0, table)
  BY DEF Members
<1> HIDE DEF p, t0, lastUp
<1>11. wire' \in Seq(Packets)
  BY <1>1, <1>4, AppendProperties
<1>12. stale' \subseteq Topics
  BY <1>1, <1>2 DEF IotInv, IotTypeOK
<1>13. clean' = clean /\ client' = client /\ input' = input
  BY DEF Leave
<1>14. IotTypeOK'
  BY <1>1, <1>2, <1>5, <1>11, <1>12, <1>13, Zenon DEF IotInv, IotTypeOK
<1>15. (~link => wire = <<>>)'
  BY <1>1, <1>9 DEF IotInv
<1>16. ASSUME config = "open"
       PROVE  Fits(link, wire', broker, table', stale')
  <2>1. Fits(link, wire, broker, table, stale)
    BY <1>16 DEF IotInv
  <2> SUFFICES ASSUME NEW t \in Topics
               PROVE  /\ link => \A m \in Members(t, table') : LastQos(wire', broker, t) >= QosOf[m]
                      /\ Members(t, table') = {} /\ t \notin stale' => LastQos(wire', broker, t) = NoQos
    BY DEF Fits
  <2>2. LastQos(Append(wire, p), broker, t) = IF p.topic = t THEN p.qos ELSE LastQos(wire, broker, t)
    BY <1>1, <1>4, AppendGrants
  <2>3. CASE lastUp /\ t = t0
    <3>1. LastQos(wire', broker, t) = NoQos
      BY <1>1, <1>4, <2>2, <2>3
    <3> QED BY <1>3, <2>3, <3>1
  <2>4. CASE ~(lastUp /\ t = t0)
    <3>1. LastQos(wire', broker, t) = LastQos(wire, broker, t)
      BY <1>1, <1>4, <2>2, <2>4
    <3>2. Members(t, table') \subseteq Members(t, table)
      BY <1>3
    <3>3. ASSUME Members(t, table') = {}, t \notin stale'
          PROVE  Members(t, table) = {} /\ t \notin stale
      <4>1. t \notin stale
        BY <1>1, <3>3
      <4>2. CASE t # t0
        BY <1>3, <3>3, <4>1, <4>2
      <4>3. CASE s \notin table
        BY <1>8, <3>3, <4>1, <4>3
      <4>4. CASE t = t0 /\ s \in table
        <5>1. Members(t0, table) = {s}
          BY <1>3, <1>10, <3>3, <4>4
        <5>2. ~link
          BY <1>7, <2>4, <4>4, <5>1
        <5> QED BY <1>1, <3>3, <4>4, <5>1, <5>2
      <4> QED BY <4>2, <4>3, <4>4
    <3> QED BY <2>1, <3>1, <3>2, <3>3 DEF Fits
  <2> QED BY <2>3, <2>4
<1>17. (config = "open" => Fits(link, wire, broker, table, stale))'
  BY <1>16, <1>1 DEF Fits, Members, LastQos
<1> QED BY <1>2, <1>14, <1>15, <1>17 DEF IotInv

------------------------------------------------------------------------------
(* The other steps: what is written, granted and registered stays, or      *)
(* iot-config is open no longer.                                           *)
LEMMA OtherStepsFit ==
  ASSUME IotInv,
         \/ Close \/ ClientEnded \/ CloseTimer
         \/ \E s \in Subscribers : LeaveTimer(s)
         \/ \E i \in Telemetry : Publish(i) \/ Published(i)
         \/ UNCHANGED iotVars
  PROVE  IotInv'
<1> USE DEF IotInv
<1>1. CASE Close
  <2>1. IsFiniteSet(table')
    BY <1>1, FS_EmptySet DEF Close
  <2>2. IotTypeOK'
    BY <1>1 DEF IotTypeOK, Close
  <2>3. config' # "open" /\ (~link => wire = <<>>)'
    BY <1>1 DEF Close
  <2> QED BY <2>1, <2>2, <2>3
<1>2. CASE ClientEnded
  <2>1. IotTypeOK'
    <3>1. wire' \in Seq(Packets)
      BY <1>2 DEF ClientEnded
    <3> QED BY <1>2, <3>1, Zenon DEF IotTypeOK, ClientEnded
  <2>2. config' # "open" /\ (~link => wire = <<>>)' /\ IsFiniteSet(table')
    BY <1>2 DEF ClientEnded
  <2> QED BY <2>1, <2>2
<1>3. CASE CloseTimer
  <2>1. IotTypeOK'
    BY <1>3, Zenon DEF IotTypeOK, CloseTimer
  <2>2. config' # "open" /\ (~link => wire = <<>>)' /\ IsFiniteSet(table')
    BY <1>3 DEF CloseTimer
  <2> QED BY <2>1, <2>2
<1>4. ASSUME UNCHANGED <<clean, client, config, link, table, wire, broker, stale>>,
             (node \in [Subscribers -> {"off", "on", "leaving"}])',
             (input \in [Telemetry -> {"new", "publishing", "sent", "failed"}])'
      PROVE  IotInv'
  <2>1. IotTypeOK'
    BY <1>4, Zenon DEF IotTypeOK
  <2>2. Fits(link, wire, broker, table, stale) => Fits(link', wire', broker', table', stale')
    BY <1>4
  <2> QED BY <1>4, <2>1, <2>2 DEF Fits, Members, LastQos
<1>5. CASE \E s \in Subscribers : LeaveTimer(s)
  BY <1>4, <1>5 DEF LeaveTimer, IotTypeOK
<1>6. CASE \E i \in Telemetry : Publish(i) \/ Published(i)
  BY <1>4, <1>6 DEF Publish, Published, IotTypeOK
<1>7. CASE UNCHANGED iotVars
  BY <1>4, <1>7 DEF iotVars, IotTypeOK
<1> QED BY <1>1, <1>2, <1>3, <1>5, <1>6, <1>7

(* The grants, the table and the connection agree in every reachable state *)
(* (iot-config.js:161-380).                                                *)
THEOREM IotInvariance == IotSpec => []IotInv
<1>1. IotInit => IotInv
  <2> SUFFICES ASSUME IotInit PROVE IotInv
    OBVIOUS
  <2>1. IotTypeOK
    <3>1. wire \in Seq(Packets) /\ broker \in [Topics -> -1 .. 2]
      BY DEF IotInit, NoQos
    <3>2. node \in [Subscribers -> {"off", "on", "leaving"}]
      BY DEF IotInit
    <3>3. input \in [Telemetry -> {"new", "publishing", "sent", "failed"}]
      BY DEF IotInit
    <3>4. link \in BOOLEAN /\ table \subseteq Subscribers /\ stale \subseteq Topics
          /\ config \in {"open", "closing", "closed"}
      BY DEF IotInit
    <3>5. clean \in BOOLEAN /\ client \in {"none", "live"}
      BY Zenon DEF IotInit
    <3> QED BY <3>1, <3>2, <3>3, <3>4, <3>5, Zenon DEF IotTypeOK
  <2>2. IsFiniteSet(table) /\ (~link => wire = <<>>)
    BY FS_EmptySet DEF IotInit
  <2>3. Fits(link, wire, broker, table, stale)
    <3>1. \A t \in Topics : LastQos(wire, broker, t) = NoQos
      <4> SUFFICES ASSUME NEW t \in Topics PROVE LastQos(wire, broker, t) = NoQos
        OBVIOUS
      <4>1. Silent(wire, t) /\ broker[t] = NoQos
        BY DEF IotInit, Silent
      <4> QED BY <4>1, SilentQos
    <3> QED BY <3>1 DEF Fits, IotInit
  <2> QED BY <2>1, <2>2, <2>3 DEF IotInv
<1>2. IotInv /\ [IotNext]_iotVars => IotInv'
  BY ConnectedFits, DroppedFits, BrokerTakesFits, JoinFits, LeaveFits, OtherStepsFit, Zenon
     DEF IotNext
<1> QED BY <1>1, <1>2, PTL DEF IotSpec

(* The broker has what the subscribers of a connected, open iot-config     *)
(* need, and has forgotten the topics nobody subscribes to                 *)
(* (iot-config.js:257-327).                                                *)
THEOREM BrokerKeepsUp == IotSpec => []BrokerFollowsTable
<1>1. IotInv => BrokerFollowsTable
  <2> SUFFICES ASSUME IotInv, link, config = "open", NEW t \in Topics
               PROVE  /\ \A s \in Members(t, table) : Granted(t) >= QosOf[s]
                      /\ Members(t, table) = {} /\ t \notin stale => Granted(t) = NoQos
    BY DEF BrokerFollowsTable
  <2>1. Granted(t) = LastQos(wire, broker, t)
    BY DEF Granted, LastQos
  <2> QED BY <2>1 DEF IotInv, Fits
<1> QED BY <1>1, IotInvariance, PTL
==============================================================================
