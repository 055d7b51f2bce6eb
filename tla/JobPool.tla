------------------------------- MODULE JobPool --------------------------------
(***************************************************************************)
(* The bounded work of one node: at most MaxConcurrent operations run, at  *)
(* most MaxQueue inputs wait, each input has a deadline that includes its  *)
(* waiting, and a deadline answers the input without freeing its slot.     *)
(*                                                                         *)
(* Two libraries implement it.  "sensitive" (oci-sensitive.js) serves the  *)
(* vault-secret and certificate nodes and owns one client per operation;   *)
(* "monitoring" (oci-monitoring-operation.js) serves the monitoring nodes, *)
(* which share a cached client.                                            *)
(*                                                                         *)
(* The work of a job stands at the await that "phase" names.  A step is    *)
(* the code between two awaits.                                            *)
(***************************************************************************)
EXTENDS Integers, Sequences, FiniteSets

CONSTANTS
  Jobs,           \* inputs the node may receive
  Kinds,          \* libraries to model
  MaxConcurrent,  \* settings.maxConcurrent
  MaxQueue        \* settings.maxQueue

ASSUME KindAssumption == Kinds \subseteq {"sensitive", "monitoring"}
ASSUME LimitAssumption == MaxConcurrent \in Nat \ {0} /\ MaxQueue \in Nat \ {0}

VARIABLES
  kind,    \* the library
  closed,  \* closed
  phase,   \* where each input and its work stand
  active,  \* the Set "active": the slots in use
  queue,   \* queue
  answer,  \* what done() was called with, "none" while job.settled is false
  late,    \* has Date.now() reached job.deadline
  client   \* the client a sensitive job owns

vars == <<kind, closed, phase, active, queue, answer, late, client>>

Phases == {"new", "waiting", "starting", "preparing", "calling",
           "resolved", "rejected", "cancelled", "leaving", "over"}

Answers == {"none", "sent", "failed", "timeout", "full", "closed"}

TypeOK ==
  /\ kind \in Kinds
  /\ closed \in BOOLEAN
  /\ phase \in [Jobs -> Phases]
  /\ active \subseteq Jobs
  /\ queue \in Seq(Jobs)
  /\ answer \in [Jobs -> Answers]
  /\ late \in [Jobs -> BOOLEAN]
  /\ client \in [Jobs -> {"none", "live", "shut"}]

Init ==
  /\ kind \in Kinds
  /\ closed = FALSE
  /\ phase = [j \in Jobs |-> "new"]
  /\ active = {}
  /\ queue = <<>>
  /\ answer = [j \in Jobs |-> "none"]
  /\ late = [j \in Jobs |-> FALSE]
  /\ client = [j \in Jobs |-> "none"]

Owned == kind = "sensitive"

Elements(q) == {q[i] : i \in DOMAIN q}

------------------------------------------------------------------------------
(* Settling.                                                               *)

\* Fault: a finish() that does not look at job.settled.
SettledAgain(S, a) == [j \in Jobs |-> IF j \in S THEN a ELSE answer[j]]

\* finish() answers a job once; a settled job is left alone.
Settled(S, a) ==
  [j \in Jobs |-> IF j \in S /\ answer[j] = "none" THEN a ELSE answer[j]]

\* dispose() shuts the clients of the jobs of S down.
Disposed(S) ==
  [j \in Jobs |-> IF j \in S /\ client[j] = "live" THEN "shut" ELSE client[j]]

\* Fault: a finish() that leaves the client to the work's end.
FinishKeepsClient(S, a) == answer' = Settled(S, a) /\ UNCHANGED client

\* finish() with a code: the answer, and for owned clients the disposal.
Finish(S, a) ==
  /\ answer' = Settled(S, a)
  /\ client' = IF Owned THEN Disposed({j \in S : answer[j] = "none"}) ELSE client

\* The queue after queue.splice(queue.indexOf(j), 1).
Spliced(j) ==
  LET i == CHOOSE i \in DOMAIN queue : queue[i] = j
  IN  IF j \in Elements(queue)
      THEN SubSeq(queue, 1, i - 1) \o SubSeq(queue, i + 1, Len(queue)) ELSE queue

------------------------------------------------------------------------------
(* An input arrives.                                                       *)

Refuse(j, a) ==
  /\ phase' = [phase EXCEPT ![j] = "over"]
  /\ answer' = [answer EXCEPT ![j] = a]
  /\ UNCHANGED <<kind, closed, active, queue, late, client>>

Full == Cardinality(active) >= MaxConcurrent /\ Len(queue) >= MaxQueue

Run(j) ==
  /\ Cardinality(active) < MaxConcurrent
  /\ active' = active \cup {j}
  /\ phase' = [phase EXCEPT ![j] = "starting"]
  /\ UNCHANGED queue

Wait(j) ==
  /\ Cardinality(active) >= MaxConcurrent
  /\ queue' = Append(queue, j)
  /\ phase' = [phase EXCEPT ![j] = "waiting"]
  /\ UNCHANGED active

Submit(j) ==
  /\ phase[j] = "new"
  /\ \/ (Owned \/ ~closed) /\ Refuse(j, "failed")   \* invalid input or settings
     \/ closed /\ Refuse(j, "closed")
     \/ ~closed /\ Full /\ Refuse(j, "full")
     \/ /\ ~closed
        /\ ~Full
        /\ Run(j) \/ Wait(j)
        /\ UNCHANGED <<kind, closed, answer, late, client>>

------------------------------------------------------------------------------
(* The work of a job, up to its own settling.                              *)

\* check(): the node is open, the job unsettled and in time.
MayGoOn(j) == ~closed /\ answer[j] = "none" /\ ~late[j]

\* check() throws; the sensitive one answers an overdue job right away.
Cancel(j) ==
  /\ ~MayGoOn(j)
  /\ phase' = [phase EXCEPT ![j] = "cancelled"]
  /\ IF Owned /\ late[j] THEN Finish({j}, "timeout") ELSE UNCHANGED <<answer, client>>

MoveTo(j, p) ==
  /\ phase' = [phase EXCEPT ![j] = p]
  /\ UNCHANGED <<answer, client>>

\* The job's first turn: the work begins and asks for the provider or client.
\* The work of a monitoring job also validates its input here.
Begin(j) ==
  /\ phase[j] = "starting"
  /\ \/ Cancel(j)
     \/ MayGoOn(j) /\ MoveTo(j, "preparing")
     \/ MayGoOn(j) /\ ~Owned /\ MoveTo(j, "rejected")
  /\ UNCHANGED <<kind, closed, active, queue, late>>

\* The provider or the shared client is there: own() a client, and call.
Prepared(j) ==
  /\ phase[j] = "preparing"
  /\ \/ Cancel(j)
     \/ MoveTo(j, "rejected")
     \/ /\ MayGoOn(j)
        /\ phase' = [phase EXCEPT ![j] = "calling"]
        /\ client' = IF Owned THEN [client EXCEPT ![j] = "live"] ELSE client
        /\ UNCHANGED answer
  /\ UNCHANGED <<kind, closed, active, queue, late>>

\* The service answers: with an error, a bad content or a good one.
Called(j) ==
  /\ phase[j] = "calling"
  /\ \/ Cancel(j)
     \/ MoveTo(j, "rejected")
     \/ MayGoOn(j) /\ MoveTo(j, "resolved")
  /\ UNCHANGED <<kind, closed, active, queue, late>>

\* send(result); it may throw.
Send(j) ==
  \E a \in {"sent", "failed"} : answer' = Settled({j}, a) /\ UNCHANGED client

\* What a cancelled job is told, unless finish() has told it already.
CancelCode ==
  IF Owned THEN "failed" ELSE IF closed THEN "closed" ELSE "timeout"

\* finish() of a job whose work settled.
Conclude(j) ==
  /\ \/ phase[j] = "resolved" /\ late[j] /\ Finish({j}, "timeout")
     \/ phase[j] = "resolved" /\ ~late[j] /\ Send(j)
     \/ phase[j] = "rejected" /\ Finish({j}, "failed")
     \/ phase[j] = "cancelled" /\ Finish({j}, CancelCode)
  /\ phase' = [phase EXCEPT ![j] = "leaving"]
  /\ UNCHANGED <<kind, closed, active, queue, late>>

------------------------------------------------------------------------------
(* Slots.                                                                  *)

\* How many waiting jobs drain() starts when the slots of "used" are in use.
Room(used) ==
  LET free == MaxConcurrent - Cardinality(used)
  IN  IF closed \/ free <= 0 THEN 0 ELSE IF free < Len(queue) THEN free ELSE Len(queue)

\* finally: the client goes, the slot is free, and drain() fills it.
Release(j) ==
  /\ phase[j] = "leaving"
  /\ LET used  == active \ {j}
         n     == Room(used)
         first == {queue[i] : i \in 1 .. n}
     IN  /\ active' = used \cup first
         /\ queue' = SubSeq(queue, n + 1, Len(queue))
         /\ phase' = [k \in Jobs |-> IF k \in first THEN "starting"
                                     ELSE IF k = j THEN "over" ELSE phase[k]]
  /\ client' = IF Owned THEN Disposed({j}) ELSE client
  /\ UNCHANGED <<kind, closed, answer, late>>

------------------------------------------------------------------------------
(* The clock, the timers and the close handler.                            *)

Admitted == {j \in Jobs : phase[j] \notin {"new", "over"}}

\* A job that only waits is over once it is answered; one that runs goes on.
Unqueued(S) ==
  [j \in Jobs |-> IF j \in S /\ phase[j] = "waiting" THEN "over" ELSE phase[j]]

\* Fault: a deadline that runs from the start of the work only.
ExpireWhileActive(j) ==
  /\ j \in active
  /\ ~late[j]
  /\ late' = [late EXCEPT ![j] = TRUE]
  /\ UNCHANGED <<kind, closed, phase, active, queue, answer, client>>

\* The clock reaches the deadline, which counts from submit().
Expire(j) ==
  /\ j \in Admitted
  /\ ~late[j]
  /\ late' = [late EXCEPT ![j] = TRUE]
  /\ UNCHANGED <<kind, closed, phase, active, queue, answer, client>>

\* Fault: a timeout that frees the slot at once.
TimeoutFreesSlot(j) ==
  /\ j \in Admitted
  /\ late[j]
  /\ answer[j] = "none"
  /\ Finish({j}, "timeout")
  /\ queue' = Spliced(j)
  /\ phase' = Unqueued({j})
  /\ active' = active \ {j}
  /\ UNCHANGED <<kind, closed, late>>

\* job.timer: the deadline settles the job.
Timeout(j) ==
  /\ j \in Admitted
  /\ late[j]
  /\ answer[j] = "none"
  /\ Finish({j}, "timeout")
  /\ queue' = Spliced(j)
  /\ phase' = Unqueued({j})
  /\ UNCHANGED <<kind, closed, active, late>>

\* The close handler settles every waiting and every active job.
CloseNode ==
  LET S == Elements(queue) \cup active
  IN  /\ answer' = Settled(S, "closed")
      /\ client' = IF Owned THEN Disposed(S) ELSE client
      /\ queue' = <<>>
      /\ phase' = Unqueued(S)

Close ==
  /\ ~closed
  /\ closed' = TRUE
  /\ CloseNode
  /\ UNCHANGED <<kind, active, late>>

------------------------------------------------------------------------------
Step(j) ==
  \/ Begin(j)
  \/ Conclude(j)
  \/ Release(j)

Next ==
  \/ Close
  \/ \E j \in Jobs :
       Submit(j) \/ Step(j) \/ Prepared(j) \/ Called(j) \/ Expire(j) \/ Timeout(j)

Spec == Init /\ [][Next]_vars

\* The event loop runs every turn that is due and the clock goes on.  Neither
\* the provider nor the service owes an answer, and nobody owes an input.
FairSpec ==
  Spec /\ \A j \in Jobs : WF_vars(Step(j)) /\ WF_vars(Expire(j)) /\ WF_vars(Timeout(j))

------------------------------------------------------------------------------
(* Properties.                                                             *)

\* Work that may still be going on outside the node.
InFlight == {j \in Jobs : phase[j] \in {"starting", "preparing", "calling"}}

\* Operations that are really under way, those whose input was told of a
\* timeout included, never exceed the limit, and neither do the waiting inputs
\* (oci-sensitive.js, 157: a deadline does not free a slot).
Bounded ==
  /\ Cardinality(InFlight) <= MaxConcurrent
  /\ Len(queue) <= MaxQueue

\* An input waits only while every slot is in use: drain() never leaves a slot
\* idle, and no input that arrives later overtakes a waiting one.
NoIdleSlot == queue # <<>> => Cardinality(active) >= MaxConcurrent

\* Once the node is closed no client of it is alive and no admitted input is
\* unanswered, whatever its work still does.
CloseLeavesNothing ==
  closed => \A j \in Jobs : client[j] # "live" /\ (j \in Admitted => answer[j] # "none")

\* No client outlives the operation that owns it, and none outlives the answer
\* its input was given: only when send() was called, and even if it threw, is the
\* client closed after it, by the finally that comes next.
ClientsAreOwned ==
  \A j \in Jobs : client[j] = "live" =>
    /\ j \in active
    /\ answer[j] = "none" \/ (phase[j] = "leaving" /\ answer[j] \in {"sent", "failed"})

\* The limits hold for all work that goes on, and within them no slot is wasted.
SlotsAreShared == Bounded /\ NoIdleSlot

\* Close and failure leave no client behind, and close no input.
NoClientOutlives == CloseLeavesNothing /\ ClientsAreOwned

\* An input is told one thing only: no answer follows another, and no result is
\* sent after the close or after the deadline.
AnsweredInTime ==
  [][\A j \in Jobs : answer'[j] # answer[j] =>
       answer[j] = "none" /\ (answer'[j] = "sent" => ~closed /\ ~late[j])]_vars

\* Every admitted input is answered even if the provider and the service never
\* answer: the deadline covers waiting and working.
EveryInputIsAnswered ==
  \A j \in Jobs : (phase[j] # "new") ~> (answer[j] # "none")
==============================================================================
