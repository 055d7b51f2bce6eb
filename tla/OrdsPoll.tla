------------------------------- MODULE OrdsPoll -------------------------------
(***************************************************************************)
(* The ORDS nodes of one ords-config node: poll inputs (oci-ords-poll.js), *)
(* which wait for one of MaxConcurrent slots in a queue of at most         *)
(* maxQueued places and repeat a request until it is complete, and single  *)
(* requests (oci-ords-request.js), which use the same access token.        *)
(*                                                                         *)
(* A poll input is two activities: its work, at the await "at" names, and  *)
(* its handler, which waits for the work or the total timeout, whichever   *)
(* comes first.  A step is the code between two awaits; microtasks may     *)
(* run in any order, which is more than Node.js allows.                    *)
(***************************************************************************)
EXTENDS Integers, Sequences, FiniteSets

CONSTANTS
  Polls,          \* inputs of poll nodes
  Requests,       \* inputs of request nodes
  PollNodes,      \* the poll nodes
  NodeOf,         \* the poll node that receives a poll input
  MaxConcurrent,  \* node.maxConcurrentPolls
  QueueSizes      \* values of node.maxQueuedPolls

ASSUME InputAssumption == NodeOf \in [Polls -> PollNodes] /\ Polls \cap Requests = {}
ASSUME LimitAssumption == MaxConcurrent \in Nat \ {0} /\ QueueSizes \subseteq Nat

VARIABLES
  maxQueued, \* node.maxQueuedPolls
  closed,    \* closing of the ords-config node
  gone,      \* the poll nodes whose closing is true
  token,     \* is node.accessToken there and not expired
  flight,    \* tokenPromise # null
  queue,     \* pollQueue
  active,    \* activePolls of the ords-config node, a counter
  at,        \* where the work of each input stands
  answer,    \* the response the last attempt brought
  raced,     \* what settled Promise.race([work, expiration])
  aborted,   \* context.controller.signal.aborted
  late,      \* has Date.now() reached context.deadline
  reply      \* what the input was answered with

vars == <<maxQueued, closed, gone, token, flight, queue, active,
          at, answer, raced, aborted, late, reply>>
settings == <<maxQueued, closed>>

Inputs == Polls \cup Requests

\* Awaits that the abort of the signal rejects at once.
Abortable == {"token", "retoken", "fetch", "refetch", "waiting"}

\* The work of a poll that holds a slot.
Running == Abortable \cup {"starting", "answered", "settled"}

TypeOK ==
  /\ maxQueued \in QueueSizes
  /\ closed \in BOOLEAN /\ gone \subseteq PollNodes
  /\ token \in BOOLEAN /\ flight \in BOOLEAN
  /\ queue \in Seq(Polls) /\ active \in Int
  /\ at \in [Inputs -> Running \cup {"new", "queued", "over"}]
  /\ answer \in [Polls -> {"none", "complete", "partial"}]
  /\ raced \in [Polls -> {"none", "complete", "incomplete", "error"}]
  /\ aborted \in [Polls -> BOOLEAN] /\ late \in [Polls -> BOOLEAN]
  /\ reply \in [Inputs -> {"none", "sent", "timedout", "error"}]

Init ==
  /\ maxQueued \in QueueSizes
  /\ closed = FALSE /\ gone = {}
  /\ token = FALSE /\ flight = FALSE
  /\ queue = <<>> /\ active = 0
  /\ at = [i \in Inputs |-> "new"]
  /\ answer = [i \in Polls |-> "none"]
  /\ raced = [i \in Polls |-> "none"]
  /\ aborted = [i \in Polls |-> FALSE] /\ late = [i \in Polls |-> FALSE]
  /\ reply = [i \in Inputs |-> "none"]

Open(i) == NodeOf[i] \notin gone

Put(f, S, v) == [x \in DOMAIN f |-> IF x \in S THEN v ELSE f[x]]

\* A promise keeps what settled it first.
Settle(S, v) == [i \in Polls |-> IF i \in S /\ raced[i] = "none" THEN v ELSE raced[i]]

------------------------------------------------------------------------------
(* Slots.                                                                  *)

\* drainPollQueue() with queue q and n slots in use: the items of q that get
\* a slot start, in order.  Once the config is closed q is rejected instead.
Drain(q, n, st) ==
  LET free == IF n < MaxConcurrent THEN MaxConcurrent - n ELSE 0
      k    == IF Len(q) < free THEN Len(q) ELSE free
  IN  IF closed
      THEN /\ queue' = <<>> /\ active' = n
           /\ at' = Put(st, {q[x] : x \in DOMAIN q}, "over")
           /\ raced' = Settle({q[x] : x \in DOMAIN q}, "error")
      ELSE /\ queue' = SubSeq(q, k + 1, Len(q)) /\ active' = n + k
           /\ at' = Put(st, {q[x] : x \in 1 .. k}, "starting")
           /\ UNCHANGED raced

Full == Len(queue) >= maxQueued /\ active >= MaxConcurrent

\* The polls of S leave the queue (pollQueue.splice): the n-th that stays is
\* the one at the place that has n of the kept places up to it.
Unqueued(S) ==
  LET kept   == {x \in DOMAIN queue : queue[x] \notin S}
      Nth(n) == CHOOSE x \in kept : Cardinality({y \in kept : y <= x}) = n
  IN  [n \in 1 .. Cardinality(kept) |-> queue[Nth(n)]]

\* controller.abort() for the polls of S: one that waits in the queue leaves it.
\* What the others await fails in steps of their own.
Abort(S) ==
  LET waiting == {i \in S : at[i] = "queued"}
  IN  /\ aborted' = Put(aborted, S, TRUE)
      /\ queue' = Unqueued(waiting)
      /\ at' = Put(at, waiting, "over")

\* Fault: the slot is given back when the handler ends, not when the task does.
ReleaseAnswered(i) ==
  /\ at[i] = "settled"
  /\ IF reply[i] = "timedout"
     THEN at' = [at EXCEPT ![i] = "over"] /\ UNCHANGED <<queue, active, raced>>
     ELSE Drain(queue, active - 1, [at EXCEPT ![i] = "over"])
  /\ UNCHANGED <<settings, gone, token, flight, answer, aborted, late, reply>>

\* The finally of drainPollQueue: the slot goes to the next in the queue.
Release(i) ==
  /\ at[i] = "settled"
  /\ Drain(queue, active - 1, [at EXCEPT ![i] = "over"])
  /\ UNCHANGED <<settings, gone, token, flight, answer, aborted, late, reply>>

------------------------------------------------------------------------------
(* One request.                                                            *)

\* The work of the inputs of S ends with v: a poll settles its race and still
\* holds its slot, a request node answers.
Ends(S, v) ==
  /\ at' = [i \in Inputs |-> IF i \notin S THEN at[i]
                             ELSE IF i \in Polls THEN "settled" ELSE "over"]
  /\ raced' = Settle(S \cap Polls, v)
  /\ reply' = Put(reply, S \cap Requests, "error")

\* request(): with a valid token the call goes out, else the input joins the
\* token request that is under way or starts one.
Request(i) ==
  IF closed \/ (i \in Polls /\ aborted[i])
  THEN Ends({i}, "error") /\ UNCHANGED flight
  ELSE /\ at' = [at EXCEPT ![i] = IF token THEN "fetch" ELSE "token"]
       /\ flight' = (flight \/ ~token)
       /\ UNCHANGED <<raced, reply>>

\* Fault: who joined after a 401 is forgotten.
FirstWaiters == {i \in Inputs : at[i] = "token" /\ (i \in Polls => ~aborted[i])}

\* Those who await tokenPromise; an aborted signal takes a poll away from it.
Waiters ==
  {i \in Inputs : at[i] \in {"token", "retoken"} /\ (i \in Polls => ~aborted[i])}

\* fetchToken() ends, for everybody who awaits it; a token that arrives after
\* the config's close is not kept.
TokenEnds ==
  /\ flight
  /\ flight' = FALSE
  /\ \/ /\ ~closed
        /\ token' = TRUE
        /\ at' = [i \in Inputs |-> IF i \notin Waiters THEN at[i]
                                   ELSE IF at[i] = "token" THEN "fetch" ELSE "refetch"]
        /\ UNCHANGED <<raced, reply>>
     \/ Ends(Waiters, "error") /\ UNCHANGED token
  /\ UNCHANGED <<settings, gone, queue, active, answer, aborted, late>>

\* Date.now() passes node.tokenExpiry.
TokenExpires ==
  /\ token
  /\ token' = FALSE
  /\ UNCHANGED <<settings, gone, flight, queue, active, at, answer,
                 raced, aborted, late, reply>>

\* The call of an input answers.  A first 401 asks for a new token, joining the
\* token request under way; a second one is an error.
FetchAnswers(i) ==
  /\ at[i] \in {"fetch", "refetch"}
  /\ ~closed /\ (i \in Polls => ~aborted[i])
  /\ \/ \E a \in {"complete", "partial"} :
          IF i \in Polls
          THEN /\ answer' = [answer EXCEPT ![i] = a]
               /\ at' = [at EXCEPT ![i] = "answered"]
               /\ UNCHANGED <<raced, reply, flight>>
          ELSE /\ a = "complete"
               /\ at' = [at EXCEPT ![i] = "over"]
               /\ reply' = [reply EXCEPT ![i] = "sent"]
               /\ UNCHANGED <<answer, raced, flight>>
     \/ /\ at[i] = "fetch"
        /\ at' = [at EXCEPT ![i] = "retoken"]
        /\ flight' = TRUE
        /\ UNCHANGED <<answer, raced, reply>>
  /\ UNCHANGED <<settings, gone, token, queue, active, aborted, late>>

\* It fails: another status, a second 401, the request timeout, or the config's
\* close, which aborts every call.
FetchFails(i) ==
  /\ at[i] \in {"fetch", "refetch"}
  /\ Ends({i}, "error")
  /\ UNCHANGED <<settings, gone, token, flight, queue, active, answer, aborted, late>>

\* The abort of its signal rejects what a poll awaits.
Cancelled(i) ==
  /\ at[i] \in Abortable
  /\ aborted[i]
  /\ Ends({i}, "error")
  /\ UNCHANGED <<settings, gone, token, flight, queue, active, answer, aborted, late>>

------------------------------------------------------------------------------
(* The work of a poll: pollOnce.                                           *)

\* The head of its loop.
Attempt(i) ==
  IF ~Open(i) THEN Ends({i}, "error") /\ UNCHANGED flight
  ELSE IF aborted[i] \/ late[i] THEN Ends({i}, "incomplete") /\ UNCHANGED flight
  ELSE Request(i)

\* The task of a slot starts; msg may name no path or a bad one.
Start(i) ==
  /\ at[i] = "starting"
  /\ \/ Ends({i}, "error") /\ UNCHANGED flight
     \/ ~aborted[i] /\ Attempt(i)
  /\ UNCHANGED <<settings, gone, token, queue, active, answer, aborted, late>>

\* An attempt has its response: it is complete, or too late, or the next one
\* would be, or it is repeated after the interval.
Examine(i) ==
  /\ at[i] = "answered"
  /\ \/ ~Open(i) /\ Ends({i}, "error")
     \/ Open(i) /\ (aborted[i] \/ late[i]) /\ Ends({i}, "incomplete")
     \/ /\ Open(i) /\ ~aborted[i] /\ ~late[i]
        /\ IF answer[i] = "complete" THEN Ends({i}, "complete")
           ELSE \/ Ends({i}, "incomplete")
                \/ /\ at' = [at EXCEPT ![i] = "waiting"]
                   /\ UNCHANGED <<raced, reply>>
  /\ UNCHANGED <<settings, gone, token, flight, queue, active, answer, aborted, late>>

\* waitForInterval() ends.
IntervalEnds(i) ==
  /\ at[i] = "waiting" /\ ~aborted[i]
  /\ Attempt(i)
  /\ UNCHANGED <<settings, gone, token, queue, active, answer, aborted, late>>

------------------------------------------------------------------------------
(* The handlers.                                                           *)

\* An input of a poll node: runPollJob refuses it or gives it a slot or a place.
Poll(i) ==
  /\ i \in Polls /\ at[i] = "new"
  /\ IF ~Open(i)
     THEN /\ at' = [at EXCEPT ![i] = "over"]
          /\ reply' = [reply EXCEPT ![i] = "error"]
          /\ aborted' = [aborted EXCEPT ![i] = TRUE]
          /\ UNCHANGED <<queue, active, raced>>
     ELSE IF closed \/ Full
     THEN /\ at' = [at EXCEPT ![i] = "over"]
          /\ raced' = [raced EXCEPT ![i] = "error"]
          /\ UNCHANGED <<queue, active, aborted, reply>>
     ELSE /\ Drain(Append(queue, i), active, [at EXCEPT ![i] = "queued"])
          /\ UNCHANGED <<aborted, reply>>
  /\ UNCHANGED <<settings, gone, token, flight, answer, late>>

\* Fault: the handler does not look whether its node was closed meanwhile.
OutcomeOfClosed(i) ==
  CASE raced[i] = "complete" -> "sent"
    [] raced[i] = "incomplete" -> "timedout"
    [] OTHER -> "error"

Outcome(i) ==
  CASE Open(i) /\ raced[i] = "complete" -> "sent"
    [] Open(i) /\ raced[i] = "incomplete" -> "timedout"
    [] OTHER -> "error"

\* The handler goes on after Promise.race and aborts what is left of the work.
Answer(i) ==
  /\ raced[i] # "none" /\ reply[i] = "none"
  /\ reply' = [reply EXCEPT ![i] = Outcome(i)]
  /\ Abort({i})
  /\ UNCHANGED <<settings, gone, token, flight, active, answer, raced, late>>

\* An input of a request node: invalid, or sent as one request.
SendRequest(i) ==
  /\ i \in Requests /\ at[i] = "new"
  /\ (Ends({i}, "error") /\ UNCHANGED flight) \/ Request(i)
  /\ UNCHANGED <<settings, gone, token, queue, active, answer, aborted, late>>

------------------------------------------------------------------------------
(* Time and close.                                                         *)

\* Date.now() reaches the deadline; once the race is settled it matters no more.
DeadlinePasses(i) ==
  /\ at[i] # "new" /\ ~late[i] /\ raced[i] = "none"
  /\ late' = [late EXCEPT ![i] = TRUE]
  /\ UNCHANGED <<settings, gone, token, flight, queue, active, at, answer,
                 raced, aborted, reply>>

\* The expiration timer, which the handler clears when it ends.
Expire(i) ==
  /\ late[i] /\ reply[i] = "none" /\ ~aborted[i]
  /\ raced' = Settle({i}, "incomplete")
  /\ Abort({i})
  /\ UNCHANGED <<settings, gone, token, flight, active, answer, late, reply>>

\* close of a poll node.
CloseNode(n) ==
  /\ n \notin gone
  /\ gone' = gone \cup {n}
  /\ LET open == {i \in Polls : NodeOf[i] = n /\ at[i] # "new" /\ reply[i] = "none"}
     IN  /\ raced' = Settle(open, "error")
         /\ Abort(open)
  /\ UNCHANGED <<settings, token, flight, active, answer, late, reply>>

\* close of the ords-config node; the calls it aborts fail in FetchFails and
\* TokenEnds.
CloseConfig ==
  /\ ~closed
  /\ closed' = TRUE
  /\ LET waiting == {queue[x] : x \in DOMAIN queue}
     IN  /\ raced' = Settle(waiting, "error")
         /\ at' = Put(at, waiting, "over")
         /\ queue' = <<>>
  /\ UNCHANGED <<maxQueued, gone, token, flight, active, answer, aborted, late, reply>>

------------------------------------------------------------------------------
Work(i) == FetchAnswers(i) \/ FetchFails(i)

Clock(i) == DeadlinePasses(i) \/ Expire(i)

PollStep(i) == Start(i) \/ Examine(i) \/ IntervalEnds(i) \/ Cancelled(i)
               \/ Release(i) \/ Answer(i)

Next ==
  \/ TokenEnds \/ TokenExpires \/ CloseConfig
  \/ \E n \in PollNodes : CloseNode(n)
  \/ \E i \in Requests : SendRequest(i)
  \/ \E i \in Inputs : Work(i)
  \/ \E i \in Polls : Poll(i) \/ PollStep(i) \/ Clock(i)

Spec == Init /\ [][Next]_vars

\* Promises that are settled run their continuations, the node's own request
\* timeout ends every call, and timers fire.  Nobody has to send an input or to
\* close a node.
Fairness ==
  /\ WF_vars(TokenEnds)
  /\ \A i \in Inputs : WF_vars(Work(i))
  /\ \A i \in Polls : WF_vars(PollStep(i)) /\ WF_vars(Clock(i))

FairSpec == Spec /\ Fairness

------------------------------------------------------------------------------
(* Properties.                                                             *)

\* The counter of slots agrees with the polls at work, those that were timed
\* out or closed included; limits hold; the queue holds the waiting polls, once
\* each, and only while every slot is in use (ords-config.js:516-569).
SlotsAreConserved ==
  /\ active = Cardinality({i \in Polls : at[i] \in Running})
  /\ active <= MaxConcurrent /\ Len(queue) <= maxQueued
  /\ queue # <<>> => active = MaxConcurrent
  /\ {queue[x] : x \in DOMAIN queue} = {i \in Polls : at[i] = "queued"}
  /\ Cardinality(DOMAIN queue) = Cardinality({i \in Polls : at[i] = "queued"})

\* An input is answered once.  A closed node sends nothing more, a poll is
\* reported complete only with a complete response, and as timed out only when
\* its deadline passed or its last response was incomplete: a poll that was
\* cancelled is never reported as one that timed out (oci-ords-poll.js:274-300).
RepliesAreTrue ==
  [][\A i \in Inputs : reply'[i] # reply[i] =>
       /\ reply[i] = "none"
       /\ i \in Polls /\ reply'[i] # "error" =>
            /\ Open(i)
            /\ reply'[i] = "sent" => answer[i] = "complete"
            /\ reply'[i] = "timedout" => late[i] \/ answer[i] = "partial"]_vars

\* Every input is answered and every slot comes back, whoever closes, aborts or
\* fails meanwhile.
EveryInputEnds ==
  <>[](\A i \in Inputs : at[i] = "new" \/ (reply[i] # "none" /\ at[i] = "over"))
==============================================================================
