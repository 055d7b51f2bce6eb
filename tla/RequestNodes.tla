----------------------------- MODULE RequestNodes -----------------------------
(***************************************************************************)
(* One node that answers inputs with requests, over what it shares with    *)
(* others: the token of scm-server, the authentication provider of         *)
(* oci-config, the client of a client manager (lib/oci-client.js), which   *)
(* is the node's own or that of a streaming or queue configuration, and    *)
(* the producer of oci-kafka-config.  Whoever finds one missing creates    *)
(* it, and the others wait for the same creation.                          *)
(*                                                                         *)
(* A step is what the code does between two answers from outside: the      *)
(* creation of a shared value ends, a call ends, an input arrives, a node  *)
(* is closed.  Promise continuations run within the step.                  *)
(***************************************************************************)
EXTENDS RequestPaths, Sequences

CONSTANTS
  Inputs,  \* the inputs
  Kinds    \* the handlers to check

ASSUME KindsAssumption == Kinds \subseteq DOMAIN Handlers

VARIABLES
  kind,      \* the node's handler
  closed,    \* which of "node", "config" and "identity" (oci-config) are closed
  token,     \* the token of scm-server
  provider,  \* the provider of oci-config
  client,    \* the client the manager shares
  own,       \* inputs that have a live client of their own
  producer,  \* the producer of oci-kafka-config
  closer,    \* does closeProducer wait for the producer's creation
  orphan,    \* was the producer's creation started after the close
  todo,      \* the awaits that are left of an input's path, its present one first
  reply      \* "new", "open", or what became of the input

vars == <<kind, closed, token, provider, client, own, producer, closer, orphan, todo, reply>>

Node == Handlers[kind]
Steps == [await : Shared \cup External, then : SUBSET Checks]

\* "creating" is a promise that everybody awaits, "shut" a client or provider
\* that was disposed of.
Stages == {"none", "creating", "live", "shut"}

TypeOK ==
  /\ kind \in Kinds
  /\ closed \subseteq {"node", "config", "identity"}
  /\ token \in {"none", "creating", "live"}
  /\ provider \in Stages /\ client \in Stages
  /\ own \subseteq Inputs
  /\ producer \in Stages /\ closer \in BOOLEAN /\ orphan \in BOOLEAN
  /\ todo \in [Inputs -> Seq(Steps)]
  /\ reply \in [Inputs -> {"new", "open", "sent", "dropped", "refused", "failed", "closed"}]

Init ==
  /\ kind \in Kinds
  /\ closed = {}
  /\ token = "none" /\ provider = "none" /\ client = "none" /\ producer = "none"
  /\ own = {} /\ closer = FALSE /\ orphan = FALSE
  /\ todo = [i \in Inputs |-> <<>>]
  /\ reply = [i \in Inputs |-> "new"]

NodeOpen == "node" \notin closed
IdentityOpen == "identity" \notin closed

\* assertOpen() of the manager that the node uses.
ManagerOpen == Node.owner \notin closed

Awaiting(w) == {i \in Inputs : todo[i] # <<>> /\ Head(todo[i]).await = w}

------------------------------------------------------------------------------
(* How a handler goes on.                                                   *)

\* The await at the head of path p has succeeded: what becomes of the input.
Verdict(p) ==
  LET checks == Head(p).then
  IN  IF "quiet" \in checks /\ ~NodeOpen THEN "dropped"
      ELSE IF "open" \in checks /\ ~NodeOpen THEN "closed"
      ELSE IF "refuse" \in checks THEN "refused"
      ELSE IF Len(p) = 1 THEN "sent" ELSE "open"

\* Fault: the catch drops the error and forgets done().
CaughtForgetful(why) == IF Node.silent /\ ~NodeOpen THEN "open" ELSE why

\* An await has failed: the catch of the handler.
Caught(why) == IF Node.silent /\ ~NodeOpen THEN "dropped" ELSE why

\* The inputs of S go on, those of F fail.  The finally of a handler releases
\* the client of its own.
Settle(S, F, why, owners) ==
  /\ reply' = [i \in Inputs |-> IF i \in S THEN Verdict(todo[i])
                                ELSE IF i \in F THEN Caught(why) ELSE reply[i]]
  /\ todo' = [i \in Inputs |-> IF i \in S /\ Verdict(todo[i]) = "open" THEN Tail(todo[i])
                               ELSE IF i \in S \cup F THEN <<>> ELSE todo[i]]
  /\ own' = {i \in owners : reply'[i] = "open"}

\* The input i, on path p, starts to wait.
Wait(i, p) ==
  /\ reply' = [reply EXCEPT ![i] = "open"]
  /\ todo' = [todo EXCEPT ![i] = p]
  /\ UNCHANGED own

\* It is over at once.
Over(i, r) ==
  /\ reply' = [reply EXCEPT ![i] = r]
  /\ UNCHANGED <<todo, own>>

\* What it would wait for is there: it is past its first await.
Pass(i, p, owners) ==
  LET v == Verdict(p)
  IN  /\ reply' = [reply EXCEPT ![i] = v]
      /\ todo' = [todo EXCEPT ![i] = IF v = "open" THEN Tail(p) ELSE <<>>]
      /\ own' = {j \in owners : reply'[j] = "open"}

------------------------------------------------------------------------------
(* Arrival: the handler runs up to its first answer from outside.           *)

\* getToken(): the token, the request for it that is under way, or a new one.
GetToken(i, p) ==
  /\ IF token = "live" THEN Pass(i, p, own) /\ UNCHANGED token
     ELSE Wait(i, p) /\ token' = "creating"
  /\ UNCHANGED <<provider, client, producer, orphan>>

\* getAuthProvider() for a caller that has nothing else to check.
GetAuthProvider(i, p) ==
  /\ IF ~IdentityOpen THEN Over(i, Caught("failed")) /\ UNCHANGED provider
     ELSE IF provider = "live" THEN Pass(i, p, own) /\ UNCHANGED provider
     ELSE Wait(i, p) /\ provider' = "creating"
  /\ UNCHANGED <<token, client, producer, orphan>>

\* get() of a client manager: the shared client, its creation, or a new one,
\* which needs the provider first.
Get(i, p) ==
  /\ \/ /\ ~ManagerOpen
        /\ Over(i, Caught("closed")) /\ UNCHANGED <<client, provider>>
     \/ /\ ManagerOpen /\ client = "live"
        /\ Pass(i, p, own) /\ UNCHANGED <<client, provider>>
     \/ /\ ManagerOpen /\ client = "creating"
        /\ Wait(i, p) /\ UNCHANGED <<client, provider>>
     \/ /\ ManagerOpen /\ client = "none"
        /\ IF ~IdentityOpen THEN Over(i, Caught("failed")) /\ UNCHANGED <<client, provider>>
           ELSE IF provider = "live"
           THEN \/ client' = "live" /\ Pass(i, p, own) /\ UNCHANGED provider
                \/ Over(i, Caught("failed")) /\ UNCHANGED <<client, provider>>
           ELSE client' = "creating" /\ provider' = "creating" /\ Wait(i, p)
  /\ UNCHANGED <<token, producer, orphan>>

\* create() of a client manager, for one input.
Create(i, p) ==
  /\ IF ~ManagerOpen THEN Over(i, Caught("closed")) /\ UNCHANGED provider
     ELSE IF ~IdentityOpen THEN Over(i, Caught("failed")) /\ UNCHANGED provider
     ELSE IF provider = "live"
     THEN /\ UNCHANGED provider
          /\ Pass(i, p, own \cup {i}) \/ Over(i, Caught("failed"))
     ELSE Wait(i, p) /\ provider' = "creating"
  /\ UNCHANGED <<token, client, producer, orphan>>

\* getProducer() of oci-kafka-config, which does not know that it is closed.
GetProducer(i, p) ==
  /\ IF producer = "live" THEN Pass(i, p, own) /\ UNCHANGED <<producer, orphan>>
     ELSE IF producer = "creating" THEN Wait(i, p) /\ UNCHANGED <<producer, orphan>>
     ELSE \/ /\ producer' = "creating" /\ orphan' = ("config" \in closed)
             /\ Wait(i, p)
          \/ Over(i, Caught("failed")) /\ UNCHANGED <<producer, orphan>>
  /\ UNCHANGED <<token, provider, client>>

Obtain(i, p) ==
  \/ Head(p).await = "token" /\ GetToken(i, p)
  \/ Head(p).await = "provider" /\ GetAuthProvider(i, p)
  \/ Head(p).await = "client" /\ Get(i, p)
  \/ Head(p).await = "own client" /\ Create(i, p)
  \/ Head(p).await = "producer" /\ GetProducer(i, p)

\* An input: a closed node drops it or fails it at once, if it looks; it may be
\* refused for what it says.
Arrive(i) ==
  /\ reply[i] = "new"
  /\ IF Node.start # {} /\ ~NodeOpen
     THEN /\ Over(i, IF "quiet" \in Node.start THEN "dropped" ELSE "closed")
          /\ UNCHANGED <<token, provider, client, producer, orphan>>
     ELSE \/ /\ Over(i, "refused")
             /\ UNCHANGED <<token, provider, client, producer, orphan>>
          \/ \E p \in Node.paths : Obtain(i, p)
  /\ UNCHANGED <<kind, closed, closer>>

------------------------------------------------------------------------------
(* Answers from outside.                                                    *)

\* fetchToken() ends; the token may be of no use to later inputs.
TokenEnds ==
  /\ token = "creating"
  /\ \/ /\ Settle(Awaiting("token"), {}, "", own)
        /\ token' \in {"live", "none"}
     \/ /\ Settle({}, Awaiting("token"), "failed", own)
        /\ token' = "none"
  /\ UNCHANGED <<kind, closed, provider, client, producer, closer, orphan>>

\* Date.now() passes node.tokenExpiry.
TokenExpires ==
  /\ token = "live"
  /\ token' = "none"
  /\ UNCHANGED <<kind, closed, provider, client, own, producer, closer, orphan, todo, reply>>

\* Those who wait for the provider, directly or to make a client of it.
OnProvider == Awaiting("provider") \cup Awaiting("client") \cup Awaiting("own client")

\* Fault: the promise of a creation that failed stays in the manager.
ClientKept == UNCHANGED client

\* The creation of a client fails: the manager forgets it.
ClientFails == client' = IF client = "creating" THEN "none" ELSE client

\* It fails, or arrives after the close of oci-config, which then disposes of it.
ProviderFails ==
  /\ provider = "creating"
  /\ IF IdentityOpen THEN provider' = "none" ELSE provider' \in {"none", "shut"}
  /\ ClientFails
  /\ Settle({}, OnProvider, "failed", own)
  /\ UNCHANGED <<kind, closed, token, producer, closer, orphan>>

\* Fault: create() does not look again whether the manager is open.
CreatedLate(made) ==
  LET direct == Awaiting("provider")
      users  == OnProvider \ direct
  IN  /\ client' = IF client # "creating" THEN client ELSE IF made THEN "live" ELSE "none"
      /\ IF made THEN Settle(direct \cup users, {}, "", own \cup Awaiting("own client"))
         ELSE Settle(direct, users, "failed", own)

\* create() goes on: a client that arrives after the manager's close is shut
\* down, and those who waited for it fail.
Created(made) ==
  LET direct == Awaiting("provider")
      users  == OnProvider \ direct
  IN  /\ client' = IF client # "creating" THEN client
                   ELSE IF ~made THEN "none"
                   ELSE IF ManagerOpen THEN "live" ELSE "shut"
      /\ IF made /\ ManagerOpen THEN Settle(direct \cup users, {}, "", own \cup Awaiting("own client"))
         ELSE Settle(direct, users, IF made THEN "closed" ELSE "failed", own)

\* The provider is there, and with it the clients that were waiting for it,
\* unless they cannot be made or configured.
ProviderArrives ==
  /\ provider = "creating" /\ IdentityOpen
  /\ provider' = "live"
  /\ \E made \in BOOLEAN : Created(made)
  /\ UNCHANGED <<kind, closed, token, producer, closer, orphan>>

\* closeProducer() goes on after the creation it waited for.
ProducerAfter == IF closer THEN "shut" ELSE "live"

\* connect() of the producer ends.
ProducerEnds ==
  /\ producer = "creating"
  /\ \/ /\ Settle(Awaiting("producer"), {}, "", own)
        /\ producer' = ProducerAfter
     \/ /\ Settle({}, Awaiting("producer"), "failed", own)
        /\ producer' = "none"
  /\ closer' = FALSE
  /\ UNCHANGED <<kind, closed, token, provider, client, orphan>>

\* A call, a read or a write ends.
CallEnds(i) ==
  /\ \E w \in External : i \in Awaiting(w)
  /\ Settle({i}, {}, "", own) \/ Settle({}, {i}, "failed", own)
  /\ UNCHANGED <<kind, closed, token, provider, client, producer, closer, orphan>>

------------------------------------------------------------------------------
(* Close.                                                                   *)

\* close of a client manager, if it belongs to n: its clients are shut, those
\* of inputs included.
ShutClients(n) ==
  IF Node.owner = n
  THEN /\ client' = IF client = "live" THEN "shut" ELSE client
       /\ own' = {}
  ELSE UNCHANGED <<client, own>>

\* close of the node, which answers nothing by itself.
CloseNode ==
  /\ NodeOpen
  /\ closed' = closed \cup {"node"}
  /\ ShutClients("node")
  /\ UNCHANGED <<kind, token, provider, producer, closer, orphan, todo, reply>>

\* close of a streaming, queue or Kafka configuration.
CloseConfig ==
  /\ Node.owner = "config" /\ "config" \notin closed
  /\ closed' = closed \cup {"config"}
  /\ ShutClients("config")
  /\ closer' = (producer = "creating")
  /\ producer' = IF producer = "live" THEN "shut" ELSE producer
  /\ UNCHANGED <<kind, token, provider, orphan, todo, reply>>

\* close of oci-config.
CloseIdentity ==
  /\ Node.owner # "none" /\ IdentityOpen
  /\ closed' = closed \cup {"identity"}
  /\ provider' = IF provider = "live" THEN "shut" ELSE provider
  /\ UNCHANGED <<kind, token, client, own, producer, closer, orphan, todo, reply>>

------------------------------------------------------------------------------
Next ==
  \/ TokenEnds \/ TokenExpires \/ ProviderFails \/ ProviderArrives \/ ProducerEnds
  \/ CloseNode \/ CloseConfig \/ CloseIdentity
  \/ \E i \in Inputs : Arrive(i) \/ CallEnds(i)

Spec == Init /\ [][Next]_vars

\* Creations and calls end: requests have a timeout, and a connection that is
\* not made is given up.  Nobody has to send an input or to close a node.
Fairness ==
  /\ WF_vars(TokenEnds)
  /\ WF_vars(ProviderFails \/ ProviderArrives)
  /\ WF_vars(ProducerEnds)
  /\ \A i \in Inputs : WF_vars(CallEnds(i))

FairSpec == Spec /\ Fairness

------------------------------------------------------------------------------
(* Properties.                                                              *)

\* What was created for a node that is closed is shut: no provider outlives its
\* oci-config, no client its manager, no producer its configuration unless its
\* creation was started after the close; a client of an input's own is live only
\* while the input is at work (oci-client.js:61-100, oci-config.js:145-173,
\* oci-kafka-config.js:116-157, oci-functions-invoke.js:128-135).
NothingOutlivesClose ==
  /\ provider = "live" => IdentityOpen
  /\ client = "live" \/ own # {} => ManagerOpen
  /\ producer = "live" /\ "config" \in closed => orphan
  /\ \A i \in own : reply[i] = "open"

\* Once it is closed a node that looks starts no request and sends no message,
\* whatever it was waiting for; reading the body of an answer it already has is
\* not a request.
ClosedIsQuiet ==
  [][(kind \in Careful) /\ ~NodeOpen =>
       \A i \in Inputs :
         /\ reply'[i] = "sent" => reply[i] = "sent"
         /\ todo'[i] # <<>> /\ Head(todo'[i]).await \in {"call", "write"} =>
              todo'[i] = todo[i]]_vars

\* An open node is never left with something that was disposed of, or with a
\* creation that nobody ends: what failed is forgotten, and the next input tries
\* again (oci-client.js:78-88, oci-config.js:150-157, oci-kafka-config.js:116-126,
\* scm-server.js:142-154).
SharedIsUsable ==
  /\ client = "shut" => ~ManagerOpen
  /\ provider = "shut" => ~IdentityOpen
  /\ producer = "shut" => "config" \in closed
  /\ client = "creating" => provider = "creating"
  /\ Awaiting("token") # {} => token = "creating"
  /\ Awaiting("producer") # {} => producer = "creating"
  /\ OnProvider # {} => provider = "creating"

\* Every input is answered, whoever closes or fails meanwhile.
EveryInputIsAnswered == <>[](\A i \in Inputs : reply[i] # "open")
==============================================================================
