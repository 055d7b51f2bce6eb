---------------------------- MODULE RequestProofs -----------------------------
(***************************************************************************)
(* Theorems about the nodes that answer their input with one request.      *)
(*                                                                         *)
(* Of RequestNodes: the types, NothingOutlivesClose, SharedIsUsable and    *)
(* ClosedIsQuiet, for any number of inputs and every handler.              *)
(* NothingOutlivesClose is not inductive: ProducerInv adds that a producer *)
(* in creation is either waited for by the close or younger than it.  That *)
(* whoever waits waits for a creation under way needs the form of the      *)
(* paths: only the first await of a handler is for something shared, which *)
(* HandlersAreFine shows of each of them; that a closed node stays quiet   *)
(* needs their checks, which CarefulHandlersHeed shows.                    *)
(*                                                                         *)
(* Of DataRules: what is computed from a request, a collection, a batch of *)
(* receipts and a topic, for collections, batches, patterns and topics of  *)
(* any length.                                                             *)
(***************************************************************************)
EXTENDS RequestNodes, DataRules, Integers, FiniteSetTheorems, SequenceTheorems, TLAPS

\* All awaits of a path but its first are calls, reads and writes.
Rest(p) == \A j \in DOMAIN p : j # 1 => p[j].await \in External
\* A path that RequestNodes can follow.
Fit(p) == p \in Seq(Steps) /\ p # <<>> /\ Rest(p)
Sound(h) == \A p \in h.paths : Fit(p)
\* The steps that can follow a first one.
Later == {s \in Steps : s.await \in External}

\* An await without a check is a step.
LEMMA OneStep == \A a \in Shared \cup External : On(a) \in Steps /\ On(a).await = a
  BY DEF On, Steps, Checks
\* An await with a check is a step.
LEMMA CheckedStep ==
  \A a \in Shared \cup External, c \in Checks : Then(a, c) \in Steps /\ Then(a, c).await = a
  BY DEF Then, Steps, Checks
\* Calls, reads and writes, with a check or without, can follow.
LEMMA LaterSteps ==
  /\ On("call") \in Later /\ On("read") \in Later /\ On("write") \in Later
  /\ \A c \in Checks :
       Then("call", c) \in Later /\ Then("read", c) \in Later /\ Then("write", c) \in Later
  BY OneStep, CheckedStep DEF Later, External
\* A path may begin with any shared value.
LEMMA FirstSteps ==
  \A a \in Shared : On(a) \in Steps /\ \A c \in Checks : Then(a, c) \in Steps
  BY OneStep, CheckedStep
\* Paths of up to four steps that go on with calls, reads and writes are fit.
LEMMA Short ==
  /\ \A s \in Steps : Fit(<<s>>)
  /\ \A s \in Steps, t \in Later : Fit(<<s, t>>)
  /\ \A s \in Steps, t, u \in Later : Fit(<<s, t, u>>)
  /\ \A s \in Steps, t, u, v \in Later : Fit(<<s, t, u, v>>)
<1>1. \A s \in Steps : Fit(<<s>>)
  BY DEF Fit, Rest, Later
<1>2. \A s \in Steps, t \in Later : Fit(<<s, t>>)
  BY DEF Fit, Rest, Later
<1>3. \A s \in Steps, t, u \in Later : Fit(<<s, t, u>>)
  BY DEF Fit, Rest, Later
<1>4. \A s \in Steps, t, u, v \in Later : Fit(<<s, t, u, v>>)
  BY DEF Fit, Rest, Later
<1>5. QED
  BY <1>1, <1>2, <1>3, <1>4

------------------------------------------------------------------------------
\* A handler whose paths are fit, with an owner that the closes know.
Fine(h) == Sound(h) /\ h.owner \in {"none", "node", "config"}

\* The handlers of the Fusion nodes, which all begin with the token.
LEMMA FusionIsFine ==
  /\ Fine(Fusion({Request}))
  /\ Fine(DeleteTransaction) /\ Fine(GetMeterReading) /\ Fine(ScmLookup)
<1>1. /\ Fit(Request)
      /\ Fit(<<Then("token", "refuse")>>)
      /\ Fit(<<Then("token", "open"), Then("call", "open")>>)
  BY FirstSteps, LaterSteps, Short DEF Shared, Checks, Request
<1>2. QED
  BY <1>1, Zenon
    DEF Fine, Sound, DeleteTransaction, GetMeterReading, ScmLookup, Fusion, FusionOpen,
        Handler

\* Those of the OCI nodes with a client manager of their own.
LEMMA ManagedIsFine ==
  /\ Fine(Managed({Served}))
  /\ Fine(IotSendCommand) /\ Fine(IotUpdateRelationship) 
  /\ Fine(OciObjectStorage) /\ Fine(OciFunctionsInvoke)
<1> DEFINE c == Then("client", "open")
<1>1. /\ c \in Steps
      /\ On("client") \in Steps
      /\ On("own client") \in Steps
      /\ Then("client", "refuse") \in Steps
  BY FirstSteps DEF Shared, Checks
<1>2. /\ On("call") \in Later
      /\ Then("call", "open") \in Later
      /\ Then("call", "refuse") \in Later
      /\ Then("read", "open") \in Later /\ Then("write", "open") \in Later
  BY LaterSteps DEF Checks
<1>3. /\ Fit(Served)
      /\ Fit(<<Then("client", "refuse")>>)
      /\ Fit(<<On("client"), Then("call", "refuse")>>)
  BY <1>1, <1>2, Short DEF Served
<1>4. Fit(<<On("client"), Then("call", "open"), Then("call", "open")>>)
  BY <1>1, <1>2, Short
<1>5. /\ Fit(<<c, Then("call", "open")>>)
      /\ Fit(<<c, Then("read", "open"), Then("call", "open")>>)
  BY <1>1, <1>2, Short
<1>6. /\ Fit(<<c, On("call"), Then("read", "open")>>)
      /\ Fit(<<c, On("call"), Then("read", "open"), Then("write", "open")>>)
  BY <1>1, <1>2, Short
<1>7. \A a \in {"client", "own client"} : Fit(<<On(a), On("call"), Then("read", "open")>>)
  BY <1>1, <1>2, Short
<1>8. Fine(OciObjectStorage)
  BY <1>3, <1>5, <1>6, Zenon DEF Fine, Sound, OciObjectStorage, Managed, Handler
<1>9. Fine(OciFunctionsInvoke)
  BY <1>7, Zenon DEF Fine, Sound, OciFunctionsInvoke, Managed, Handler
<1>10. QED
  BY <1>3, <1>4, <1>8, <1>9, Zenon
    DEF Fine, Sound, IotSendCommand, IotUpdateRelationship, Managed, Handler

\* Those of the OCI nodes that only remember that they are closed.
LEMMA OperationIsFine ==
  \A a \in Shared : Fine(Operation({Quietly(a)}))
<1>1. \A a \in Shared : Fit(Quietly(a))
  BY FirstSteps, LaterSteps, Short DEF Quietly, Checks
<1>2. QED
  BY <1>1, Zenon DEF Fine, Sound, Operation, Handler

\* All 28 handlers together.
LEMMA HandlersAreFine == \A k \in DOMAIN Handlers : Fine(Handlers[k])
<1>1. \A h \in {CreateAsset, CreateMeterReading, SubinventoryQuantityTransfer,
                MiscTransaction, GetInstalledBaseAsset, GetOrganizationId,
                MaintenanceWorkOrder, ManufacturingWorkOrder, WorkOrderChild,
                ManufacturingProductionTransaction, SmoEvent, FusionRequest} : Fine(h)
  BY FusionIsFine, Zenon
    DEF CreateAsset, CreateMeterReading, SubinventoryQuantityTransfer, MiscTransaction,
        GetInstalledBaseAsset, GetOrganizationId, MaintenanceWorkOrder,
        ManufacturingWorkOrder, WorkOrderChild, ManufacturingProductionTransaction,
        SmoEvent, FusionRequest
<1>2. \A h \in {OciNotification, OciLogging, OciLogAnalytics, IotGetContent} : Fine(h)
  BY ManagedIsFine, Zenon DEF OciNotification, OciLogging, OciLogAnalytics, IotGetContent
<1>3. \A h \in {OciApiRequest, OciStreamingOut, OciQueueOut, OciQueueAck,
                OciKafkaProducer} : Fine(h)
  BY OperationIsFine, Zenon
    DEF OciApiRequest, OciStreamingOut, OciQueueOut, OciQueueAck, OciKafkaProducer,
        Shared
<1>4. QED
  BY <1>1, <1>2, <1>3, FusionIsFine, ManagedIsFine DEF Handlers

Replies == {"new", "open", "sent", "dropped", "refused", "failed", "closed"}

------------------------------------------------------------------------------
\* What the proofs use of the node's handler.
LEMMA NodeFacts ==
  ASSUME TypeOK
  PROVE  /\ Node.owner \in {"none", "node", "config"}
         /\ \A p \in Node.paths : Fit(p)
  BY HandlersAreFine, KindsAssumption, Zenon DEF TypeOK, Node, Fine, Sound

\* An await that succeeds never leaves an input as if it had not arrived.
LEMMA VerdictFacts == \A p : Verdict(p) \in Replies \ {"new"}
  BY Zenon DEF Verdict, Replies

\* The catch of a handler ends the input.
LEMMA CaughtFacts ==
  \A why \in {"failed", "closed"} : Caught(why) \in Replies \ {"new", "open"}
  BY DEF Caught, Replies

\* Every input is on a fit path.
Waits == \A i \in Inputs : Rest(todo[i])

\* A client of an input's own belongs to an input at work.
Owned == \A i \in own : reply[i] = "open"

\* Past its first step a path only goes on with answers from outside.
LEMMA RestFacts ==
  ASSUME NEW p \in Seq(Steps), p # <<>>, Rest(p)
  PROVE  /\ Tail(p) \in Seq(Steps) /\ Rest(Tail(p))
         /\ Tail(p) # <<>> => Head(Tail(p)).await \in External
<1>1. /\ Tail(p) \in Seq(Steps)
      /\ DOMAIN Tail(p) = 1 .. (Len(p) - 1)
      /\ Len(p) \in Nat
      /\ DOMAIN p = 1 .. Len(p)
  OBVIOUS
<1>2. \A j \in DOMAIN Tail(p) : Tail(p)[j] = p[j + 1] /\ j + 1 \in DOMAIN p /\ j + 1 # 1
  BY <1>1
<1>3. Rest(Tail(p))
  BY <1>2 DEF Rest
<1>4. Tail(p) # <<>> => Head(Tail(p)).await \in External
  <2> SUFFICES ASSUME Tail(p) # <<>> PROVE Head(Tail(p)).await \in External
    OBVIOUS
  <2>1. 1 \in DOMAIN Tail(p) /\ Head(Tail(p)) = Tail(p)[1]
    BY <1>1
  <2>2. QED
    BY <1>2, <2>1 DEF Rest
<1>5. QED
  BY <1>1, <1>3, <1>4

\* What every change of todo, reply and own keeps.
Kept == /\ todo' \in [Inputs -> Seq(Steps)] /\ Waits'
        /\ reply' \in [Inputs -> Replies]
        /\ own' \subseteq Inputs /\ Owned'

\* The inputs that go on or fail wait for nothing shared any more, and nobody
\* begins to.
LEMMA SettleFacts ==
  ASSUME TypeOK, Waits, NEW S \in SUBSET Inputs, NEW F \in SUBSET Inputs,
         \A i \in S : todo[i] # <<>>,
         NEW why, F = {} \/ why \in {"failed", "closed"},
         NEW owners \in SUBSET Inputs, Settle(S, F, why, owners)
  PROVE  /\ Kept /\ own' \subseteq owners
         /\ \A w \in Shared : Awaiting(w)' \subseteq Awaiting(w) \ (S \cup F)
<1>1. reply' \in [Inputs -> Replies]
  BY VerdictFacts, CaughtFacts DEF Settle, TypeOK, Replies
<1>2. own' \subseteq owners /\ Owned'
  BY DEF Settle, Owned
<1>3. ASSUME NEW i \in Inputs
      PROVE  /\ todo'[i] \in Seq(Steps) /\ Rest(todo'[i])
             /\ i \in S \cup F => (todo'[i] # <<>> => Head(todo'[i]).await \in External)
             /\ i \notin S \cup F => todo'[i] = todo[i]
  <2>1. todo[i] \in Seq(Steps) /\ Rest(todo[i])
    BY DEF TypeOK, Waits
  <2>2. CASE i \in S /\ Verdict(todo[i]) = "open"
    <3>1. todo'[i] = Tail(todo[i])
      BY <2>2, Zenon DEF Settle
    <3>2. QED
      BY <2>1, <2>2, <3>1, RestFacts
  <2>3. CASE i \in S \cup F /\ ~(i \in S /\ Verdict(todo[i]) = "open")
    <3>1. todo'[i] = <<>>
      BY <2>3, Zenon DEF Settle
    <3>2. QED
      BY <2>3, <3>1 DEF Rest
  <2>4. CASE i \notin S \cup F
    <3>1. todo'[i] = todo[i]
      BY <2>4, Zenon DEF Settle
    <3>2. QED
      BY <2>1, <2>4, <3>1
  <2>5. QED
    BY <2>2, <2>3, <2>4
<1>4. todo' \in [Inputs -> Seq(Steps)] /\ Waits'
  BY <1>3 DEF Settle, Waits
<1>5. ASSUME NEW w \in Shared PROVE Awaiting(w)' \subseteq Awaiting(w) \ (S \cup F)
  BY <1>3 DEF Awaiting, Shared, External
<1>6. QED
  BY <1>1, <1>2, <1>4, <1>5 DEF Kept

\* The same when all of them go on.
LEMMA AllGoOn ==
  ASSUME TypeOK, Waits, NEW S \in SUBSET Inputs, \A i \in S : todo[i] # <<>>,
         NEW owners \in SUBSET Inputs, Settle(S, {}, "", owners)
  PROVE  /\ Kept /\ own' \subseteq owners
         /\ \A w \in Shared : Awaiting(w)' \subseteq Awaiting(w) \ S
<1>1. {} \in SUBSET Inputs
  OBVIOUS
<1>2. /\ Kept /\ own' \subseteq owners
      /\ \A w \in Shared : Awaiting(w)' \subseteq Awaiting(w) \ (S \cup {})
  BY <1>1, SettleFacts, Zenon
<1>3. QED
  BY <1>2

\* The same when all of them fail.
LEMMA AllFail ==
  ASSUME TypeOK, Waits, NEW F \in SUBSET Inputs,
         NEW owners \in SUBSET Inputs, Settle({}, F, "failed", owners)
  PROVE  /\ Kept /\ own' \subseteq owners
         /\ \A w \in Shared : Awaiting(w)' \subseteq Awaiting(w) \ F
<1>1. {} \in SUBSET Inputs /\ "failed" \in {"failed", "closed"}
  OBVIOUS
<1>2. /\ Kept /\ own' \subseteq owners
      /\ \A w \in Shared : Awaiting(w)' \subseteq Awaiting(w) \ ({} \cup F)
  <2>1. \A i \in {} : todo[i] # <<>>
    OBVIOUS
  <2>2. QED
    BY <1>1, <2>1, SettleFacts, Zenon
<1>3. QED
  BY <1>2

\* An input that starts to wait joins those of one shared value only.
LEMMA WaitFacts ==
  ASSUME TypeOK, Waits, Owned, NEW i \in Inputs, reply[i] = "new",
         NEW p \in Seq(Steps), Fit(p), Wait(i, p)
  PROVE  /\ Kept /\ own' = own
         /\ \A w \in Shared \ {Head(p).await} : Awaiting(w)' \subseteq Awaiting(w)
  BY DEF Kept, TypeOK, Waits, Owned, Wait, Awaiting, Fit, Replies

\* An input that is over at once waits for nothing.
LEMMA OverFacts ==
  ASSUME TypeOK, Waits, Owned, NEW i \in Inputs, reply[i] = "new",
         NEW r \in Replies, Over(i, r)
  PROVE  Kept /\ own' = own /\ \A w \in Shared : Awaiting(w)' = Awaiting(w)
  BY DEF Kept, TypeOK, Waits, Owned, Over, Awaiting, Replies

\* An input that finds its shared value there is past all waiting for one.
LEMMA PassFacts ==
  ASSUME TypeOK, Waits, NEW i \in Inputs, NEW p \in Seq(Steps), Fit(p),
         NEW owners \in SUBSET Inputs, Pass(i, p, owners)
  PROVE  /\ Kept
         /\ own' \subseteq owners
         /\ \A w \in Shared : Awaiting(w)' \subseteq Awaiting(w)
<1>1. reply' \in [Inputs -> Replies]
  BY VerdictFacts DEF Pass, TypeOK, Replies
<1>2. own' \subseteq owners /\ Owned'
  BY DEF Pass, Owned
<1>3. todo'[i] = Tail(p) \/ todo'[i] = <<>>
  BY DEF Pass, TypeOK
<1>4. /\ todo'[i] \in Seq(Steps) /\ Rest(todo'[i])
      /\ (todo'[i] # <<>> => Head(todo'[i]).await \in External)
  <2>1. CASE todo'[i] = Tail(p)
    BY <2>1, RestFacts DEF Fit
  <2>2. CASE todo'[i] = <<>>
    BY <2>2 DEF Rest
  <2>3. QED
    BY <1>3, <2>1, <2>2
<1>5. \A j \in Inputs \ {i} : todo'[j] = todo[j]
  BY DEF Pass, TypeOK
<1>6. todo' \in [Inputs -> Seq(Steps)]
  BY <1>4 DEF Pass, TypeOK
<1>7. Waits'
  BY <1>4, <1>5 DEF Waits
<1>8. ASSUME NEW w \in Shared PROVE Awaiting(w)' \subseteq Awaiting(w)
  BY <1>4, <1>5 DEF Awaiting, Shared, External
<1>9. QED
  BY <1>1, <1>2, <1>6, <1>7, <1>8 DEF Kept

------------------------------------------------------------------------------
\* The provider follows the close of oci-config.
ProviderInv ==
  /\ provider = "live" => IdentityOpen
  /\ provider = "shut" => ~IdentityOpen

\* The clients follow the close of their manager; one that is being created waits
\* for the provider.
ClientInv ==
  /\ client = "live" \/ own # {} => ManagerOpen
  /\ client = "shut" => ~ManagerOpen
  /\ client = "creating" => provider = "creating"

\* A close of oci-kafka-config that finds the producer in creation either waits for
\* it or is older than it.
ProducerInv ==
  /\ producer = "creating" /\ "config" \in closed => closer \/ orphan
  /\ producer = "live" /\ "config" \in closed => orphan
  /\ producer = "shut" => "config" \in closed
  /\ closer => "config" \in closed /\ producer = "creating"

\* Whoever waits for a shared value waits for a creation that is under way.
AwaitInv ==
  /\ Awaiting("token") # {} => token = "creating"
  /\ Awaiting("producer") # {} => producer = "creating"
  /\ OnProvider # {} => provider = "creating"

ReqInv == TypeOK /\ Waits /\ Owned /\ ProviderInv /\ ClientInv /\ ProducerInv /\ AwaitInv

------------------------------------------------------------------------------
\* Nothing is created and nobody waits at the beginning.
LEMMA InitHolds == Init => ReqInv
<1> SUFFICES ASSUME Init PROVE ReqInv
  OBVIOUS
<1>1. \A i \in Inputs : todo[i] = <<>> /\ <<>> \in Seq(Steps)
  BY DEF Init
<1>2. TypeOK /\ Owned
  BY <1>1 DEF Init, TypeOK, Stages, Owned
<1>3. Waits /\ AwaitInv
  <2>1. DOMAIN <<>> = {}
    OBVIOUS
  <2>2. Waits
    BY <1>1, <2>1, Zenon DEF Waits, Rest
  <2>3. AwaitInv
    BY <1>1 DEF AwaitInv, Awaiting, OnProvider
  <2>4. QED
    BY <2>2, <2>3
<1>4. ProviderInv /\ ClientInv /\ ProducerInv
  BY DEF Init, ProviderInv, ClientInv, ProducerInv
<1>5. QED
  BY <1>2, <1>3, <1>4 DEF ReqInv

\* An input that asks for the token.
LEMMA GetTokenStep ==
  ASSUME ReqInv, NEW i \in Inputs, reply[i] = "new", NEW p \in Seq(Steps), Fit(p),
         Head(p).await = "token",
         GetToken(i, p), UNCHANGED <<kind, closed, closer>>
  PROVE  ReqInv'
<1>1. CASE token = "live" /\ Pass(i, p, own)
  <2>1. Kept /\ own' \subseteq own /\ \A w \in Shared : Awaiting(w)' \subseteq Awaiting(w)
    BY <1>1, PassFacts DEF ReqInv, TypeOK
  <2>2. QED
    BY <1>1, <2>1
      DEF GetToken, Kept, ReqInv, TypeOK, ProviderInv, ClientInv, ProducerInv, AwaitInv,
          OnProvider, ManagerOpen, IdentityOpen, Node, Shared, Replies
<1>2. CASE token # "live" /\ Wait(i, p)
  <2>1. /\ Kept
        /\ own' = own
        /\ \A w \in Shared \ {"token"} : Awaiting(w)' \subseteq Awaiting(w)
    BY <1>2, WaitFacts DEF ReqInv
  <2>2. QED
    BY <1>2, <2>1
      DEF GetToken, Kept, ReqInv, TypeOK, ProviderInv, ClientInv, ProducerInv, AwaitInv,
          OnProvider, ManagerOpen, IdentityOpen, Node, Shared, Replies
<1>3. QED
  BY <1>1, <1>2 DEF GetToken

\* An input that asks for the provider.
LEMMA GetAuthProviderStep ==
  ASSUME ReqInv, NEW i \in Inputs, reply[i] = "new", NEW p \in Seq(Steps), Fit(p),
         Head(p).await = "provider",
         GetAuthProvider(i, p), UNCHANGED <<kind, closed, closer>>
  PROVE  ReqInv'
<1>1. CASE ~IdentityOpen /\ Over(i, Caught("failed")) /\ UNCHANGED provider
  <2>1. Kept /\ own' = own /\ \A w \in Shared : Awaiting(w)' = Awaiting(w)
    BY <1>1, OverFacts, CaughtFacts DEF ReqInv
  <2>2. QED
    BY <1>1, <2>1
      DEF GetAuthProvider, Kept, ReqInv, TypeOK, ProviderInv, ClientInv, ProducerInv,
          AwaitInv, OnProvider, ManagerOpen, IdentityOpen, Node, Shared, Replies
<1>2. CASE provider = "live" /\ Pass(i, p, own) /\ UNCHANGED provider
  <2>1. Kept /\ own' \subseteq own /\ \A w \in Shared : Awaiting(w)' \subseteq Awaiting(w)
    BY <1>2, PassFacts DEF ReqInv, TypeOK
  <2>2. QED
    BY <1>2, <2>1
      DEF GetAuthProvider, Kept, ReqInv, TypeOK, ProviderInv, ClientInv, ProducerInv,
          AwaitInv, OnProvider, ManagerOpen, IdentityOpen, Node, Shared, Replies
<1>3. CASE IdentityOpen /\ provider # "live" /\ Wait(i, p) /\ provider' = "creating"
  <2>1. /\ Kept
        /\ own' = own
        /\ \A w \in Shared \ {"provider"} : Awaiting(w)' \subseteq Awaiting(w)
    BY <1>3, WaitFacts DEF ReqInv
  <2>2. QED
    BY <1>3, <2>1
      DEF GetAuthProvider, Kept, ReqInv, TypeOK, ProviderInv, ClientInv, ProducerInv,
          AwaitInv, OnProvider, ManagerOpen, IdentityOpen, Node, Shared, Replies, Stages
<1>4. QED
  BY <1>1, <1>2, <1>3 DEF GetAuthProvider

\* An input that asks for the shared client.
LEMMA GetStep ==
  ASSUME ReqInv, NEW i \in Inputs, reply[i] = "new", NEW p \in Seq(Steps), Fit(p),
         Head(p).await = "client",
         Get(i, p), UNCHANGED <<kind, closed, closer>>
  PROVE  ReqInv'
<1>1. CASE /\ UNCHANGED <<client, provider>>
           /\ \E why \in {"failed", "closed"} : Over(i, Caught(why))
  <2>1. Kept /\ own' = own /\ \A w \in Shared : Awaiting(w)' = Awaiting(w)
    BY <1>1, OverFacts, CaughtFacts DEF ReqInv
  <2>2. QED
    BY <1>1, <2>1
      DEF Get, Kept, ReqInv, TypeOK, ProviderInv, ClientInv, ProducerInv, AwaitInv,
          OnProvider, ManagerOpen, IdentityOpen, Node, Shared, Replies, Stages
<1>2. CASE /\ ManagerOpen
           /\ Pass(i, p, own)
           /\ client' \in {client, "live"}
           /\ UNCHANGED provider
  <2>1. Kept /\ own' \subseteq own /\ \A w \in Shared : Awaiting(w)' \subseteq Awaiting(w)
    BY <1>2, PassFacts DEF ReqInv, TypeOK
  <2>2. QED
    BY <1>2, <2>1
      DEF Get, Kept, ReqInv, TypeOK, ProviderInv, ClientInv, ProducerInv, AwaitInv,
          OnProvider, ManagerOpen, IdentityOpen, Node, Shared, Replies, Stages
<1>3. CASE /\ Wait(i, p) /\ client \in {"none", "creating"} /\ client' = "creating"
           /\ provider' = "creating" /\ (IdentityOpen \/ provider' = provider)
  <2>1. /\ Kept
        /\ own' = own
        /\ \A w \in Shared \ {"client"} : Awaiting(w)' \subseteq Awaiting(w)
    BY <1>3, WaitFacts DEF ReqInv
  <2>2. QED
    BY <1>3, <2>1
      DEF Get, Kept, ReqInv, TypeOK, ProviderInv, ClientInv, ProducerInv, AwaitInv,
          OnProvider, ManagerOpen, IdentityOpen, Node, Shared, Replies, Stages
<1>4. QED
  BY <1>1, <1>2, <1>3 DEF Get, ReqInv, ClientInv

\* An input that has a client made for itself.
LEMMA CreateStep ==
  ASSUME ReqInv, NEW i \in Inputs, reply[i] = "new", NEW p \in Seq(Steps), Fit(p),
         Head(p).await = "own client",
         Create(i, p), UNCHANGED <<kind, closed, closer>>
  PROVE  ReqInv'
<1>1. CASE UNCHANGED provider /\ \E why \in {"failed", "closed"} : Over(i, Caught(why))
  <2>1. Kept /\ own' = own /\ \A w \in Shared : Awaiting(w)' = Awaiting(w)
    BY <1>1, OverFacts, CaughtFacts DEF ReqInv
  <2>2. QED
    BY <1>1, <2>1
      DEF Create, Kept, ReqInv, TypeOK, ProviderInv, ClientInv, ProducerInv, AwaitInv,
          OnProvider, ManagerOpen, IdentityOpen, Node, Shared, Replies, Stages
<1>2. CASE ManagerOpen /\ UNCHANGED provider /\ Pass(i, p, own \cup {i})
  <2>1. /\ Kept
        /\ own' \subseteq own \cup {i}
        /\ \A w \in Shared : Awaiting(w)' \subseteq Awaiting(w)
    BY <1>2, PassFacts DEF ReqInv, TypeOK
  <2>2. QED
    BY <1>2, <2>1
      DEF Create, Kept, ReqInv, TypeOK, ProviderInv, ClientInv, ProducerInv, AwaitInv,
          OnProvider, ManagerOpen, IdentityOpen, Node, Shared, Replies, Stages
<1>3. CASE IdentityOpen /\ provider # "live" /\ Wait(i, p) /\ provider' = "creating"
  <2>1. /\ Kept
        /\ own' = own
        /\ \A w \in Shared \ {"own client"} : Awaiting(w)' \subseteq Awaiting(w)
    BY <1>3, WaitFacts DEF ReqInv
  <2>2. QED
    BY <1>3, <2>1
      DEF Create, Kept, ReqInv, TypeOK, ProviderInv, ClientInv, ProducerInv, AwaitInv,
          OnProvider, ManagerOpen, IdentityOpen, Node, Shared, Replies, Stages
<1>4. QED
  BY <1>1, <1>2, <1>3 DEF Create

\* An input that asks for the producer.
LEMMA GetProducerStep ==
  ASSUME ReqInv, NEW i \in Inputs, reply[i] = "new", NEW p \in Seq(Steps), Fit(p),
         Head(p).await = "producer",
         GetProducer(i, p), UNCHANGED <<kind, closed, closer>>
  PROVE  ReqInv'
<1>1. CASE Over(i, Caught("failed")) /\ UNCHANGED <<producer, orphan>>
  <2>1. Kept /\ own' = own /\ \A w \in Shared : Awaiting(w)' = Awaiting(w)
    BY <1>1, OverFacts, CaughtFacts DEF ReqInv
  <2>2. QED
    BY <1>1, <2>1
      DEF GetProducer, Kept, ReqInv, TypeOK, ProviderInv, ClientInv, ProducerInv,
          AwaitInv, OnProvider, ManagerOpen, IdentityOpen, Node, Shared, Replies, Stages
<1>2. CASE Pass(i, p, own) /\ UNCHANGED <<producer, orphan>>
  <2>1. Kept /\ own' \subseteq own /\ \A w \in Shared : Awaiting(w)' \subseteq Awaiting(w)
    BY <1>2, PassFacts DEF ReqInv, TypeOK
  <2>2. QED
    BY <1>2, <2>1
      DEF GetProducer, Kept, ReqInv, TypeOK, ProviderInv, ClientInv, ProducerInv,
          AwaitInv, OnProvider, ManagerOpen, IdentityOpen, Node, Shared, Replies, Stages
<1>3. CASE producer = "creating" /\ Wait(i, p) /\ UNCHANGED <<producer, orphan>>
  <2>1. /\ Kept
        /\ own' = own
        /\ \A w \in Shared \ {"producer"} : Awaiting(w)' \subseteq Awaiting(w)
    BY <1>3, WaitFacts DEF ReqInv
  <2>2. QED
    BY <1>3, <2>1
      DEF GetProducer, Kept, ReqInv, TypeOK, ProviderInv, ClientInv, ProducerInv,
          AwaitInv, OnProvider, ManagerOpen, IdentityOpen, Node, Shared, Replies, Stages
<1>4. CASE /\ producer \notin {"live", "creating"}
           /\ producer' = "creating"
           /\ orphan' = ("config" \in closed)
           /\ Wait(i, p)
  <2>1. /\ Kept
        /\ own' = own
        /\ \A w \in Shared \ {"producer"} : Awaiting(w)' \subseteq Awaiting(w)
    BY <1>4, WaitFacts DEF ReqInv
  <2>2. orphan' \in BOOLEAN /\ (orphan' <=> "config" \in closed)
    <3>1. orphan' = ("config" \in closed)
      BY <1>4, Zenon
    <3>2. ("config" \in closed) \in BOOLEAN
      OBVIOUS
    <3>3. orphan' \in BOOLEAN
      BY <3>1, <3>2, Zenon
    <3>4. orphan' <=> "config" \in closed
      BY <3>1, Zenon
    <3>5. QED
      BY <3>3, <3>4
  <2>3. producer \notin {"live", "creating"} /\ producer' = "creating"
    BY <1>4
  <2>4. QED
    BY <2>1, <2>2, <2>3
      DEF GetProducer, Kept, ReqInv, TypeOK, ProviderInv, ClientInv, ProducerInv,
          AwaitInv, OnProvider, ManagerOpen, IdentityOpen, Node, Shared, Replies, Stages
<1>5. QED
  BY <1>1, <1>2, <1>3, <1>4, Zenon DEF GetProducer

\* An input arrives.
LEMMA ArriveStep == ASSUME ReqInv, NEW i \in Inputs, Arrive(i) PROVE ReqInv'
<1>1. CASE /\ Over(i, "refused") \/ Over(i, "dropped") \/ Over(i, "closed")
           /\ UNCHANGED <<token, provider, client, producer, orphan>>
  <2>1. Kept /\ own' = own /\ \A w \in Shared : Awaiting(w)' = Awaiting(w)
    BY <1>1, OverFacts DEF ReqInv, Arrive, Replies
  <2>2. QED
    BY <1>1, <2>1
      DEF Arrive, Kept, ReqInv, TypeOK, ProviderInv, ClientInv, ProducerInv, AwaitInv,
          OnProvider, ManagerOpen, IdentityOpen, Node, Shared, Replies, Stages
<1>2. ASSUME NEW p \in Node.paths, Obtain(i, p), UNCHANGED <<kind, closed, closer>>,
             reply[i] = "new"
      PROVE  ReqInv'
  <2>1. Fit(p) /\ p \in Seq(Steps)
    BY NodeFacts DEF ReqInv, Fit
  <2>2. QED
    BY <1>2, <2>1, GetTokenStep, GetAuthProviderStep, GetStep, CreateStep,
       GetProducerStep
      DEF Obtain
<1>3. QED
  BY <1>1, <1>2 DEF Arrive

\* The token comes, fails or expires.
LEMMA TokenStep == ASSUME ReqInv, TokenEnds \/ TokenExpires PROVE ReqInv'
<1>1. CASE TokenEnds
  <2>1. /\ Kept
        /\ own' \subseteq own
        /\ \A w \in Shared : Awaiting(w)' \subseteq Awaiting(w) \ Awaiting("token")
    <3>1. Awaiting("token") \in SUBSET Inputs /\ own \in SUBSET Inputs
      BY DEF Awaiting, ReqInv, TypeOK
    <3>2. \A i \in Awaiting("token") : todo[i] # <<>>
      BY DEF Awaiting
    <3>3. QED
      BY <1>1, <3>1, <3>2, AllGoOn, AllFail DEF TokenEnds, ReqInv
  <2>2. QED
    BY <1>1, <2>1
      DEF TokenEnds, Kept, ReqInv, TypeOK, ProviderInv, ClientInv, ProducerInv,
          AwaitInv, OnProvider, ManagerOpen, IdentityOpen, Node, Shared, Replies, Stages
<1>2. CASE TokenExpires
  BY <1>2
    DEF TokenExpires, Waits, Owned, Awaiting, Kept, ReqInv, TypeOK, ProviderInv,
        ClientInv, ProducerInv, AwaitInv, OnProvider, ManagerOpen, IdentityOpen, Node,
        Shared, Replies, Stages
<1>3. QED
  BY <1>1, <1>2

\* The provider fails, and with it every client that waits for it.
LEMMA ProviderFailsStep == ASSUME ReqInv, ProviderFails PROVE ReqInv'
<1>1. /\ Kept
      /\ own' \subseteq own
      /\ \A w \in Shared : Awaiting(w)' \subseteq Awaiting(w) \ OnProvider
  <2>1. OnProvider \in SUBSET Inputs /\ own \in SUBSET Inputs
    BY DEF OnProvider, Awaiting, ReqInv, TypeOK
  <2>2. QED
    BY <2>1, AllFail DEF ProviderFails, ReqInv
<1>2. QED
  BY <1>1
    DEF ProviderFails, ClientFails, Kept, ReqInv, TypeOK, ProviderInv, ClientInv,
        ProducerInv, AwaitInv, OnProvider, ManagerOpen, IdentityOpen, Node, Shared,
        Replies, Stages

\* The provider arrives: the clients are made, fail, or are shut behind the close.
LEMMA ProviderArrivesStep == ASSUME ReqInv, ProviderArrives PROVE ReqInv'
<1> PICK made \in BOOLEAN : Created(made)
  BY DEF ProviderArrives
<1>1. /\ OnProvider \subseteq Inputs /\ Awaiting("own client") \subseteq Inputs
      /\ \A i \in OnProvider : todo[i] # <<>>
      /\ Awaiting("provider") \subseteq OnProvider
  BY DEF OnProvider, Awaiting
<1>2. /\ Kept /\ \A w \in Shared : Awaiting(w)' \subseteq Awaiting(w) \ OnProvider
      /\ own' \subseteq own \/ ManagerOpen
  <2>1. CASE made /\ ManagerOpen
    <3>1. Settle(OnProvider, {}, "", own \cup Awaiting("own client"))
      <4>1. Awaiting("provider") \cup (OnProvider \ Awaiting("provider")) = OnProvider
        BY <1>1
      <4>2. QED
        BY <2>1, <4>1, Zenon DEF Created
    <3>2. own \cup Awaiting("own client") \in SUBSET Inputs
      BY <1>1 DEF ReqInv, TypeOK
    <3>3. QED
      <4>1. TypeOK /\ Waits /\ OnProvider \in SUBSET Inputs
        BY <1>1 DEF ReqInv
      <4>2. Kept /\ \A w \in Shared : Awaiting(w)' \subseteq Awaiting(w) \ OnProvider
        BY <1>1, <3>1, <3>2, <4>1, AllGoOn
      <4>3. QED
        BY <2>1, <4>2
  <2>2. CASE ~(made /\ ManagerOpen)
    <3>1. \E why \in {"failed", "closed"} :
            Settle(Awaiting("provider"), OnProvider \ Awaiting("provider"), why, own)
      BY <2>2, Zenon DEF Created
    <3>2. own \in SUBSET Inputs
      BY DEF ReqInv, TypeOK
    <3>3. PICK why \in {"failed", "closed"} :
            Settle(Awaiting("provider"), OnProvider \ Awaiting("provider"), why, own)
      BY <3>1
    <3>4. /\ Kept /\ own' \subseteq own
          /\ \A w \in Shared : Awaiting(w)' \subseteq
               Awaiting(w) \ (Awaiting("provider") \cup (OnProvider \ Awaiting("provider")))
      <4>1. /\ Awaiting("provider") \in SUBSET Inputs
            /\ OnProvider \ Awaiting("provider") \in SUBSET Inputs
        BY <1>1
      <4>2. \A i \in Awaiting("provider") : todo[i] # <<>>
        BY <1>1
      <4>3. TypeOK /\ Waits
        BY DEF ReqInv
      <4>4. QED
        BY <3>2, <3>3, <4>1, <4>2, <4>3, SettleFacts
    <3>5. QED
      BY <3>4
  <2>3. QED
    BY <2>1, <2>2
<1>3. client' = IF client # "creating" THEN client ELSE IF ~made THEN "none"
                ELSE IF ManagerOpen THEN "live" ELSE "shut"
  BY DEF Created
<1>4. QED
  BY <1>2, <1>3
    DEF ProviderArrives, Kept, ReqInv, TypeOK, ProviderInv, ClientInv, ProducerInv,
        AwaitInv, OnProvider, ManagerOpen, IdentityOpen, Node, Shared, Replies, Stages

\* The producer's creation ends, and the close that waited for it goes on.
LEMMA ProducerEndsStep == ASSUME ReqInv, ProducerEnds PROVE ReqInv'
<1>1. /\ Kept
      /\ own' \subseteq own
      /\ \A w \in Shared : Awaiting(w)' \subseteq Awaiting(w) \ Awaiting("producer")
  <2>1. Awaiting("producer") \in SUBSET Inputs /\ own \in SUBSET Inputs
    BY DEF Awaiting, ReqInv, TypeOK
  <2>2. \A i \in Awaiting("producer") : todo[i] # <<>>
    BY DEF Awaiting
  <2>3. QED
    BY <2>1, <2>2, AllGoOn, AllFail DEF ProducerEnds, ReqInv
<1>2. QED
  BY <1>1
    DEF ProducerEnds, ProducerAfter, Kept, ReqInv, TypeOK, ProviderInv, ClientInv,
        ProducerInv, AwaitInv, OnProvider, ManagerOpen, IdentityOpen, Node, Shared,
        Replies, Stages

\* A call of one input ends.
LEMMA CallEndsStep == ASSUME ReqInv, NEW i \in Inputs, CallEnds(i) PROVE ReqInv'
<1>1. Kept /\ own' \subseteq own /\ \A w \in Shared : Awaiting(w)' \subseteq Awaiting(w)
  <2>1. {i} \in SUBSET Inputs /\ own \in SUBSET Inputs
    BY DEF ReqInv, TypeOK
  <2>2. \A j \in {i} : todo[j] # <<>>
    BY DEF CallEnds, Awaiting
  <2>3. QED
    BY <2>1, <2>2, AllGoOn, AllFail DEF CallEnds, ReqInv
<1>2. QED
  BY <1>1
    DEF CallEnds, Kept, ReqInv, TypeOK, ProviderInv, ClientInv, ProducerInv, AwaitInv,
        OnProvider, ManagerOpen, IdentityOpen, Node, Shared, Replies, Stages

\* The node, its configuration or its identity closes.
LEMMA CloseStep == ASSUME ReqInv, CloseNode \/ CloseConfig \/ CloseIdentity PROVE ReqInv'
<1>1. Node.owner \in {"none", "node", "config"} /\ Node' = Node
  BY NodeFacts DEF ReqInv, Node, CloseNode, CloseConfig, CloseIdentity
<1>2. CASE CloseNode
  BY <1>1, <1>2
    DEF CloseNode, ShutClients, Waits, Owned, Awaiting, Kept, ReqInv, TypeOK,
        ProviderInv, ClientInv, ProducerInv, AwaitInv, OnProvider, ManagerOpen,
        IdentityOpen, Node, Shared, Replies, Stages
<1>3. CASE CloseConfig
  <2>1. closer' \in BOOLEAN /\ (closer' <=> producer = "creating")
    BY <1>3, Zenon DEF CloseConfig
  <2>2. /\ closed' = closed \cup {"config"}
        /\ "config" \notin closed
        /\ Node.owner = "config"
        /\ ShutClients("config")
        /\ producer' = IF producer = "live" THEN "shut" ELSE producer
        /\ UNCHANGED <<kind, token, provider, orphan, todo, reply>>
    BY <1>3 DEF CloseConfig
  <2>3. QED
    BY <1>1, <2>1, <2>2
      DEF ShutClients, Waits, Owned, Awaiting, Kept, ReqInv, TypeOK, ProviderInv,
          ClientInv, ProducerInv, AwaitInv, OnProvider, ManagerOpen, IdentityOpen, Node,
          Shared, Replies, Stages
<1>4. CASE CloseIdentity
  BY <1>1, <1>4
    DEF CloseIdentity, Waits, Owned, Awaiting, Kept, ReqInv, TypeOK, ProviderInv,
        ClientInv, ProducerInv, AwaitInv, OnProvider, ManagerOpen, IdentityOpen, Node,
        Shared, Replies, Stages
<1>5. QED
  BY <1>2, <1>3, <1>4

------------------------------------------------------------------------------
\* Every step keeps the invariant.
LEMMA StepHolds == ReqInv /\ [Next]_vars => ReqInv'
<1>1. ASSUME ReqInv, UNCHANGED vars PROVE ReqInv'
  BY <1>1
    DEF vars, Waits, Owned, Awaiting, Kept, ReqInv, TypeOK, ProviderInv, ClientInv,
        ProducerInv, AwaitInv, OnProvider, ManagerOpen, IdentityOpen, Node, Shared,
        Replies, Stages
<1>2. QED
  BY <1>1, ArriveStep, TokenStep, ProviderFailsStep, ProviderArrivesStep,
     ProducerEndsStep, CallEndsStep, CloseStep
    DEF Next

\* The inductive invariant of RequestNodes, whatever the inputs and the handlers.
THEOREM RequestInvariant == Spec => []ReqInv
<1>1. QED
  BY InitHolds, StepHolds, PTL DEF Spec

\* What is created for a node that closes meanwhile is shut: for any number of inputs,
\* all of the handlers, and any order of creations, failures and closes.
THEOREM LateIsShut == Spec => []NothingOutlivesClose
<1>1. ReqInv => NothingOutlivesClose
  BY DEF ReqInv, NothingOutlivesClose, Owned, ProviderInv, ClientInv, ProducerInv
<1>2. QED
  BY <1>1, RequestInvariant, PTL

\* Whoever waits waits for a creation that is under way, and nothing that was shut is
\* left in an open manager, in any number of inputs.
THEOREM ForgottenIsMadeAgain == Spec => []SharedIsUsable
<1>1. ReqInv => SharedIsUsable
  BY DEF ReqInv, SharedIsUsable, ProviderInv, ClientInv, ProducerInv, AwaitInv
<1>2. QED
  BY <1>1, RequestInvariant, PTL

------------------------------------------------------------------------------
(* ClosedIsQuiet.                                                           *)

Clients == {"client", "own client"}

\* A step behind which a closed node does not go on: it looks, or the manager,
\* which closes with the node, refuses.
Guarded(s, owner) == s.then # {} \/ (owner = "node" /\ s.await \in Clients)

\* Every step of the path is guarded, or is followed by a read only.
Wary(q, owner) ==
  \A j \in DOMAIN q :
    Guarded(q[j], owner) \/ (j + 1 \in DOMAIN q /\ q[j + 1].await = "read")

\* A handler that looks whether its node is closed looks before each request; one
\* that does not look at first asks its own manager, which does.
Heeds(h) ==
  /\ \A p \in h.paths : Wary(p, h.owner)
  /\ h.start = {} => h.owner = "node" /\ \A p \in h.paths : Head(p).await \in Clients

\* Paths of guarded steps are wary.
LEMMA ShortWary ==
  ASSUME NEW owner
  PROVE  /\ \A s : Guarded(s, owner) => Wary(<<s>>, owner)
         /\ \A s, t : Guarded(s, owner) /\ Guarded(t, owner) => Wary(<<s, t>>, owner)
  BY DEF Wary

\* In a longer one a read may follow a step that is not guarded.
LEMMA WaryThree ==
  ASSUME NEW owner, NEW s, NEW t, NEW u, Guarded(s, owner), Guarded(u, owner),
         Guarded(t, owner) \/ u.await = "read"
  PROVE  Wary(<<s, t, u>>, owner)
  BY DEF Wary

\* The same for four steps, the third of them a read.
LEMMA WaryFour ==
  ASSUME NEW owner, NEW s, NEW t, NEW u, NEW v, Guarded(s, owner), u.await = "read",
         Guarded(u, owner), Guarded(v, owner)
  PROVE  Wary(<<s, t, u, v>>, owner)
  BY DEF Wary

\* A check guards, and so does a manager that closes with the node.
LEMMA GuardedSteps ==
  ASSUME NEW owner
  PROVE  /\ \A a, c : Guarded(Then(a, c), owner) /\ Then(a, c).await = a
         /\ \A a : On(a).await = a
         /\ owner = "node" => \A a \in Clients : Guarded(On(a), owner)
  BY DEF Guarded, Then, On

\* The rest of a wary path is wary.
LEMMA WaryTail ==
  ASSUME NEW q \in Seq(Steps), q # <<>>, NEW owner, Wary(q, owner)
  PROVE  Wary(Tail(q), owner)
<1>1. /\ DOMAIN Tail(q) = 1 .. (Len(q) - 1)
      /\ Len(q) \in Nat
      /\ DOMAIN q = 1 .. Len(q)
  OBVIOUS
<1>2. \A j \in DOMAIN Tail(q) : Tail(q)[j] = q[j + 1] /\ j + 1 \in DOMAIN q
  BY <1>1
<1> SUFFICES ASSUME NEW j \in DOMAIN Tail(q)
             PROVE  \/ Guarded(Tail(q)[j], owner)
                    \/ j + 1 \in DOMAIN Tail(q) /\ Tail(q)[j + 1].await = "read"
  BY DEF Wary
<1>3. \/ Guarded(q[j + 1], owner)
      \/ (j + 1) + 1 \in DOMAIN q /\ q[(j + 1) + 1].await = "read"
  BY <1>2 DEF Wary
<1>4. (j + 1) + 1 \in DOMAIN q => j + 1 \in DOMAIN Tail(q)
  BY <1>1
<1>5. QED
  BY <1>2, <1>3, <1>4

\* The lookups that look whether their node is closed.
LEMMA FusionHeeds == Heeds(GetMeterReading) /\ Heeds(ScmLookup)
<1>1. Wary(<<Then("token", "open"), Then("call", "open")>>, "none")
  BY GuardedSteps, ShortWary
<1>2. {"open"} # {}
  OBVIOUS
<1>3. QED
  BY <1>1, <1>2, Zenon DEF Heeds, GetMeterReading, ScmLookup, FusionOpen, Handler

\* The nodes with a client manager of their own.
LEMMA ManagedHeeds ==
  /\ Heeds(Managed({Served}))
  /\ Heeds(IotSendCommand) /\ Heeds(IotUpdateRelationship)
  /\ Heeds(OciObjectStorage) /\ Heeds(OciFunctionsInvoke)
<1> DEFINE c == Then("client", "open")
           G(s) == Guarded(s, "node")
           H(p) == p # <<>> /\ Wary(p, "node") /\ Head(p).await \in Clients
<1>1. /\ \A a, k : G(Then(a, k)) /\ Then(a, k).await = a
      /\ \A a : On(a).await = a
      /\ \A a \in Clients : G(On(a))
  BY GuardedSteps
<1>2. "client" \in Clients /\ "own client" \in Clients
  BY DEF Clients
<1>3. /\ \A s : G(s) /\ s.await \in Clients => H(<<s>>)
      /\ \A s, t : G(s) /\ G(t) /\ s.await \in Clients => H(<<s, t>>)
      /\ \A s, t, u : G(s) /\ G(u) /\ (G(t) \/ u.await = "read") /\ s.await \in Clients
                        => H(<<s, t, u>>)
      /\ \A s, t, u, v : G(s) /\ G(u) /\ G(v) /\ u.await = "read" /\ s.await \in Clients
                           => H(<<s, t, u, v>>)
  <2>1. \A s : G(s) /\ s.await \in Clients => H(<<s>>)
    BY ShortWary
  <2>2. \A s, t : G(s) /\ G(t) /\ s.await \in Clients => H(<<s, t>>)
    BY ShortWary
  <2>3. ASSUME NEW s, NEW t, NEW u, G(s), G(u), G(t) \/ u.await = "read", s.await \in Clients
        PROVE  H(<<s, t, u>>)
    <3>1. Wary(<<s, t, u>>, "node")
      BY <2>3, WaryThree
    <3>2. QED
      BY <2>3, <3>1
  <2>4. ASSUME NEW s, NEW t, NEW u, NEW v, G(s), G(u), G(v), u.await = "read",
               s.await \in Clients
        PROVE  H(<<s, t, u, v>>)
    <3>1. Wary(<<s, t, u, v>>, "node")
      BY <2>4, WaryFour
    <3>2. QED
      BY <2>4, <3>1
  <2>5. QED
    BY <2>1, <2>2, <2>3, <2>4
<1> HIDE DEF G, H
<1>4. H(Served) /\ H(<<Then("client", "refuse")>>) /\ H(<<On("client"), Then("call", "refuse")>>)
  BY <1>1, <1>2, <1>3 DEF Served
<1>5. H(<<On("client"), Then("call", "open"), Then("call", "open")>>)
  BY <1>1, <1>2, <1>3
<1>6. H(<<c, Then("call", "open")>>) /\ H(<<c, Then("read", "open"), Then("call", "open")>>)
  BY <1>1, <1>2, <1>3
<1>7. /\ H(<<c, On("call"), Then("read", "open")>>)
      /\ H(<<c, On("call"), Then("read", "open"), Then("write", "open")>>)
  BY <1>1, <1>2, <1>3
<1>8. \A a \in Clients : H(<<On(a), On("call"), Then("read", "open")>>)
  BY <1>1, <1>2, <1>3
<1>9. ASSUME NEW P, \A p \in P : H(p) PROVE Heeds(Managed(P))
  BY <1>9, Zenon DEF H, Heeds, Managed, Handler
<1>10. Heeds(OciObjectStorage)
  BY <1>4, <1>6, <1>7, <1>9, Zenon DEF OciObjectStorage
<1>11. Heeds(OciFunctionsInvoke)
  BY <1>8, <1>9, Zenon DEF OciFunctionsInvoke, Clients
<1>12. Heeds(IotSendCommand) /\ Heeds(IotUpdateRelationship) /\ Heeds(Managed({Served}))
  BY <1>4, <1>5, <1>9, Zenon DEF IotSendCommand, IotUpdateRelationship
<1>13. QED
  BY <1>10, <1>11, <1>12

\* The nodes that only remember that they are closed.
LEMMA OperationHeeds == \A a : Heeds(Operation({Quietly(a)}))
<1> TAKE a
<1>1. Wary(Quietly(a), "config")
  BY GuardedSteps, ShortWary DEF Quietly
<1>2. {"quiet"} # {}
  OBVIOUS
<1>3. QED
  BY <1>1, <1>2, Zenon DEF Heeds, Operation, Handler

\* Every handler that looks at all.
LEMMA CarefulHandlersHeed == \A k \in Careful : Heeds(Handlers[k])
<1> DEFINE Looks(h) == h.owner # "none" \/ h.start # {} => Heeds(h)
<1>1. \A P : Looks(Fusion(P))
  BY Zenon DEF Fusion, Handler
<1>2. \A h \in {CreateAsset, CreateMeterReading, SubinventoryQuantityTransfer,
                MiscTransaction, GetInstalledBaseAsset, GetOrganizationId,
                MaintenanceWorkOrder, ManufacturingWorkOrder, WorkOrderChild,
                ManufacturingProductionTransaction, SmoEvent, FusionRequest,
                DeleteTransaction} : Looks(h)
  BY <1>1, Zenon
    DEF CreateAsset, CreateMeterReading, SubinventoryQuantityTransfer, MiscTransaction,
        GetInstalledBaseAsset, GetOrganizationId, MaintenanceWorkOrder,
        ManufacturingWorkOrder, WorkOrderChild, ManufacturingProductionTransaction,
        SmoEvent, FusionRequest, DeleteTransaction
<1>3. \A h \in {OciNotification, OciLogging, OciLogAnalytics, IotGetContent} : Heeds(h)
  BY ManagedHeeds, Zenon DEF OciNotification, OciLogging, OciLogAnalytics, IotGetContent
<1>4. \A h \in {OciApiRequest, OciStreamingOut, OciQueueOut, OciQueueAck,
                OciKafkaProducer} : Heeds(h)
  BY OperationHeeds, Zenon
    DEF OciApiRequest, OciStreamingOut, OciQueueOut, OciQueueAck, OciKafkaProducer
<1>5. \A k \in DOMAIN Handlers : Looks(Handlers[k])
  <2> HIDE DEF Looks
  <2>1. \A h \in {OciNotification, OciLogging, OciLogAnalytics, IotGetContent,
                  OciApiRequest, OciStreamingOut, OciQueueOut, OciQueueAck,
                  OciKafkaProducer, GetMeterReading, ScmLookup, IotSendCommand,
                  IotUpdateRelationship, OciObjectStorage, OciFunctionsInvoke} : Looks(h)
    BY <1>3, <1>4, FusionHeeds, ManagedHeeds, Zenon DEF Looks
  <2>2. QED
    BY <1>2, <2>1 DEF Handlers
<1>6. QED
  BY <1>5 DEF Careful

\* What is left of every input's path of a handler that looks is wary.
WaryInv == kind \in Careful => \A i \in Inputs : Wary(todo[i], Node.owner)

\* What a step may do to an input's path.
Moves(i) ==
  \/ todo'[i] \in {todo[i], <<>>}
  \/ todo[i] # <<>> /\ todo'[i] = Tail(todo[i])
  \/ \E p \in Node.paths : todo'[i] \in {p, Tail(p)}

\* Paths only become shorter, once they are chosen.
LEMMA PathsMove ==
  ASSUME ReqInv, [Next]_vars
  PROVE  kind' = kind /\ \A i \in Inputs : Moves(i)
<1>1. todo \in [Inputs -> Seq(Steps)]
  BY DEF ReqInv, TypeOK
<1>2. ASSUME NEW S, NEW F, NEW why, NEW owners, \A i \in S : todo[i] # <<>>,
             Settle(S, F, why, owners)
      PROVE  \A i \in Inputs : Moves(i)
  BY <1>2, Zenon DEF Settle, Moves
<1>3. ASSUME NEW i \in Inputs, NEW p \in Node.paths, Obtain(i, p)
      PROVE  \A j \in Inputs : Moves(j)
  <2>1. \/ \E owners : Pass(i, p, owners)
        \/ Wait(i, p)
        \/ \E r : Over(i, r)
    BY <1>3, Zenon DEF Obtain, GetToken, GetAuthProvider, Get, Create, GetProducer
  <2>2. \A j \in Inputs : todo'[j] = todo[j] \/ todo'[j] \in {p, Tail(p), <<>>}
    BY <1>1, <2>1 DEF Pass, Wait, Over
  <2>3. QED
    BY <2>2 DEF Moves
<1>4. ASSUME NEW i \in Inputs, Arrive(i) PROVE \A j \in Inputs : Moves(j)
  <2>1. CASE todo' = todo
    BY <1>4, <2>1 DEF Arrive, Moves
  <2>2. CASE \E p \in Node.paths : Obtain(i, p)
    BY <1>3, <1>4, <2>2 DEF Arrive
  <2>3. QED
    BY <1>4, <2>1, <2>2 DEF Arrive, Over
<1>5. ASSUME NEW i \in Inputs, CallEnds(i) PROVE \A j \in Inputs : Moves(j)
  <2>1. \A j \in {i} : todo[j] # <<>>
    BY <1>5 DEF CallEnds, Awaiting
  <2>2. \A j \in {} : todo[j] # <<>>
    OBVIOUS
  <2>3. CASE Settle({i}, {}, "", own)
    BY <2>1, <2>3, Zenon DEF Settle, Moves
  <2>4. CASE Settle({}, {i}, "failed", own)
    BY <1>2, <2>2, <2>4
  <2>5. QED
    BY <1>5, <2>3, <2>4 DEF CallEnds
<1>6. ASSUME TokenEnds PROVE \A i \in Inputs : Moves(i)
  <2>1. \A i \in Awaiting("token") : todo[i] # <<>>
    BY DEF Awaiting
  <2>2. \A i \in {} : todo[i] # <<>>
    OBVIOUS
  <2>3. CASE Settle(Awaiting("token"), {}, "", own)
    BY <1>2, <2>1, <2>3
  <2>4. CASE Settle({}, Awaiting("token"), "failed", own)
    BY <1>2, <2>2, <2>4
  <2>5. QED
    BY <1>6, <2>3, <2>4 DEF TokenEnds
<1>7. ASSUME ProducerEnds PROVE \A i \in Inputs : Moves(i)
  <2>1. \A i \in Awaiting("producer") : todo[i] # <<>>
    BY DEF Awaiting
  <2>2. \A i \in {} : todo[i] # <<>>
    OBVIOUS
  <2>3. CASE Settle(Awaiting("producer"), {}, "", own)
    BY <1>2, <2>1, <2>3
  <2>4. CASE Settle({}, Awaiting("producer"), "failed", own)
    BY <1>2, <2>2, <2>4
  <2>5. QED
    BY <1>7, <2>3, <2>4 DEF ProducerEnds
<1>8. ASSUME ProviderFails PROVE \A i \in Inputs : Moves(i)
  <2>1. \A i \in {} : todo[i] # <<>>
    OBVIOUS
  <2>2. QED
    BY <1>2, <1>8, <2>1 DEF ProviderFails
<1>9. ASSUME ProviderArrives PROVE \A i \in Inputs : Moves(i)
  <2>1. \A i \in Awaiting("provider") \cup (OnProvider \ Awaiting("provider")) : todo[i] # <<>>
    BY DEF OnProvider, Awaiting
  <2>2. PICK made \in BOOLEAN : Created(made)
    BY <1>9 DEF ProviderArrives
  <2>3. \E S, F, why, owners :
          /\ \A i \in S : i \in Awaiting("provider") \cup (OnProvider \ Awaiting("provider"))
          /\ Settle(S, F, why, owners)
    <3>1. CASE made /\ ManagerOpen
      BY <2>2, <3>1, Zenon DEF Created
    <3>2. CASE ~(made /\ ManagerOpen)
      <4>1. Settle(Awaiting("provider"), OnProvider \ Awaiting("provider"),
                   IF made THEN "closed" ELSE "failed", own)
        BY <2>2, <3>2, Zenon DEF Created
      <4>2. \A i \in Awaiting("provider") :
              i \in Awaiting("provider") \cup (OnProvider \ Awaiting("provider"))
        OBVIOUS
      <4>3. QED
        BY <4>1, <4>2, Zenon
    <3>3. QED
      BY <3>1, <3>2
  <2>4. QED
    BY <1>2, <2>1, <2>3, Zenon
<1>10. ASSUME TokenExpires \/ CloseNode \/ CloseConfig \/ CloseIdentity \/ UNCHANGED vars
       PROVE  \A i \in Inputs : Moves(i)
  BY <1>10 DEF TokenExpires, CloseNode, CloseConfig, CloseIdentity, vars, Moves
<1>11. kind' = kind
  BY DEF Next, TokenEnds, TokenExpires, ProviderFails, ProviderArrives, ProducerEnds,
         CloseNode, CloseConfig, CloseIdentity, Arrive, CallEnds, vars
<1>12. QED
  BY <1>11, <1>4, <1>5, <1>6, <1>7, <1>8, <1>9, <1>10 DEF Next

\* The paths stay wary.
LEMMA WaryStays == ReqInv /\ WaryInv /\ [Next]_vars => WaryInv'
<1> SUFFICES ASSUME ReqInv, WaryInv, [Next]_vars, kind' \in Careful, NEW i \in Inputs
             PROVE  Wary(todo'[i], Node'.owner)
  BY DEF WaryInv
<1>1. kind' = kind /\ Node' = Node /\ Moves(i)
  BY PathsMove DEF Node
<1>2. todo[i] \in Seq(Steps) /\ Wary(todo[i], Node.owner)
  BY <1>1 DEF ReqInv, TypeOK, WaryInv
<1>3. \A p \in Node.paths : p \in Seq(Steps) /\ p # <<>> /\ Wary(p, Node.owner)
  BY <1>1, NodeFacts, CarefulHandlersHeed, Zenon DEF ReqInv, Fit, Heeds, Node
<1>4. Wary(<<>>, Node.owner)
  BY DEF Wary
<1>5. \A q \in Seq(Steps) : q # <<>> /\ Wary(q, Node.owner) => Wary(Tail(q), Node.owner)
  BY WaryTail
<1>6. CASE todo'[i] \in {todo[i], <<>>}
  BY <1>1, <1>2, <1>4, <1>6
<1>7. CASE todo[i] # <<>> /\ todo'[i] = Tail(todo[i])
  BY <1>1, <1>2, <1>5, <1>7
<1>8. CASE \E p \in Node.paths : todo'[i] \in {p, Tail(p)}
  BY <1>1, <1>3, <1>5, <1>8
<1>9. QED
  BY <1>1, <1>6, <1>7, <1>8 DEF Moves

\* What a step may do to an input of a closed node.
QuietFor(i) ==
  /\ reply'[i] = "sent" => reply[i] = "sent"
  /\ todo'[i] # <<>> /\ Head(todo'[i]).await \in {"call", "write"} => todo'[i] = todo[i]

\* A wary path of a closed node ends where it is, or goes on to read.
LEMMA VerdictQuiet ==
  ASSUME NEW q \in Seq(Steps), q # <<>>, Wary(q, Node.owner), ~NodeOpen,
         ~(Node.owner = "node" /\ Head(q).await \in Clients)
  PROVE  /\ Verdict(q) # "sent"
         /\ Verdict(q) = "open" => Tail(q) # <<>> /\ Head(Tail(q)).await = "read"
<1>1. /\ 1 \in DOMAIN q /\ q[1] = Head(q) /\ DOMAIN q = 1 .. Len(q) /\ Len(q) \in Nat
      /\ Head(q) \in Steps
  OBVIOUS
<1>2. Head(q).then # {} \/ (2 \in DOMAIN q /\ q[2].await = "read")
  BY <1>1 DEF Wary, Guarded
<1>3. CASE Head(q).then # {}
  <2>1. "open" \in Head(q).then \/ "quiet" \in Head(q).then \/ "refuse" \in Head(q).then
    BY <1>1, <1>3 DEF Steps, Checks
  <2>2. QED
    BY <2>1 DEF Verdict
<1>4. CASE 2 \in DOMAIN q /\ q[2].await = "read"
  <2>1. Len(q) # 1 /\ 1 \in DOMAIN Tail(q) /\ Tail(q)[1] = q[1 + 1]
    BY <1>1, <1>4
  <2>2. Tail(q) # <<>> /\ Head(Tail(q)) = q[2]
    <3>1. DOMAIN <<>> = {} /\ 1 + 1 = 2
      OBVIOUS
    <3>2. Tail(q) # <<>>
      BY <2>1, <3>1, Zenon
    <3>3. Head(Tail(q)) = Tail(q)[1]
      <4>1. Tail(q) \in Seq(Steps)
        OBVIOUS
      <4>2. QED
        BY <3>2, <4>1
    <3>4. QED
      BY <2>1, <3>1, <3>2, <3>3
  <2>3. QED
    BY <1>4, <2>1, <2>2 DEF Verdict
<1>5. QED
  BY <1>2, <1>3, <1>4

\* A step that lets inputs go on or fail is quiet for all of them, unless it lets one
\* go on that only the manager guards.
LEMMA SettleQuiet ==
  ASSUME ReqInv, WaryInv, kind \in Careful, ~NodeOpen,
         NEW S \in SUBSET Inputs, NEW F \in SUBSET Inputs,
         \A i \in S : /\ todo[i] # <<>>
                      /\ ~(Node.owner = "node" /\ Head(todo[i]).await \in Clients),
         NEW why, F = {} \/ why \in {"failed", "closed"},
         NEW owners, Settle(S, F, why, owners)
  PROVE  \A i \in Inputs : QuietFor(i)
<1> SUFFICES ASSUME NEW i \in Inputs PROVE QuietFor(i)
  OBVIOUS
<1>1. CASE i \in S
  <2>1. todo[i] \in Seq(Steps) /\ Wary(todo[i], Node.owner)
    BY DEF ReqInv, TypeOK, WaryInv
  <2>2. /\ Verdict(todo[i]) # "sent"
        /\ Verdict(todo[i]) = "open" => Tail(todo[i]) # <<>> /\ Head(Tail(todo[i])).await = "read"
    BY <1>1, <2>1, VerdictQuiet
  <2>3. /\ reply'[i] = Verdict(todo[i])
        /\ todo'[i] = IF Verdict(todo[i]) = "open" THEN Tail(todo[i]) ELSE <<>>
    BY <1>1, Zenon DEF Settle
  <2>4. QED
    BY <2>2, <2>3 DEF QuietFor
<1>2. CASE i \notin S /\ i \in F
  <2>1. reply'[i] = Caught(why) /\ todo'[i] = <<>>
    BY <1>2, Zenon DEF Settle
  <2>2. QED
    BY <1>2, <2>1 DEF Caught, QuietFor
<1>3. CASE i \notin S /\ i \notin F
  <2>1. reply'[i] = reply[i] /\ todo'[i] = todo[i]
    BY <1>3, Zenon DEF Settle
  <2>2. QED
    BY <2>1 DEF QuietFor
<1>4. QED
  BY <1>1, <1>2, <1>3

\* A closed node that looks answers an arriving input at once.
LEMMA ArriveQuiet ==
  ASSUME ReqInv, WaryInv, kind \in Careful, ~NodeOpen, NEW i \in Inputs, Arrive(i)
  PROVE  \A j \in Inputs : QuietFor(j)
<1>1. Heeds(Node)
  BY CarefulHandlersHeed DEF Node
<1>2. ASSUME NEW r, r # "sent", Over(i, r) PROVE \A j \in Inputs : QuietFor(j)
  BY <1>2 DEF Over, QuietFor, ReqInv, TypeOK
<1>3. CASE Node.start # {}
  <2>1. Over(i, "dropped") \/ Over(i, "closed")
    BY <1>3, Zenon DEF Arrive
  <2>2. QED
    BY <1>2, <2>1
<1>4. CASE Node.start = {} /\ Over(i, "refused")
  BY <1>2, <1>4
<1>5. CASE Node.start = {} /\ \E p \in Node.paths : Obtain(i, p)
  <2>1. PICK p \in Node.paths : Obtain(i, p)
    BY <1>5
  <2>2. Head(p).await \in Clients /\ ~ManagerOpen
    BY <1>1, <1>5, Zenon DEF Heeds, ManagerOpen, NodeOpen
  <2>3. Get(i, p) \/ Create(i, p)
    BY <2>1, <2>2 DEF Obtain, Clients
  <2>4. Over(i, Caught("closed"))
    BY <2>2, <2>3, Zenon DEF Get, Create
  <2>5. Caught("closed") # "sent"
    BY DEF Caught
  <2>6. QED
    BY <1>2, <2>4, <2>5
<1>6. QED
  BY <1>3, <1>4, <1>5 DEF Arrive

\* No step of a closed node that looks starts a request or sends a message.
LEMMA StepIsQuiet ==
  ASSUME ReqInv, WaryInv, [Next]_vars, kind \in Careful, ~NodeOpen
  PROVE  \A i \in Inputs : QuietFor(i)
<1> DEFINE Goal == \A i \in Inputs : QuietFor(i)
<1>1. \A w \in Shared \cup External : Awaiting(w) \in SUBSET Inputs
  BY DEF Awaiting
<1>2. \A w \in {"token", "provider", "producer"} \cup External : \A i \in Awaiting(w) :
         todo[i] # <<>> /\ ~(Node.owner = "node" /\ Head(todo[i]).await \in Clients)
  BY DEF Awaiting, Clients, External
<1>3. {} \in SUBSET Inputs /\ \A i \in {} : FALSE
  OBVIOUS
<1>4. ASSUME NEW S \in SUBSET Inputs, Settle(S, {}, "", own),
             \A i \in S : /\ todo[i] # <<>>
                          /\ ~(Node.owner = "node" /\ Head(todo[i]).await \in Clients)
      PROVE  Goal
  BY <1>3, <1>4, SettleQuiet
<1>5. ASSUME NEW F \in SUBSET Inputs, Settle({}, F, "failed", own)
      PROVE  Goal
  <2>1. \A i \in {} : /\ todo[i] # <<>>
                      /\ ~(Node.owner = "node" /\ Head(todo[i]).await \in Clients)
    OBVIOUS
  <2>2. "failed" \in {"failed", "closed"}
    OBVIOUS
  <2>3. QED
    BY <1>3, <1>5, <2>1, <2>2, SettleQuiet
<1> HIDE DEF Goal
<1>6. ASSUME TokenEnds PROVE Goal
  <2>1. CASE Settle(Awaiting("token"), {}, "", own)
    BY <1>1, <1>2, <1>4, <2>1 DEF Shared
  <2>2. CASE Settle({}, Awaiting("token"), "failed", own)
    BY <1>1, <1>5, <2>2 DEF Shared
  <2>3. QED
    BY <1>6, <2>1, <2>2 DEF TokenEnds
<1>7. ASSUME ProducerEnds PROVE Goal
  <2>1. CASE Settle(Awaiting("producer"), {}, "", own)
    BY <1>1, <1>2, <1>4, <2>1 DEF Shared
  <2>2. CASE Settle({}, Awaiting("producer"), "failed", own)
    BY <1>1, <1>5, <2>2 DEF Shared
  <2>3. QED
    BY <1>7, <2>1, <2>2 DEF ProducerEnds
<1>8. ASSUME ProviderFails PROVE Goal
  <2>1. OnProvider \in SUBSET Inputs
    BY DEF OnProvider, Awaiting
  <2>2. Settle({}, OnProvider, "failed", own)
    BY <1>8 DEF ProviderFails
  <2>3. QED
    BY <1>5, <2>1, <2>2
<1>9. ASSUME NEW i \in Inputs, CallEnds(i) PROVE Goal
  <2> DEFINE S == {i}
  <2>1. /\ S \in SUBSET Inputs
        /\ \A j \in S : /\ todo[j] # <<>>
                        /\ ~(Node.owner = "node" /\ Head(todo[j]).await \in Clients)
    BY <1>2, <1>9 DEF CallEnds
  <2>2. Settle(S, {}, "", own) \/ Settle({}, S, "failed", own)
    BY <1>9, Zenon DEF CallEnds
  <2> HIDE DEF S
  <2>3. QED
    BY <1>4, <1>5, <2>1, <2>2
<1>10. ASSUME ProviderArrives PROVE Goal
  <2> DEFINE direct == Awaiting("provider")
             users == OnProvider \ Awaiting("provider")
  <2>1. PICK made \in BOOLEAN : Created(made)
    BY <1>10 DEF ProviderArrives
  <2>2. direct \in SUBSET Inputs /\ users \in SUBSET Inputs
    BY DEF OnProvider, Awaiting
  <2>3. CASE made /\ ManagerOpen
    <3>1. Settle(direct \cup users, {}, "", own \cup Awaiting("own client"))
      BY <2>1, <2>3, Zenon DEF Created
    <3>2. Node.owner # "node"
      BY <2>3, Zenon DEF ManagerOpen, NodeOpen
    <3>3. /\ direct \cup users \in SUBSET Inputs
          /\ \A i \in direct \cup users :
                /\ todo[i] # <<>>
                /\ ~(Node.owner = "node" /\ Head(todo[i]).await \in Clients)
      BY <2>2, <3>2 DEF OnProvider, Awaiting
    <3>4. QED
      <4> DEFINE S == direct \cup users
      <4>1. Settle(S, {}, "", own \cup Awaiting("own client"))
        BY <3>1, Zenon
      <4>2. /\ S \in SUBSET Inputs
            /\ \A i \in S :
                /\ todo[i] # <<>>
                /\ ~(Node.owner = "node" /\ Head(todo[i]).await \in Clients)
        BY <3>3, Zenon
      <4> HIDE DEF S
      <4>3. QED
        BY <1>3, <4>1, <4>2, SettleQuiet DEF Goal
  <2>4. CASE ~(made /\ ManagerOpen)
    <3>1. \E why \in {"failed", "closed"} : Settle(direct, users, why, own)
      BY <2>1, <2>4, Zenon DEF Created
    <3>2. PICK why \in {"failed", "closed"} : Settle(direct, users, why, own)
      BY <3>1
    <3>3. \A i \in direct :
             /\ todo[i] # <<>>
             /\ ~(Node.owner = "node" /\ Head(todo[i]).await \in Clients)
      BY <1>2
    <3> HIDE DEF direct, users
    <3>4. QED
      BY <2>2, <3>2, <3>3, SettleQuiet DEF Goal
  <2>5. QED
    BY <2>3, <2>4
<1>11. ASSUME TokenExpires \/ CloseNode \/ CloseConfig \/ CloseIdentity \/ UNCHANGED vars
       PROVE  Goal
  BY <1>11 DEF TokenExpires, CloseNode, CloseConfig, CloseIdentity, vars, QuietFor, Goal
<1>12. ASSUME NEW i \in Inputs, Arrive(i) PROVE Goal
  BY <1>12, ArriveQuiet DEF Goal
<1>13. QED
  BY <1>6, <1>7, <1>8, <1>9, <1>10, <1>11, <1>12 DEF Next, Goal

\* What a closed node that looks may do: the action of ClosedIsQuiet.
StaysQuiet == (kind \in Careful) /\ ~NodeOpen => \A i \in Inputs : QuietFor(i)

\* A closed node that looks starts no request and sends no message, for each of the
\* handlers that look, any number of inputs and any order of answers and closes.
THEOREM ClosedStaysQuiet == Spec => ClosedIsQuiet
<1>1. Init => WaryInv
  <2>1. \A owner : Wary(<<>>, owner)
    BY DEF Wary
  <2>2. QED
    BY <2>1 DEF Init, WaryInv
<1>2. ReqInv /\ WaryInv /\ [Next]_vars => [StaysQuiet]_vars
  BY StepIsQuiet DEF StaysQuiet
<1>3. [StaysQuiet]_vars <=>
      [(kind \in Careful) /\ ~NodeOpen =>
         \A i \in Inputs :
           /\ reply'[i] = "sent" => reply[i] = "sent"
           /\ todo'[i] # <<>> /\ Head(todo'[i]).await \in {"call", "write"} =>
                todo'[i] = todo[i]]_vars
  BY DEF StaysQuiet, QuietFor
<1>4. QED
  BY <1>1, <1>2, <1>3, WaryStays, RequestInvariant, PTL DEF Spec, ClosedIsQuiet

------------------------------------------------------------------------------
(* The reading of a collection.                                            *)

\* The first n items of a collection, in order.
FirstItems(n) == [k \in 1 .. n |-> k - 1]

\* The pages of a collection that is being read are its first items up to the offset
\* of the present request, unless the server is deaf and will never say that it has
\* no more.
PagesInv ==
  /\ Pages!TypeOK
  /\ Len(offsets) <= MaxPages /\ Len(items) <= MaxItems
  /\ reading = "complete" => items = FirstItems(server.size)
  /\ reading = "asking" =>
       /\ Len(offsets) >= 1
       /\ \/ /\ items = FirstItems(offsets[Len(offsets)])
             /\ offsets[Len(offsets)] <= server.size
             /\ server.deaf => offsets[Len(offsets)] = 0
          \/ server.deaf /\ server.limit < server.size

\* A page of a server that listens, or of one that is deaf and asked for the first.
LEMMA PageFacts ==
  ASSUME NEW s \in Pages!Servers, server = s, NEW r \in Nat, r <= s.size, s.deaf => r = 0
  PROVE  LET page == Pages!Page(r)
             count == Pages!Lesser(s.limit, s.size - r)
         IN  /\ count \in Nat /\ r + count <= s.size
             /\ page.items = [i \in 1 .. count |-> r + i - 1]
             /\ page.hasMore <=> r + count < s.size
             /\ page.offset = IF "offset" \in s.echoes THEN r ELSE -1
             /\ page.limit = IF "limit" \in s.echoes THEN s.limit ELSE 0
<1>1. s.size \in Nat /\ s.limit \in Nat /\ s.limit >= 1
  BY DataAssumption DEF Pages!Servers, Pages!Bounds
<1>2. Pages!Lesser(s.limit, s.size - r) \in Nat /\ r + Pages!Lesser(s.limit, s.size - r) <= s.size
  BY <1>1 DEF Pages!Lesser
<1>3. s.deaf \in BOOLEAN
  BY DEF Pages!Servers
<1>4. (IF s.deaf THEN 0 ELSE r) = r
  BY <1>3
<1>5. QED
  BY <1>1, <1>2, <1>4 DEF Pages!Page

\* The items of two pages that follow each other.
LEMMA JoinedPages ==
  ASSUME NEW a \in Nat, NEW b \in Nat
  PROVE  /\ FirstItems(a) \in Seq(Nat)
         /\ FirstItems(a) \o [i \in 1 .. b |-> a + i - 1] = FirstItems(a + b)
<1> DEFINE first == FirstItems(a)
           more == [i \in 1 .. b |-> a + i - 1]
           all == first \o more
<1>1. \A n \in Nat : FirstItems(n) \in Seq(Nat) /\ Len(FirstItems(n)) = n
  BY DEF FirstItems
<1>2. more \in Seq(Nat) /\ Len(more) = b
  OBVIOUS
<1>3. /\ all \in Seq(Nat) /\ Len(all) = a + b
      /\ \A k \in 1 .. a + b : all[k] = IF k <= a THEN first[k] ELSE more[k - a]
  <2>1. first \in Seq(Nat) /\ Len(first) = a
    BY <1>1
  <2> HIDE DEF first, more
  <2>2. QED
    BY <1>2, <2>1
<1>4. \A k \in 1 .. a + b : all[k] = k - 1
  BY <1>3 DEF FirstItems
<1>5. /\ FirstItems(a + b) \in Seq(Nat) /\ Len(FirstItems(a + b)) = a + b
      /\ \A k \in 1 .. a + b : FirstItems(a + b)[k] = k - 1
  BY <1>1 DEF FirstItems
<1> HIDE DEF all
<1>6. all = FirstItems(a + b)
  BY <1>3, <1>4, <1>5
<1>7. QED
  BY <1>1, <1>6 DEF all

\* One answer keeps the invariant.
LEMMA AnsweredStep ==
  ASSUME PagesInv, Pages!Answered
  PROVE  PagesInv'
<1> DEFINE r == offsets[Len(offsets)]
           page == Pages!Page(r)
           count == Pages!Lesser(server.limit, server.size - r)
           next == Pages!Advance(r, page)
           read == items \o page.items
<1>1. /\ reading = "asking"
      /\ server' = server
      /\ \/ reading' = "failed" /\ offsets' = offsets /\ items' = items
         \/ /\ Len(read) <= MaxItems /\ ~page.hasMore
            /\ reading' = "complete" /\ items' = read /\ offsets' = offsets
         \/ /\ Len(read) <= MaxItems /\ page.hasMore /\ page.items # <<>> /\ next >= 0
            /\ Len(offsets) < MaxPages
            /\ items' = read /\ offsets' = Append(offsets, next) /\ reading' = reading
  BY Zenon DEF Pages!Answered
<1>2. /\ server \in Pages!Servers /\ items \in Seq(Nat) /\ offsets \in Seq(Nat)
      /\ Len(offsets) \in Nat /\ r \in Nat
      /\ server.size \in Nat /\ server.limit \in Nat /\ server.limit >= 1
      /\ server.deaf \in BOOLEAN
      /\ MaxPages \in Nat /\ MaxItems \in Nat
  <2>1. Len(offsets) \in DOMAIN offsets
    BY <1>1 DEF PagesInv, Pages!TypeOK
  <2>2. QED
    BY <2>1, DataAssumption DEF PagesInv, Pages!TypeOK, Pages!Servers, Pages!Bounds
<1>3. CASE reading' = "failed" /\ offsets' = offsets /\ items' = items
  BY <1>1, <1>3 DEF PagesInv, Pages!TypeOK
<1>4. CASE server.deaf /\ server.limit < server.size
  <2>1. page.hasMore /\ page.items \in Seq(Nat)
    <3>1. /\ 0 + Pages!Lesser(server.limit, server.size - 0) < server.size
          /\ Pages!Lesser(server.limit, server.size - 0) \in Nat
      BY <1>2, <1>4 DEF Pages!Lesser
    <3>2. page.items = [i \in 1 .. Pages!Lesser(server.limit, server.size - 0) |-> 0 + i - 1]
      BY <1>4 DEF Pages!Page
    <3>3. page.items \in Seq(Nat)
      BY <3>1, <3>2
    <3>4. QED
      BY <1>4, <3>1, <3>3 DEF Pages!Page
  <2>2. read \in Seq(Nat)
    BY <1>2, <2>1
  <2>3. next \in Int
    BY <1>2, <2>1 DEF Pages!Advance, Pages!Page, Pages!Lesser
  <2>4. CASE /\ Len(read) <= MaxItems /\ next >= 0 /\ Len(offsets) < MaxPages
             /\ items' = read /\ offsets' = Append(offsets, next) /\ reading' = reading
    <3>1. /\ Append(offsets, next) \in Seq(Nat)
          /\ Len(Append(offsets, next)) = Len(offsets) + 1
      BY <1>2, <2>3, <2>4
    <3>2. QED
      BY <1>1, <1>2, <1>4, <2>2, <2>4, <3>1 DEF PagesInv, Pages!TypeOK
  <2>5. QED
    BY <1>1, <1>3, <2>1, <2>4
<1>5. CASE items = FirstItems(r) /\ r <= server.size /\ (server.deaf => r = 0)
  <2>1. /\ count \in Nat /\ r + count <= server.size
        /\ page.items = [i \in 1 .. count |-> r + i - 1]
        /\ page.hasMore <=> r + count < server.size
        /\ page.offset = IF "offset" \in server.echoes THEN r ELSE -1
        /\ page.limit = IF "limit" \in server.echoes THEN server.limit ELSE 0
    BY <1>2, <1>5, PageFacts
  <2>2. read = FirstItems(r + count) /\ read \in Seq(Nat)
    <3> HIDE DEF r, count, page
    <3>1. read = FirstItems(r) \o [i \in 1 .. count |-> r + i - 1]
      BY <1>5, <2>1
    <3>2. r + count \in Nat
      BY <1>2, <2>1
    <3>3. QED
      BY <1>2, <2>1, <3>1, <3>2, JoinedPages
  <2>3. CASE /\ Len(read) <= MaxItems /\ ~page.hasMore
             /\ reading' = "complete" /\ items' = read /\ offsets' = offsets
    <3>1. r + count = server.size
      <4> HIDE DEF r, count, page
      <4>1. ~(r + count < server.size)
        BY <2>1, <2>3, Zenon
      <4>2. r \in Nat /\ count \in Nat /\ server.size \in Nat /\ r + count <= server.size
        BY <1>2, <2>1, Zenon
      <4>3. QED
        BY <4>1, <4>2
    <3>2. QED
      BY <1>1, <1>2, <2>2, <2>3, <3>1 DEF PagesInv, Pages!TypeOK
  <2>4. CASE /\ Len(read) <= MaxItems /\ page.hasMore /\ page.items # <<>> /\ next >= 0
             /\ Len(offsets) < MaxPages
             /\ items' = read /\ offsets' = Append(offsets, next) /\ reading' = reading
    <3>1. count = server.limit
      BY <1>2, <2>1, <2>4 DEF Pages!Lesser
    <3>2. next = r + count
      <4>1. Len(page.items) = count
        BY <2>1
      <4>2. QED
        BY <1>2, <2>1, <2>4, <3>1, <4>1 DEF Pages!Advance
    <3>3. /\ offsets' \in Seq(Nat) /\ Len(offsets') = Len(offsets) + 1
          /\ offsets'[Len(offsets')] = r + count
      <4>1. offsets \in Seq(Nat) /\ r + count \in Nat /\ offsets' = Append(offsets, r + count)
        BY <1>2, <2>1, <2>4, <3>2
      <4> HIDE DEF r, count
      <4>2. QED
        BY <4>1
    <3>4. CASE server.deaf
      <4>1. r = 0 /\ server.limit < server.size
        BY <1>2, <1>5, <2>1, <2>4, <3>1, <3>4
      <4>2. QED
        BY <1>1, <1>2, <2>2, <2>4, <3>3, <3>4, <4>1 DEF PagesInv, Pages!TypeOK
    <3>5. CASE ~server.deaf
      <4>1. r + count <= server.size
        BY <2>1
      <4> HIDE DEF r, count, page, read
      <4>2. QED
        BY <1>1, <1>2, <2>2, <2>4, <3>3, <3>5, <4>1 DEF PagesInv, Pages!TypeOK
    <3>6. QED
      BY <3>4, <3>5
  <2>5. QED
    BY <1>1, <1>3, <2>3, <2>4
<1>6. QED
  BY <1>1, <1>4, <1>5 DEF PagesInv

\* The invariant of the reading, over the steps of all the rules.
LEMMA PagesInvariant == DataSpec => []PagesInv
<1>1. DataInit => PagesInv
  BY DataAssumption DEF DataInit, Pages!Init, Pages!Silent, Pages!Servers, PagesInv,
       Pages!TypeOK, Pages!Bounds
<1>2. PagesInv /\ [DataNext]_dataVars => PagesInv'
  <2> SUFFICES ASSUME PagesInv, [DataNext]_dataVars PROVE PagesInv'
    OBVIOUS
  <2>1. CASE UNCHANGED pageVars
    BY <2>1 DEF pageVars, PagesInv, Pages!TypeOK
  <2>2. CASE Pages!Start
    <3>1. /\ offsets' = <<0>> /\ items' = <<>> /\ reading' = "asking"
          /\ server' \in Pages!Servers
      BY <2>2 DEF Pages!Start
    <3>2. FirstItems(0) = <<>>
      BY DEF FirstItems
    <3>3. server'.size \in Nat
      BY <3>1, DataAssumption DEF Pages!Servers, Pages!Bounds
    <3>4. QED
      BY <3>1, <3>2, <3>3, DataAssumption DEF PagesInv, Pages!TypeOK, Pages!Bounds
  <2>3. CASE Pages!Odd \/ Pages!Stop
    BY <2>3 DEF Pages!Odd, Pages!Stop, PagesInv, Pages!TypeOK
  <2>4. CASE Pages!Answered
    BY <2>4, AnsweredStep
  <2>5. QED
    BY <2>1, <2>2, <2>3, <2>4 DEF DataNext, dataVars, Pages!Next
<1>3. QED
  BY <1>1, <1>2, PTL DEF DataSpec

\* A collection that is returned is complete, whatever its size, the pages of the server
\* and what it repeats of offset and limit, and whatever the limits of the reading are.
THEOREM WholeCollections == DataSpec => []PagesAreComplete
<1>1. PagesInv => PagesAreComplete
  BY DEF PagesInv, PagesAreComplete, Pages!PagesAreComplete, FirstItems
<1>2. QED
  BY <1>1, PagesInvariant, PTL

------------------------------------------------------------------------------
(* The acknowledgement of a batch.                                          *)

\* While a request is under way the message says nothing, and what it says later is
\* true.
AckInv ==
  /\ records \in Seq(Receipts)
  /\ wait \in BOOLEAN
  /\ wait => told = Acks!Untold /\ records # <<>>
  /\ AcknowledgementIsTrue


\* The acknowledgement counts as the library does.
LEMMA SameCardinality == \A S : Acks!Cardinality(S) = Cardinality(S)
  BY DEF Acks!Cardinality, Cardinality

\* An answer says nothing, or as many failures as it has entries that failed.
LEMMA BatchResult ==
  ASSUME NEW entries, NEW failures
  PROVE  LET result == Acks!ReadBatchResult(entries, failures)
         IN  \/ result = Acks!Untold
             \/ /\ Len(entries) = Len(records)
                /\ failures = Cardinality({k \in DOMAIN entries : ~entries[k]})
                /\ result = [acknowledged |-> failures = 0, results |-> entries]
  BY SameCardinality, Zenon DEF Acks!ReadBatchResult

\* What an answer about the receipts that are gone lets the message say is true of them.
LEMMA ResultIsTrue ==
  ASSUME NEW rs \in Seq(Receipts), records = rs, NEW gone \in SUBSET DOMAIN rs,
         NEW failures, NEW lost \in 0 .. 1, rs # <<>>,
         NEW result,
         result = Acks!ReadBatchResult(
                    SubSeq([k \in DOMAIN rs |-> k \in gone], 1, Len(rs) - lost), failures)
  PROVE  \/ result = Acks!Untold
         \/ /\ result.results = [k \in DOMAIN rs |-> k \in gone]
            /\ result.acknowledged => gone = DOMAIN rs
<1> DEFINE entries == [k \in DOMAIN rs |-> k \in gone]
           cut == SubSeq(entries, 1, Len(rs) - lost)
<1>1. /\ DOMAIN rs = 1 .. Len(rs) /\ Len(rs) \in Nat /\ Len(rs) > 0
      /\ Len(cut) = Len(rs) - lost
      /\ lost = 0 => cut = entries
  <2>1. DOMAIN rs = 1 .. Len(rs) /\ Len(rs) \in Nat /\ Len(rs) > 0
    OBVIOUS
  <2>2. entries \in Seq(BOOLEAN) /\ Len(entries) = Len(rs)
    <3>1. \A k \in 1 .. Len(rs) : (k \in gone) \in BOOLEAN
      OBVIOUS
    <3>2. QED
      BY <2>1, <3>1
  <2>3. \A q \in Seq(BOOLEAN) : SubSeq(q, 1, Len(q) - 0) = q
    OBVIOUS
  <2> HIDE DEF entries
  <2>4. Len(cut) = Len(rs) - lost
    <3>1. \A q \in Seq(BOOLEAN), m \in Nat :
             m <= Len(q) => Len(SubSeq(q, 1, m)) = m
      OBVIOUS
    <3>2. Len(rs) - lost \in Nat /\ Len(rs) - lost <= Len(entries)
      BY <2>1, <2>2
    <3>3. QED
      BY <2>2, <3>1, <3>2, Zenon
  <2>5. lost = 0 => cut = entries
    BY <2>2, <2>3
  <2>6. QED
    BY <2>1, <2>4, <2>5
<1> HIDE DEF cut
<1>2. CASE result # Acks!Untold
  <2>1. /\ Len(cut) = Len(rs)
        /\ failures = Cardinality({k \in DOMAIN cut : ~cut[k]})
        /\ result = [acknowledged |-> failures = 0, results |-> cut]
    BY <1>2, BatchResult, Zenon DEF cut
  <2>2. cut = entries
    BY <1>1, <2>1
  <2>3. ASSUME failures = 0 PROVE gone = DOMAIN rs
    <3>1. {k \in DOMAIN rs : ~entries[k]} \subseteq 1 .. Len(rs)
      BY <1>1
    <3>2. IsFiniteSet({k \in DOMAIN rs : ~entries[k]})
      <4>1. IsFiniteSet(1 .. Len(rs))
        BY <1>1, FS_Interval
      <4>2. QED
        BY <3>1, <4>1, FS_Subset, Zenon
    <3>3. {k \in DOMAIN rs : ~entries[k]} = {}
      <4>1. Cardinality({k \in DOMAIN rs : ~entries[k]}) = 0
        BY <2>1, <2>2, <2>3
      <4>2. QED
        BY <3>2, <4>1, FS_EmptySet
    <3>4. QED
      BY <3>3
  <2>4. result.results = entries
    <3>1. result.results = cut
      BY <2>1
    <3>2. QED
      BY <2>2, <3>1, Zenon
  <2>5. result.acknowledged = (failures = 0)
    BY <2>1
  <2>6. result.acknowledged => failures = 0
    BY <2>5, Zenon
  <2>7. QED
    BY <2>3, <2>4, <2>6, Zenon
<1>3. QED
  BY <1>2

\* A step of the acknowledgement keeps the invariant.
LEMMA AckStep ==
  ASSUME AckInv, Acks!Next
  PROVE  AckInv'
<1> USE DEF AcknowledgementIsTrue, Acks!AcknowledgementIsTrue
<1>1. Acks!Untold.acknowledged = FALSE /\ Acks!Untold.results = <<>>
  BY DEF Acks!Untold
<1>2. CASE Acks!Acknowledge
  <2>1. records' \in Seq(Receipts)
    <3>1. PICK m \in 0 .. 2 : records' \in [1 .. m -> Receipts]
      BY <1>2 DEF Acks!Acknowledge, Acks!BoundedSeq, Acks!SeqOf
    <3>2. QED
      BY <3>1
  <2>2. wait' \in BOOLEAN /\ (wait' => Acks!ValidateBatch(records'))
    BY <1>2, Zenon DEF Acks!Acknowledge, Acks!ValidateBatch
  <2>3. told' = Acks!Untold
    BY <1>2 DEF Acks!Acknowledge
  <2>4. QED
    BY <1>1, <2>1, <2>2, <2>3 DEF AckInv, Acks!ValidateBatch
<1>3. CASE Acks!Answered
  <2>1. /\ wait /\ wait' = FALSE /\ records' = records
        /\ told = Acks!Untold /\ records # <<>> /\ records \in Seq(Receipts)
    BY <1>3 DEF Acks!Answered, AckInv
  <2>2. PICK gone \in SUBSET DOMAIN records :
          /\ deleted' = deleted \cup {records[k] : k \in gone}
          /\ \E failures \in 0 .. 2, lost \in 0 .. 1 :
                told' = IF ackClosed THEN told
                        ELSE Acks!ReadBatchResult(
                               SubSeq([k \in DOMAIN records |-> k \in gone], 1,
                                      Len([k \in DOMAIN records |-> k \in gone]) - lost), failures)
    BY <1>3, Zenon DEF Acks!Answered
  <2>3. Len([k \in DOMAIN records |-> k \in gone]) = Len(records)
    BY <2>1
  <2>4. \/ told' = Acks!Untold
        \/ /\ told'.results = [k \in DOMAIN records |-> k \in gone]
           /\ told'.acknowledged => gone = DOMAIN records
    BY <2>1, <2>2, <2>3, ResultIsTrue
  <2>5. Acks!Range(records') = {records[k] : k \in DOMAIN records}
    BY <2>1 DEF Acks!Range
  <2>6. CASE told' = Acks!Untold
    BY <1>1, <2>1, <2>6 DEF AckInv
  <2>7. CASE /\ told'.results = [k \in DOMAIN records |-> k \in gone]
             /\ told'.acknowledged => gone = DOMAIN records
    <3>1. Len(told'.results) = Len(records)
      BY <2>3, <2>7
    <3>2. ASSUME NEW k \in DOMAIN records, told'.results[k] PROVE records[k] \in deleted'
      <4>1. told'.results[k] = (k \in gone)
        BY <2>7, <3>2
      <4>2. k \in gone
        BY <3>2, <4>1, Zenon
      <4>3. QED
        BY <2>2, <4>2
    <3>3. told'.acknowledged => Acks!Range(records') \subseteq deleted'
      BY <2>2, <2>5, <2>7
    <3>4. QED
      BY <2>1, <3>1, <3>2, <3>3 DEF AckInv
  <2>8. QED
    BY <2>4, <2>6, <2>7
<1>4. CASE Acks!Failed
  <2>1. /\ wait /\ wait' = FALSE /\ records' = records /\ told' = told
        /\ told = Acks!Untold
    BY <1>4 DEF Acks!Failed, AckInv
  <2>2. QED
    BY <1>1, <2>1 DEF AckInv
<1>5. CASE Acks!Close
  BY <1>5 DEF Acks!Close, AckInv
<1>6. QED
  BY <1>2, <1>3, <1>4, <1>5 DEF Acks!Next

\* What a message says of its receipts is true of the queue, for any batch, any answer
\* of the queue, and however often the message is sent again.
THEOREM TrueAcknowledgements == DataSpec => []AcknowledgementIsTrue
<1>1. DataInit => AckInv
  <2> SUFFICES ASSUME DataInit PROVE AckInv
    OBVIOUS
  <2>1. records = <<>> /\ wait = FALSE /\ told.acknowledged = FALSE /\ told.results = <<>>
    BY DEF DataInit, Acks!Init, Acks!Untold
  <2>2. AcknowledgementIsTrue
    BY <2>1, Zenon DEF AcknowledgementIsTrue, Acks!AcknowledgementIsTrue
  <2>3. wait \in BOOLEAN /\ (wait => told = Acks!Untold /\ records # <<>>)
    BY <2>1, Zenon
  <2>4. \A q : q = <<>> => q \in Seq(Receipts)
    OBVIOUS
  <2>5. QED
    BY <2>1, <2>2, <2>3, <2>4, Zenon DEF AckInv
<1>2. AckInv /\ [DataNext]_dataVars => AckInv'
  <2>1. ASSUME AckInv, UNCHANGED ackVars PROVE AckInv'
    BY <2>1 DEF ackVars, AckInv, AcknowledgementIsTrue, Acks!AcknowledgementIsTrue
  <2>2. QED
    BY <2>1, AckStep DEF DataNext, dataVars
<1>3. AckInv => AcknowledgementIsTrue
  BY DEF AckInv
<1>4. QED
  BY <1>1, <1>2, <1>3, PTL DEF DataSpec

------------------------------------------------------------------------------
(* The matching of topics.                                                 *)

\* The loop over the levels finds exactly what the standard describes, for topics and
\* patterns of any length.
LEMMA LoopIsMqtt ==
  ASSUME NEW A, NEW B, NEW p \in Seq(A), p # <<>>, NEW t \in Seq(B), t # <<>>
  PROVE  Topics!MqttTopicMatches(p, t) <=> Topics!Covers(p, t)
<1> DEFINE n == Len(p)
           open == p[n] = "#"
           m == IF open THEN n - 1 ELSE n
<1>1. /\ n \in Nat /\ n >= 1 /\ DOMAIN p = 1 .. n
      /\ Len(t) \in Nat /\ Len(t) >= 1
  OBVIOUS
<1>2. CASE ~Topics!ValidPattern(p)
  BY <1>2, Zenon DEF Topics!MqttTopicMatches, Topics!Covers, Topics!ValidPattern
<1>3. CASE Topics!ValidPattern(p)
  <2>1. \A i \in 1 .. n : p[i] = "#" => i = n
    BY <1>1, <1>3 DEF Topics!ValidPattern
  <2>2. CASE open
    <3>1. (\E i \in DOMAIN p : p[i] = "#" /\ \A j \in 1 .. i - 1 : Topics!GoesOn(p, t, j))
            <=> \A j \in 1 .. n - 1 : Topics!GoesOn(p, t, j)
      <4>1. n \in DOMAIN p /\ p[n] = "#"
        BY <1>1, <2>2
      <4>2. \A i \in DOMAIN p : p[i] = "#" => i = n
        BY <1>1, <2>1
      <4> HIDE DEF n
      <4>3. QED
        BY <4>1, <4>2, Zenon
    <3>2. ~(\A i \in DOMAIN p : Topics!GoesOn(p, t, i))
      BY <1>1, <2>2 DEF Topics!GoesOn
    <3>3. (\A j \in 1 .. n - 1 : Topics!GoesOn(p, t, j))
            <=> Len(t) >= n - 1 /\ \A j \in 1 .. n - 1 : p[j] \in {"+", t[j]}
      <4>1. n = 1 \/ n - 1 \in 1 .. n - 1
        BY <1>1
      <4>2. ASSUME \A j \in 1 .. n - 1 : Topics!GoesOn(p, t, j) PROVE Len(t) >= n - 1
        <5>1. n = 1 \/ n - 1 <= Len(t)
          BY <4>1, <4>2 DEF Topics!GoesOn
        <5>2. QED
          BY <1>1, <5>1
      <4>3. ASSUME Len(t) >= n - 1, NEW j \in 1 .. n - 1 PROVE j <= Len(t) /\ p[j] # "#"
        <5>1. j \in 1 .. n /\ j # n /\ j <= n - 1 /\ j \in Int
          <6>1. n \in Nat /\ j \in 1 .. n - 1
            BY <1>1
          <6> HIDE DEF n
          <6>2. QED
            BY <6>1
        <5>2. p[j] # "#"
          BY <2>1, <5>1, Zenon
        <5> HIDE DEF n
        <5>3. QED
          BY <1>1, <4>3, <5>1, <5>2
      <4>4. QED
        BY <4>2, <4>3 DEF Topics!GoesOn
    <3>4. n = 1 \/ 1 \in 1 .. n - 1
      BY <1>1
    <3>5. (\A j \in 1 .. n - 1 : p[j] \in {"+", t[j]}) =>
            (~(t[1] = "$s" /\ p[1] # "$s") <=> (t[1] = "$s" => p[1] \notin {"+", "#"}))
      BY <2>1, <2>2, <3>4
    <3>6. Topics!MqttTopicMatches(p, t) <=>
            /\ ~(t[1] = "$s" /\ p[1] # "$s")
            /\ Len(t) >= n - 1 /\ \A j \in 1 .. n - 1 : p[j] \in {"+", t[j]}
      BY <1>3, <3>1, <3>2, <3>3, Zenon DEF Topics!MqttTopicMatches
    <3>7. Topics!Covers(p, t) <=>
            /\ Len(t) >= n - 1 /\ \A j \in 1 .. n - 1 : p[j] \in {"+", t[j]}
            /\ t[1] = "$s" => p[1] \notin {"+", "#"}
      BY <1>3, <2>2, Zenon DEF Topics!Covers, Topics!ValidPattern
    <3>8. QED
      BY <3>5, <3>6, <3>7
  <2>3. CASE ~open
    <3>1. \A i \in 1 .. n : p[i] # "#"
      BY <2>1, <2>3
    <3>2. ~(\E i \in DOMAIN p : p[i] = "#" /\ \A j \in 1 .. i - 1 : Topics!GoesOn(p, t, j))
      BY <1>1, <3>1
    <3>3. Len(p) = Len(t) =>
            ((\A i \in DOMAIN p : Topics!GoesOn(p, t, i)) <=>
               \A i \in 1 .. n : p[i] \in {"+", t[i]})
      BY <1>1, <3>1 DEF Topics!GoesOn
    <3>4. (\A i \in 1 .. n : p[i] \in {"+", t[i]}) =>
            (~(t[1] = "$s" /\ p[1] # "$s") <=> (t[1] = "$s" => p[1] \notin {"+", "#"}))
      BY <1>1, <3>1
    <3>5. Topics!MqttTopicMatches(p, t) <=>
            /\ ~(t[1] = "$s" /\ p[1] # "$s")
            /\ n = Len(t) /\ \A i \in 1 .. n : p[i] \in {"+", t[i]}
      BY <1>3, <3>2, <3>3, Zenon DEF Topics!MqttTopicMatches
    <3>6. Topics!Covers(p, t) <=>
            /\ Len(t) = n /\ \A i \in 1 .. n : p[i] \in {"+", t[i]}
            /\ t[1] = "$s" => p[1] \notin {"+", "#"}
      BY <1>3, <2>3, Zenon DEF Topics!Covers, Topics!ValidPattern
    <3>7. QED
      BY <3>4, <3>5, <3>6
  <2>4. QED
    BY <2>2, <2>3
<1>4. QED
  BY <1>2, <1>3

\* What matches is always true or false.
LEMMA MatchesIsBoolean ==
  \A p, t : Topics!MqttTopicMatches(p, t) \in BOOLEAN /\ Topics!Covers(p, t) \in BOOLEAN
  BY Zenon DEF Topics!MqttTopicMatches, Topics!Covers

\* A message is handed on exactly to the patterns that the standard lets match its
\* topic, whatever the levels are and however many.
THEOREM MatchingFollowsMqtt == DataSpec => []MatchingIsMqtt
<1> USE DEF MatchingIsMqtt, Topics!MatchingIsMqtt
<1>1. DataInit => MatchingIsMqtt
  BY DEF DataInit, Topics!Init
<1>2. MatchingIsMqtt /\ [DataNext]_dataVars => MatchingIsMqtt'
  <2> SUFFICES ASSUME MatchingIsMqtt, [DataNext]_dataVars PROVE MatchingIsMqtt'
    OBVIOUS
  <2>1. CASE UNCHANGED topicVars
    BY <2>1, Zenon DEF topicVars
  <2>2. CASE Topics!Arrive
    <3>1. handed' = Topics!MqttTopicMatches(pattern', topic')
      BY <2>2, Zenon DEF Topics!Arrive
    <3>2. /\ pattern' \in Seq(Segments) /\ topic' \in Seq(Names)
          /\ pattern' # <<>> /\ topic' # <<>>
      <4>1. PICK j \in 1 .. MaxLevels, k \in 1 .. MaxLevels :
              pattern' \in [1 .. j -> Segments] /\ topic' \in [1 .. k -> Names]
        BY <2>2 DEF Topics!Arrive, Topics!Levels
      <4>2. 1 \in DOMAIN pattern' /\ 1 \in DOMAIN topic'
        BY <4>1
      <4>3. pattern' \in Seq(Segments) /\ topic' \in Seq(Names)
        BY <4>1
      <4>4. QED
        BY <4>2, <4>3
    <3>3. Topics!MqttTopicMatches(pattern', topic') <=> Topics!Covers(pattern', topic')
      BY <3>2, LoopIsMqtt
    <3>4. Topics!MqttTopicMatches(pattern', topic') = Topics!Covers(pattern', topic')
      BY <3>3, MatchesIsBoolean, Zenon
    <3>5. QED
      BY <3>1, <3>4, Zenon
  <2>3. QED
    BY <2>1, <2>2 DEF DataNext, dataVars, Topics!Next
<1>3. QED
  BY <1>1, <1>2, PTL DEF DataSpec

------------------------------------------------------------------------------
(* The requests of the Fusion nodes.                                       *)

\* Fixed names of a path, or names of identifiers behind them.
Words(q) == (\E S : q \in Seq(S)) /\ "blank" \notin Requests!Range(q)

\* A resource is addressed by fixed names and identifiers, a fixed name first, and the
\* actions on an item know the item's identifier.
Addressable(r) ==
  /\ Words(r.path) /\ r.path # <<>> /\ r.path[1] \notin Requests!Ids
  /\ r.actions \subseteq Requests!Crud
  /\ r.actions \cap {"get", "update", "delete"} # {} => r.item \in Requests!Ids

\* The range of a tuple.
LEMMA RangeFacts ==
  /\ \A q : Requests!Range(q) = {q[k] : k \in DOMAIN q}
  BY DEF Requests!Range

\* Paths are put together from words.
LEMMA WordsFacts ==
  /\ \A p, q : Words(p) /\ Words(q) => Words(p \o q)
  /\ \A p, q : Words(p) /\ Words(q) /\ p # <<>> => p \o q # <<>> /\ (p \o q)[1] = p[1]
<1>1. ASSUME NEW p, NEW q, Words(p), Words(q)
      PROVE  /\ Words(p \o q)
             /\ p # <<>> => p \o q # <<>> /\ (p \o q)[1] = p[1]
  <2> DEFINE c == p \o q
  <2>1. PICK S, T : p \in Seq(S) /\ q \in Seq(T)
    BY <1>1 DEF Words
  <2>2. p \in Seq(S \cup T) /\ q \in Seq(S \cup T)
    BY <2>1
  <2>3. /\ \A k \in 1 .. Len(p) : p[k] # "blank"
        /\ \A k \in 1 .. Len(q) : q[k] # "blank"
        /\ Len(p) \in Nat /\ Len(q) \in Nat
    BY <1>1, <2>2, RangeFacts DEF Words
  <2>4. /\ c \in Seq(S \cup T) /\ Len(c) = Len(p) + Len(q)
        /\ \A k \in 1 .. Len(p) + Len(q) : c[k] = IF k <= Len(p) THEN p[k] ELSE q[k - Len(p)]
    BY <2>2
  <2>5. \A k \in 1 .. Len(p) + Len(q) :
          IF k <= Len(p) THEN k \in 1 .. Len(p) ELSE k - Len(p) \in 1 .. Len(q)
    BY <2>3
  <2>6. \A k \in 1 .. Len(p) + Len(q) : c[k] # "blank"
    BY <2>3, <2>4, <2>5
  <2> HIDE DEF c
  <2>7. Words(c)
    <3>1. DOMAIN c = 1 .. Len(p) + Len(q)
      BY <2>4
    <3>2. "blank" \notin Requests!Range(c)
      BY <2>6, <3>1, RangeFacts
    <3>3. QED
      BY <2>4, <3>2 DEF Words
  <2>8. ASSUME p # <<>> PROVE c # <<>> /\ c[1] = p[1]
    <3>1. 1 \in 1 .. Len(p) /\ 1 \in 1 .. Len(p) + Len(q) /\ 1 <= Len(p)
      BY <2>2, <2>3, <2>8
    <3>2. QED
      BY <2>4, <3>1
  <2>9. QED
    BY <2>7, <2>8 DEF c
<1>2. QED
  BY <1>1

\* Tuples of names other than "blank" are words.
LEMMA WordTuples ==
  /\ \A a : a # "blank" => Words(<<a>>)
  /\ \A a, b, c : a # "blank" /\ b # "blank" /\ c # "blank" => Words(<<a, b, c>>)
  /\ \A a, b, c, d :
        a # "blank" /\ b # "blank" /\ c # "blank" /\ d # "blank" => Words(<<a, b, c, d>>)
<1>1. ASSUME NEW a, a # "blank" PROVE Words(<<a>>)
  <2>1. <<a>> \in Seq({a}) /\ Requests!Range(<<a>>) = {a}
    BY RangeFacts
  <2>2. QED
    BY <1>1, <2>1 DEF Words
<1>2. ASSUME NEW a, NEW b, NEW c, a # "blank", b # "blank", c # "blank"
      PROVE  Words(<<a, b, c>>)
  <2>1. <<a, b, c>> \in Seq({a, b, c}) /\ Requests!Range(<<a, b, c>>) = {a, b, c}
    BY RangeFacts
  <2>2. QED
    BY <1>2, <2>1 DEF Words
<1>3. ASSUME NEW a, NEW b, NEW c, NEW d, a # "blank", b # "blank", c # "blank", d # "blank"
      PROVE  Words(<<a, b, c, d>>)
  <2>1. <<a, b, c, d>> \in Seq({a, b, c, d}) /\ Requests!Range(<<a, b, c, d>>) = {a, b, c, d}
    BY RangeFacts
  <2>2. QED
    BY <1>3, <2>1 DEF Words
<1>4. QED
  BY <1>1, <1>2, <1>3

\* All resources of the nodes can be addressed.
LEMMA ResourcesAreAddressable ==
  \A node \in DOMAIN Requests!Tables : \A name \in DOMAIN Requests!Tables[node] :
    Addressable(Requests!Tables[node][name])
<1> DEFINE O(p) == Words(p) /\ p # <<>> /\ p[1] \notin Requests!Ids
<1>1. /\ \A a : a # "blank" /\ a \notin Requests!Ids => O(<<a>>)
      /\ \A a, b, c, d : a # "blank" /\ b # "blank" /\ c # "blank" /\ d # "blank"
                           /\ a \notin Requests!Ids => O(<<a, b, c, d>>)
  BY WordTuples
<1>2. \A p, q : O(p) /\ Words(q) => O(p \o q)
  BY WordsFacts
<1>3. /\ Words(<<"operationId", "child", "WorkOrderOperationMaterial">>)
      /\ Words(<<"operationId", "child", "WorkOrderOperationResource">>)
  BY WordTuples, Zenon
<1>4. /\ \A actions, path, item :
            actions \subseteq Requests!Crud /\ item \in Requests!Ids /\ O(path)
           => Addressable(Requests!R(actions, path, item))
      /\ \A path, item : O(path) => Addressable(Requests!R({"create"}, path, item))
  BY DEF Requests!R, Addressable, Requests!Crud
<1> HIDE DEF O
<1>5. /\ "childRecordId" \in Requests!Ids /\ "resourceId" \in Requests!Ids
      /\ "workOrderId" \in Requests!Ids
  BY DEF Requests!Ids
<1>6. /\ Requests!Crud \subseteq Requests!Crud /\ Requests!Crud \ {"update"} \subseteq Requests!Crud
       /\ {"create"} \subseteq Requests!Crud /\ {"delete"} \subseteq Requests!Crud
       /\ {"create", "update"} \subseteq Requests!Crud
  BY DEF Requests!Crud
<1>7. /\ O(<<"workOrders", "workOrderId", "child", "WorkOrderSerialNumber">>)
       /\ O(Requests!OperationPath("workOrders"))
       /\ O(Requests!OperationPath("maintenanceWorkOrders"))
  BY <1>1, Zenon DEF Requests!Ids, Requests!OperationPath
<1>8. /\ O(<<"operationTransactions">>) /\ O(<<"maintenanceOperationTransactions">>)
       /\ O(<<"installedBaseAssets">>) /\ O(<<"meterReadings">>) /\ O(<<"customPath">>)
       /\ O(<<"inventoryStagedTransactions">>)
       /\ O(<<"workOrders">>) /\ O(<<"maintenanceWorkOrders">>)
  BY <1>1, Zenon DEF Requests!Ids
<1>9. \A name \in DOMAIN Requests!ManufacturingChildren :
        Addressable(Requests!ManufacturingChildren[name])
  BY <1>2, <1>3, <1>4, <1>5, <1>7, <1>8, <1>6 DEF Requests!ManufacturingChildren
<1>10. \A name \in DOMAIN Requests!MaintenanceChildren :
        Addressable(Requests!MaintenanceChildren[name])
  BY <1>2, <1>3, <1>4, <1>5, <1>7, <1>8, <1>6 DEF Requests!MaintenanceChildren
<1>11. \A name \in DOMAIN Requests!EndpointMap : Addressable(Requests!EndpointMap[name])
  BY <1>4, <1>5, <1>8, <1>6 DEF Requests!EndpointMap
<1>12. /\ \A name \in DOMAIN Requests!ManufacturingOrders :
            Addressable(Requests!ManufacturingOrders[name])
      /\ \A name \in DOMAIN Requests!MaintenanceOrders :
            Addressable(Requests!MaintenanceOrders[name])
  BY <1>4, <1>5, <1>8, <1>6 DEF Requests!ManufacturingOrders, Requests!MaintenanceOrders
<1>13. QED
  BY <1>9, <1>10, <1>11, <1>12 DEF Requests!Tables

\* What is sent for j names the record that j means (RecordsAreNamed, of one request).
NamesRecord(j, q) ==
  j.node \in DOMAIN Requests!Tables /\ q # Requests!Rejected =>
    LET resource == Requests!Tables[j.node][j.resource]
        addressed == IF q.method \in {"PATCH", "DELETE"} THEN TRUE
                     ELSE Len(q.path) > Len(resource.path)
        named == IF j.msg[resource.item] = "none" THEN j.config[resource.item]
                 ELSE j.msg[resource.item]
    IN  /\ Requests!Range(q.path) \cap (Requests!Ids \cup {"none", "blank", "dot"}) = {}
        /\ SubSeq(q.path, 1, 1) = SubSeq(resource.path, 1, 1)
        /\ addressed => /\ Len(q.path) = Len(resource.path) + 1
                        /\ Requests!Last(q.path) = named
        /\ q.method = "POST" => ~addressed

\* The identifiers of a message and a configuration.
IdsOf(j) == \A id \in Requests!Ids : j.msg[id] \in Requests!Values /\ j.config[id] \in Requests!Values

\* A segment that is filled in is an identifier's value, never the identifier's name.
LEMMA FilledFacts ==
  ASSUME NEW j, IdsOf(j), NEW segment
  PROVE  /\ segment \notin Requests!Ids => Requests!Filled(segment, j) = segment
         /\ segment \in Requests!Ids =>
              /\ Requests!Filled(segment, j) \notin Requests!Ids \cup {"blank"}
              /\ Requests!Filled(segment, j) # "none" =>
                   Requests!Filled(segment, j) =
                     IF j.msg[segment] = "none" THEN j.config[segment] ELSE j.msg[segment]
<1>1. CASE segment \in Requests!Ids
  <2>1. Requests!Filled(segment, j) = Requests!ResolveId(segment, j)
    BY <1>1 DEF Requests!Filled
  <2>2. Requests!Or(j.msg[segment], j.config[segment]) \in Requests!Values
    BY <1>1 DEF Requests!Or, IdsOf
  <2>3. Requests!ResolveId(segment, j) \in Requests!Values \ {"blank"}
    BY <2>2 DEF Requests!ResolveId, Requests!Trimmed, Requests!Values
  <2>4. Requests!ResolveId(segment, j) # "none" =>
          Requests!ResolveId(segment, j) = Requests!Or(j.msg[segment], j.config[segment])
    BY DEF Requests!ResolveId, Requests!Trimmed
  <2>5. Requests!Values \cap Requests!Ids = {}
    BY DEF Requests!Values, Requests!Ids
  <2>6. QED
    BY <1>1, <2>1, <2>3, <2>4, <2>5 DEF Requests!Or
<1>2. CASE segment \notin Requests!Ids
  BY <1>2 DEF Requests!Filled
<1>3. QED
  BY <1>1, <1>2

\* A length, and a length that may be one more.
LEMMA OneMore ==
  ASSUME NEW n \in Nat, NEW m \in Nat, n >= 1, m = n \/ m = n + 1
  PROVE  /\ 1 \in 1 .. n /\ 1 \in 1 .. m /\ m \in 1 .. m
         /\ m > n => m = n + 1
         /\ m = n => ~(m > n)
  OBVIOUS

\* The resource that a request of a node addresses is the one that is meant.
LEMMA ResourceRequestNames ==
  ASSUME NEW j, IdsOf(j), j.node \in DOMAIN Requests!Tables,
         j.resource \in DOMAIN Requests!Tables[j.node]
  PROVE  NamesRecord(j, Requests!ResourceRequest(j))
<1> DEFINE r == Requests!Tables[j.node][j.resource]
           action == Requests!ResolveAction(j)
           rp == Requests!ResourcePath(r, action)
           path == [i \in DOMAIN rp |-> Requests!Filled(rp[i], j)]
           q == Requests!ResourceRequest(j)
<1>1. CASE q = Requests!Rejected
  BY <1>1 DEF NamesRecord
<1>2. CASE q # Requests!Rejected
  <2>1. /\ action \in r.actions
        /\ "none" \notin Requests!Range(path)
        /\ Requests!AppendPathSegments(path) # <<>>
        /\ q = [method |-> Requests!Verb[action], path |-> path]
    BY <1>2, Zenon DEF Requests!ResourceRequest
  <2>2. Addressable(r)
    BY ResourcesAreAddressable
  <2>3. PICK S : r.path \in Seq(S)
    BY <2>2 DEF Addressable, Words
  <2>4. /\ "dot" \notin Requests!Range(path)
        /\ q.path = path /\ q.method = Requests!Verb[action]
    BY <2>1 DEF Requests!AppendPathSegments
  <2> HIDE DEF r, action, q
  <2>5. /\ Len(r.path) \in Nat /\ Len(r.path) >= 1 /\ DOMAIN r.path = 1 .. Len(r.path)
        /\ \A i \in DOMAIN r.path : r.path[i] # "blank"
    BY <2>2, <2>3, RangeFacts DEF Addressable, Words
  <2>6. /\ rp \in Seq(S \cup {r.item})
        /\ \A i \in 1 .. Len(r.path) : rp[i] = r.path[i]
        /\ Requests!ActionUsesItemId(action) =>
             Len(rp) = Len(r.path) + 1 /\ rp[Len(r.path) + 1] = r.item
        /\ ~Requests!ActionUsesItemId(action) => Len(rp) = Len(r.path)
    BY <2>3, <2>5 DEF Requests!ResourcePath
  <2>7. Requests!ActionUsesItemId(action) => r.item \in Requests!Ids
    BY <2>1, <2>2 DEF Addressable, Requests!ActionUsesItemId
  <2> HIDE DEF rp
  <2>8. /\ DOMAIN path = 1 .. Len(rp) /\ Len(path) = Len(rp) /\ Len(rp) \in Nat
        /\ \A i \in 1 .. Len(rp) : path[i] = Requests!Filled(rp[i], j)
    BY <2>6
  <2>9. \A i \in 1 .. Len(rp) : path[i] \notin {"none", "dot"}
    BY <2>1, <2>4, <2>8, RangeFacts
  <2> HIDE DEF path
  <2>10. /\ 1 \in 1 .. Len(r.path) /\ 1 \in 1 .. Len(rp)
         /\ Len(rp) = Len(r.path) => ~(Len(rp) > Len(r.path))
    <3>1. Len(rp) = Len(r.path) \/ Len(rp) = Len(r.path) + 1
      BY <2>6
    <3>2. Len(rp) \in Nat /\ Len(r.path) \in Nat /\ Len(r.path) >= 1
      BY <2>5, <2>8
    <3>3. QED
      BY <3>1, <3>2, OneMore
  <2>11. ASSUME NEW i \in 1 .. Len(rp)
         PROVE  path[i] \notin Requests!Ids \cup {"none", "blank", "dot"}
    <3>1. path[i] = Requests!Filled(rp[i], j) /\ path[i] \notin {"none", "dot"}
      BY <2>8, <2>9
    <3>2. CASE rp[i] \in Requests!Ids
      BY <3>1, <3>2, FilledFacts
    <3>3. CASE rp[i] \notin Requests!Ids
      <4>1. i \in 1 .. Len(r.path)
        BY <2>5, <2>6, <2>7, <3>3
      <4>2. rp[i] # "blank"
        BY <2>5, <2>6, <4>1
      <4>3. path[i] = rp[i]
        BY <3>1, <3>3, FilledFacts
      <4>4. QED
        BY <3>1, <3>3, <4>2, <4>3
    <3>4. QED
      BY <3>2, <3>3
  <2>12. Requests!Range(path) \cap (Requests!Ids \cup {"none", "blank", "dot"}) = {}
    BY <2>8, <2>11, RangeFacts
  <2>13. SubSeq(path, 1, 1) = SubSeq(r.path, 1, 1)
    <3>1. 1 \in 1 .. Len(r.path) /\ 1 \in 1 .. Len(rp)
      BY <2>10
    <3>2. rp[1] = r.path[1] /\ rp[1] \notin Requests!Ids
      BY <2>2, <2>6, <3>1 DEF Addressable
    <3>3. path[1] = r.path[1]
      BY <2>8, <3>1, <3>2, FilledFacts
    <3>4. QED
      BY <3>3
  <2>14. ASSUME Requests!ActionUsesItemId(action)
         PROVE  /\ Len(path) = Len(r.path) + 1
                /\ Requests!Last(path) =
                     IF j.msg[r.item] = "none" THEN j.config[r.item] ELSE j.msg[r.item]
    <3>1. Len(rp) = Len(r.path) + 1 /\ rp[Len(r.path) + 1] = r.item
      BY <2>6, <2>14
    <3>2. Len(rp) \in 1 .. Len(rp)
      BY <2>5, <2>8, <3>1
    <3>3. path[Len(rp)] = Requests!Filled(r.item, j) /\ path[Len(rp)] # "none"
      BY <2>8, <2>9, <3>1, <3>2
    <3>4. r.item \in Requests!Ids
      BY <2>7, <2>14
    <3>5. path[Len(rp)] = IF j.msg[r.item] = "none" THEN j.config[r.item] ELSE j.msg[r.item]
      BY <3>3, <3>4, FilledFacts
    <3>6. QED
      BY <2>8, <3>1, <3>5 DEF Requests!Last
  <2>15. /\ Requests!Verb[action] \in {"PATCH", "DELETE"} => Requests!ActionUsesItemId(action)
         /\ Requests!Verb[action] = "POST" => ~Requests!ActionUsesItemId(action)
    <3>1. action \in {"create", "list", "get", "update", "delete"}
      BY <2>1, <2>2 DEF Addressable, Requests!Crud
    <3>2. QED
      BY <3>1 DEF Requests!Verb, Requests!ActionUsesItemId
  <2>16. Len(path) > Len(r.path) => Requests!ActionUsesItemId(action)
    BY <2>6, <2>8, <2>10
  <2>17. Requests!ActionUsesItemId(action) => Len(path) = Len(r.path) + 1
    BY <2>14
  <2>18. q.method = "POST" => ~(q.method \in {"PATCH", "DELETE"}) /\ ~(Len(path) > Len(r.path))
    BY <2>4, <2>15, <2>16
  <2>19. q.method \in {"PATCH", "DELETE"} => Requests!ActionUsesItemId(action)
    BY <2>4, <2>15
  <2>20. QED
    BY <2>4, <2>12, <2>13, <2>14, <2>16, <2>18, <2>19 DEF NamesRecord, r, q
<1>3. QED
  BY <1>1, <1>2

\* A lookup is narrowed (LookupsAreFiltered, of one request).
NarrowsLookup(j, q) ==
  j.node \in {"lookup"} /\ q # Requests!Rejected =>
    LET lookup == Requests!LookupTypes[j.resource]
    IN  /\ Requests!HasValue(q.value)
        /\ \A f \in lookup.required :
             f \in DOMAIN q.query /\ q.query[f] = Requests!Prefer(j.msg[f], j.config[f])
        /\ \A f \in DOMAIN q.query : Requests!HasValue(q.query[f])
        /\ Requests!HasValue(j.filters["Extra"]) => "Extra" \in DOMAIN q.query

\* A detail is of its mode (DetailsFollowTheMode, of one request).
FollowsMode(j, q) ==
  j.node \in {"detail"} /\ q # Requests!Rejected =>
    LET mode == Requests!Modes[j.resource]
    IN  /\ \A f \in DOMAIN mode.defaults : q.detail[f] = mode.defaults[f]
        /\ \A f \in DOMAIN j.detail \ DOMAIN mode.defaults : q.detail[f] = j.detail[f]

\* A body is sent, and the parts of a batch are distinct (BodiesAreSound, of one request).
HasBody(j, q) ==
  j.node \in {"fusion"} /\ q # Requests!Rejected =>
    /\ j.method \in Requests!WithBody => q.body \in {"object", "empty"}
    /\ j.media = "adfBatch" =>
         Requests!Cardinality({j.parts[i].id : i \in DOMAIN j.parts}) = Len(j.parts)

\* The fields that every type of lookup knows do not include those of the user.
LEMMA OwnFields ==
  \A type \in DOMAIN Requests!LookupTypes :
    "Extra" \notin Requests!LookupTypes[type].required \cup Requests!LookupTypes[type].optional
  BY DEF Requests!LookupTypes, Requests!L

\* The request of a lookup is narrowed.
LEMMA LookupRequestNarrows ==
  ASSUME NEW j, j.resource \in DOMAIN Requests!LookupTypes, "Extra" \in DOMAIN j.filters
  PROVE  NarrowsLookup(j, Requests!LookupRequest(j))
<1> DEFINE lookup == Requests!LookupTypes[j.resource]
           q == Requests!LookupRequest(j)
           parsed == Requests!ParseQueryFilters(j.filters)
           query == Requests!BuildLookupRequest(lookup, parsed, j)
           value == Requests!Prefer(j.msg.queryValue, j.config.queryValue)
           fields == lookup.required \cup lookup.optional
           filled == {f \in fields : Requests!HasValue(Requests!QueryField(f, j))}
<1>1. CASE q = Requests!Rejected
  BY <1>1 DEF NarrowsLookup
<1>2. CASE q # Requests!Rejected
  <2>1. /\ Requests!HasValue(value)
        /\ \A f \in lookup.required : Requests!HasValue(Requests!QueryField(f, j))
        /\ q.value = value /\ q.query = query
    BY <1>2 DEF Requests!LookupRequest
  <2>2. "Extra" \notin fields
    BY OwnFields
  <2> HIDE DEF lookup, q
  <2>3. /\ DOMAIN parsed = {g \in DOMAIN j.filters : Requests!HasValue(j.filters[g])}
        /\ \A f \in DOMAIN parsed : parsed[f] = j.filters[f]
    BY DEF Requests!ParseQueryFilters
  <2> HIDE DEF parsed
  <2>4. query = [f \in filled \cup (DOMAIN parsed \ fields) |->
                   IF f \in filled THEN Requests!QueryField(f, j) ELSE parsed[f]]
    BY DEF Requests!BuildLookupRequest
  <2> HIDE DEF query
  <2>5. \A f \in lookup.required :
          f \in DOMAIN query /\ query[f] = Requests!Prefer(j.msg[f], j.config[f])
    BY <2>1, <2>4 DEF Requests!QueryField
  <2>6. \A f \in DOMAIN query : Requests!HasValue(query[f])
    BY <2>3, <2>4
  <2>7. Requests!HasValue(j.filters["Extra"]) => "Extra" \in DOMAIN query
    BY <2>2, <2>3, <2>4
  <2>8. QED
    BY <2>1, <2>5, <2>6, <2>7 DEF NarrowsLookup, lookup, q
<1>3. QED
  BY <1>1, <1>2

\* The request of a detail is of its mode.
LEMMA DetailRequestFollows ==
  ASSUME NEW j PROVE FollowsMode(j, Requests!DetailRequest(j))
<1> DEFINE q == Requests!DetailRequest(j)
           mode == Requests!Modes[j.resource]
<1>1. CASE q = Requests!Rejected
  BY <1>1 DEF FollowsMode
<1>2. CASE q # Requests!Rejected
  <2>1. q.detail = Requests!ApplyModeDefaults(j.detail, mode)
    BY <1>2 DEF Requests!DetailRequest
  <2> HIDE DEF q, mode
  <2>2. q.detail = [f \in DOMAIN j.detail \cup DOMAIN mode.defaults |->
                      IF f \in DOMAIN mode.defaults THEN mode.defaults[f] ELSE j.detail[f]]
    BY <2>1 DEF Requests!ApplyModeDefaults
  <2>3. QED
    BY <2>2 DEF FollowsMode, q, mode
<1>3. QED
  BY <1>1, <1>2

\* A function on 1 .. n that is one to one has n values.
LEMMA CountOfIds ==
  ASSUME NEW p, NEW n \in Nat, DOMAIN p = 1 .. n,
         \A i, k \in DOMAIN p : i # k => p[i].id # p[k].id
  PROVE  Requests!Cardinality({p[i].id : i \in DOMAIN p}) = n
<1> DEFINE T == {p[i].id : i \in DOMAIN p}
           f == [i \in 1 .. n |-> p[i].id]
<1>1. f \in Bijection(1 .. n, T)
  <2>1. f \in [1 .. n -> T] /\ \A a, b \in DOMAIN f : f[a] = f[b] => a = b
    BY Zenon
  <2>2. \A t \in T : \E s \in 1 .. n : f[s] = t
    BY Zenon
  <2> HIDE DEF f, T
  <2>3. QED
    BY <2>1, <2>2 DEF Bijection, Injection, Surjection, IsInjective
<1> HIDE DEF f, T
<1>2. IsFiniteSet(1 .. n) /\ Cardinality(1 .. n) = n
  BY FS_Interval
<1>3. IsFiniteSet(T) /\ Cardinality(T) = n
  BY <1>1, <1>2, FS_Bijection DEF ExistsBijection
<1>4. QED
  BY <1>3 DEF T, Requests!Cardinality, Cardinality, IsFiniteSet, Requests!IsFiniteSet

\* The request of fusion-request has its body, its parts are told apart.
LEMMA FusionRequestHasBody ==
  ASSUME NEW j, NEW n \in Nat, DOMAIN j.parts = 1 .. n, Len(j.parts) = n,
         j.payload \in {"empty", "object", "text"}, j.source \in {"mappings", "msgPayload"},
         j.source = "mappings" => j.payload # "text"
  PROVE  HasBody(j, Requests!FusionRequest(j))
<1> DEFINE q == Requests!FusionRequest(j)
<1>1. CASE q = Requests!Rejected
  BY <1>1 DEF HasBody
<1>2. CASE q # Requests!Rejected
  <2>1. /\ Requests!PayloadAccepted(j)
        /\ j.media = "adfBatch" => Requests!BatchAccepted(j)
        /\ q.body = IF j.method \in Requests!WithBody THEN j.payload ELSE "none"
    BY <1>2 DEF Requests!FusionRequest
  <2> HIDE DEF q
  <2>2. j.method \in Requests!WithBody => q.body \in {"object", "empty"}
    BY <2>1 DEF Requests!PayloadAccepted
  <2>3. ASSUME j.media = "adfBatch"
        PROVE  Requests!Cardinality({j.parts[i].id : i \in DOMAIN j.parts}) = Len(j.parts)
    <3>1. \A i, k \in DOMAIN j.parts : i # k => j.parts[i].id # j.parts[k].id
      BY <2>1, <2>3 DEF Requests!BatchAccepted
    <3>2. QED
      BY <3>1, CountOfIds
  <2>4. QED
    BY <2>2, <2>3 DEF HasBody, q
<1>3. QED
  BY <1>1, <1>2

\* A request means what message and configuration say.
Meant(j, q) == NamesRecord(j, q) /\ NarrowsLookup(j, q) /\ FollowsMode(j, q) /\ HasBody(j, q)

\* Only one kind of request is asked of a node.
LEMMA KindsOfNodes ==
  /\ Requests!Idle.node \notin DOMAIN Requests!Tables \cup {"lookup", "detail", "fusion"}
  /\ {"lookup", "detail", "fusion"} \cap DOMAIN Requests!Tables = {}
  BY DEF Requests!Idle, Requests!Tables

\* Messages and configurations carry the values they are given.
LEMMA GivenValues ==
  ASSUME NEW S, NEW V \in SUBSET Requests!Values, NEW m \in Requests!Over(S, V), NEW a
  PROVE  \A id \in Requests!Ids : [m EXCEPT !.action = a][id] \in Requests!Values
<1>1. PICK f \in [S -> V] :
        m = [n \in Requests!Ids \cup Requests!Fields \cup {"action", "queryValue"} |->
               IF n \in S THEN f[n] ELSE "none"]
  BY DEF Requests!Over
<1>2. "none" \in Requests!Values /\ "action" \notin Requests!Ids
  BY DEF Requests!Values, Requests!Ids
<1>3. QED
  BY <1>1, <1>2

\* Each kind of request means what is said.
LEMMA ResourceMeant ==
  ASSUME Requests!ValuesAreKnown, Requests!OnResource PROVE Meant(job', request')
<1>1. PICK node \in DOMAIN Requests!Tables : \E name \in DOMAIN Requests!Tables[node] :
        LET ids == Requests!Ids \cap (Requests!Range(Requests!Tables[node][name].path)
                                        \cup {Requests!Tables[node][name].item})
        IN  \E m \in Requests!Over(ids, Given), c \in Requests!Over(ids, Set) :
            \E a \in Requests!Crud \cup {"none", "other"}, b \in {"none", "update"} :
              /\ job' = [node |-> node, resource |-> name,
                         msg |-> [m EXCEPT !.action = a], config |-> [c EXCEPT !.action = b]]
              /\ request' = Requests!ResourceRequest(job')
  BY Zenon DEF Requests!OnResource
<1>2. PICK name \in DOMAIN Requests!Tables[node] :
        LET ids == Requests!Ids \cap (Requests!Range(Requests!Tables[node][name].path)
                                        \cup {Requests!Tables[node][name].item})
        IN  \E m \in Requests!Over(ids, Given), c \in Requests!Over(ids, Set) :
            \E a \in Requests!Crud \cup {"none", "other"}, b \in {"none", "update"} :
              /\ job' = [node |-> node, resource |-> name,
                         msg |-> [m EXCEPT !.action = a], config |-> [c EXCEPT !.action = b]]
              /\ request' = Requests!ResourceRequest(job')
  BY <1>1, Zenon
<1> DEFINE ids == Requests!Ids \cap (Requests!Range(Requests!Tables[node][name].path)
                                       \cup {Requests!Tables[node][name].item})
<1>3. PICK m \in Requests!Over(ids, Given), c \in Requests!Over(ids, Set),
            a \in Requests!Crud \cup {"none", "other"}, b \in {"none", "update"} :
         /\ job' = [node |-> node, resource |-> name,
                    msg |-> [m EXCEPT !.action = a], config |-> [c EXCEPT !.action = b]]
         /\ request' = Requests!ResourceRequest(job')
  BY <1>2, Zenon
<1> DEFINE ms == [m EXCEPT !.action = a]
           cs == [c EXCEPT !.action = b]
<1>4. /\ \A id \in Requests!Ids : ms[id] \in Requests!Values
      /\ \A id \in Requests!Ids : cs[id] \in Requests!Values
  BY GivenValues DEF Requests!ValuesAreKnown
<1>5. job' = [node |-> node, resource |-> name, msg |-> ms, config |-> cs]
  BY <1>3, Zenon
<1> HIDE DEF ms, cs
<1>6. job'.node = node /\ job'.resource = name /\ job'.msg = ms /\ job'.config = cs
  BY <1>5
<1>7. IdsOf(job')
  BY <1>4, <1>6 DEF IdsOf
<1>8. NamesRecord(job', request')
  BY <1>3, <1>6, <1>7, ResourceRequestNames
<1>9. QED
  BY <1>6, <1>8, KindsOfNodes DEF Meant, NarrowsLookup, FollowsMode, HasBody

LEMMA LookupMeant ==
  ASSUME Requests!OnLookup PROVE Meant(job', request')
<1>1. PICK type \in DOMAIN Requests!LookupTypes :
        \E m, c : \E f \in [Requests!LookupTypes[type].required \cup {"Extra"} -> {"none", "blank", "B"}] :
          /\ job' = [node |-> "lookup", resource |-> type, msg |-> m, config |-> c, filters |-> f]
          /\ request' = Requests!LookupRequest(job')
  BY Zenon DEF Requests!OnLookup
<1>2. /\ job'.node = "lookup" /\ job'.resource \in DOMAIN Requests!LookupTypes
      /\ "Extra" \in DOMAIN job'.filters
      /\ request' = Requests!LookupRequest(job')
  BY <1>1
<1>3. NarrowsLookup(job', request')
  BY <1>2, LookupRequestNarrows
<1>4. QED
  BY <1>2, <1>3, KindsOfNodes DEF Meant, NamesRecord, FollowsMode, HasBody

LEMMA DetailMeant ==
  ASSUME Requests!OnDetail PROVE Meant(job', request')
<1>1. job'.node = "detail" /\ request' = Requests!DetailRequest(job')
  BY DEF Requests!OnDetail
<1>2. FollowsMode(job', request')
  BY <1>1, DetailRequestFollows
<1>3. QED
  BY <1>1, <1>2, KindsOfNodes DEF Meant, NamesRecord, NarrowsLookup, HasBody

LEMMA FusionMeant ==
  ASSUME Requests!OnFusionRequest PROVE Meant(job', request')
<1>1. PICK method \in {"GET", "POST", "PATCH", "other"}, url \in {"none", "root", "resource"},
           media \in {"resourceItem", "adfAction", "adfBatch"}, source \in {"mappings", "msgPayload"} :
      \E payload \in {"empty", "object"} \cup (IF source = "mappings" THEN {} ELSE {"text"}) :
      \E parts \in IF media = "adfBatch" /\ payload = "object" /\ url = "root"
                   THEN Requests!BoundedSeq(Requests!Parts, 2) ELSE {<<>>} :
        /\ job' = [node |-> "fusion", method |-> method, url |-> url, media |-> media,
                   source |-> source, payload |-> payload, parts |-> parts]
        /\ request' = Requests!FusionRequest(job')
  BY Zenon DEF Requests!OnFusionRequest
<1>2. PICK payload \in {"empty", "object"} \cup (IF source = "mappings" THEN {} ELSE {"text"}) :
      \E parts \in IF media = "adfBatch" /\ payload = "object" /\ url = "root"
                   THEN Requests!BoundedSeq(Requests!Parts, 2) ELSE {<<>>} :
        /\ job' = [node |-> "fusion", method |-> method, url |-> url, media |-> media,
                   source |-> source, payload |-> payload, parts |-> parts]
        /\ request' = Requests!FusionRequest(job')
  BY <1>1, Zenon
<1>3. PICK parts \in IF media = "adfBatch" /\ payload = "object" /\ url = "root"
                    THEN Requests!BoundedSeq(Requests!Parts, 2) ELSE {<<>>} :
        /\ job' = [node |-> "fusion", method |-> method, url |-> url, media |-> media,
                   source |-> source, payload |-> payload, parts |-> parts]
        /\ request' = Requests!FusionRequest(job')
  BY <1>2, Zenon
<1>4. /\ parts \in Requests!BoundedSeq(Requests!Parts, 2) \cup {<<>>}
      /\ job'.node = "fusion" /\ job'.parts = parts
      /\ job'.payload \in {"empty", "object", "text"} /\ job'.source \in {"mappings", "msgPayload"}
      /\ job'.source = "mappings" => job'.payload # "text"
      /\ request' = Requests!FusionRequest(job')
  BY <1>3
<1>5. PICK n \in Nat : DOMAIN parts = 1 .. n /\ Len(parts) = n
  <2>1. CASE parts \in Requests!BoundedSeq(Requests!Parts, 2)
    <3>1. PICK n \in 0 .. 2 : parts \in [1 .. n -> Requests!Parts]
      BY <2>1 DEF Requests!BoundedSeq, Requests!SeqOf
    <3>2. QED
      BY <3>1
  <2>2. CASE parts = <<>>
    BY <2>2
  <2>3. QED
    BY <1>4, <2>1, <2>2
<1>6. HasBody(job', request')
  BY <1>4, <1>5, FusionRequestHasBody
<1>7. QED
  BY <1>4, <1>6, KindsOfNodes DEF Meant, NamesRecord, NarrowsLookup, FollowsMode

\* A request that is sent addresses the record, narrows the lookup and carries the body that
\* message and configuration ask for (RequestsAreSound), whatever their values.
THEOREM MeaningfulRequests == DataSpec => []RequestsAreSound
<1>1. DataInit => Meant(job, request)
  BY KindsOfNodes
     DEF DataInit, Requests!Init, Meant, NamesRecord, NarrowsLookup, FollowsMode, HasBody
<1>2. Meant(job, request) /\ [DataNext]_dataVars => Meant(job, request)'
  <2> SUFFICES ASSUME Meant(job, request), [DataNext]_dataVars PROVE Meant(job', request')
    BY Zenon DEF Meant, NamesRecord, NarrowsLookup, FollowsMode, HasBody
  <2>1. CASE Requests!Next
    BY <2>1, DataAssumption, ResourceMeant, LookupMeant, DetailMeant, FusionMeant
       DEF Requests!Next
  <2>2. CASE UNCHANGED requestVars
    BY <2>2 DEF requestVars
  <2>3. QED
    BY <2>1, <2>2, Zenon DEF DataNext, dataVars
<1>3. Meant(job, request) => RequestsAreSound
  BY DEF Meant, NamesRecord, NarrowsLookup, FollowsMode, HasBody, RequestsAreSound,
         Requests!RequestsAreSound, Requests!RecordsAreNamed, Requests!LookupsAreFiltered,
         Requests!DetailsFollowTheMode, Requests!BodiesAreSound, Requests!Sent
<1>4. QED
  BY <1>1, <1>2, <1>3, PTL DEF DataSpec
===============================================================================
