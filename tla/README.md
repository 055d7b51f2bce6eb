# Verification of the Oracle nodes for Node-RED

TLA+ modules, TLC configurations and TLAPS proofs for the three Node-RED
packages of this repository: `db-nodes` (Oracle Database and Advanced Queuing),
`oci-nodes` (Streaming, Kafka, Queue, ORDS, IoT, Monitoring and other OCI
services) and `fusion-scm-nodes` (Fusion SCM and the Smart Operations
transformer). Paths below are relative to the repository's root. The repository
has no tests; the code and `docs/node-reference.md` are the reference.

Contents

1. The system: inventory of components
2. What is modelled, module by module
3. The runs: what each checks, its bounds
4. Fairness
5. What is proved, and how
6. A disagreement between documentation and code
7. What is only model-checked, what is not modelled
8. Plan
9. Conventions and how to run

## 1. The system

A Node-RED flow is a graph of nodes. A *configuration node* (`db-connection`,
`oci-config`, `ords-config`, `iot-config`, `scm-server`, ...) holds credentials,
clients and connections and is used by many other nodes. A *flow node* has an
input handler `(msg, send, done)`, emits messages with `send`, reports errors
with `done(err)`, and a `close` handler that runs when the flow is redeployed;
some nodes run a loop of their own instead (listeners, consumers, pollers).

Everything runs in one JavaScript thread. Nothing is ever interrupted in the
middle of a callback, but every `await` is a point at which any other handler,
timer, driver callback or `close` may run. A step of every model is therefore
the code **from one await (or event) to the next**, and what a handler read
before an await may be stale after it. That is where this code is hard: shared
promises, close handlers that race with answers, timers that race with inputs,
tokens that outlive what they stand for. Nothing is persisted by the nodes
themselves; the state that survives a failure is Oracle's, the consumer group's
or the broker's.

### 1.1 Components that keep state across awaits

| component | state | operations | interacts with | hard behaviour | what makes it correct |
|---|---|---|---|---|---|
| **transaction registry** `db-nodes/lib/db-transaction.js`, `begin-transaction`, `end-transaction` | map of transactions; per transaction `_state`, `_tail` (chain of lease promises), `_rollbackOnly`, `_result`, timer, owning begin node | create, get, acquire / release, finish, capture, finalize, timeout, reuse, close | sql / enqueue / dequeue handlers, SMO transformer (through a bridge on `RED.nodes.getNode`), Oracle sessions | five parties race to finish one transaction; failures after finish was called; commits whose answer is lost | operations are serial; settled once, as a whole, never with failed work; reported outcomes are true; no session without an owner; close ends |
| **sql, enqueue, dequeue handlers** `db-nodes/lib/db-operation.js`, `nodes/sql.js`, `enqueue.js`, `dequeue.js` | pending inputs, closing flag, the lease each input holds | input with or without a transaction, close | registry, pool | close while an input waits for a lease; empty dequeue commits the transaction it is part of | every lease is given back, every input is answered, close waits for all |
| **continuous dequeue** `dequeue.js` `startListening` | running, session, retry attempt, batch | open, getQueue, dequeue, materialize, commit, retry, close with `break()` | AQ | lost commit answers, close in a dequeue that waits for ever, session that arrives late | sent at most once and only when removed; sessions do not leak; separate outages do not add up |
| **db-connection** | driver mode (process-wide), token cache, pool promise | pooled / standalone connection, close | all DB nodes | pool created while closing | one pool, closed with the node |
| **SMO transformer, composite mode** `fusion-scm-nodes/nodes/smo-transformer.js` | store of partial events, timers, a promise queue per key, count of waiting inputs | input, merge, flush by timer / age / limit, finalize two owners, close | registry of db-nodes | entry replaced while its timer's job is queued; close during a commit; store limit evicts the new entry | nothing sent twice; an event is built on committed work only; references stay reachable; limits hold; no late output |
| **oci-streaming-in, oci-streaming-commit** | cursor, held entry and its token, committed offsets, loop state | join, read, hold, heartbeat, commitMessage, cursor loss, close | OCI Streaming group | token of a dropped entry, heartbeat under way when a commit comes, expired group replays | group never passes an unconfirmed record; no replay of confirmed ones; loop never waits for nobody |
| **oci-kafka-consumer, oci-kafka-commit** | pending commits by token, scheduled dispatches, pauses of the native client | record / batch delivery, rebalance, commitMessage, close | Kafka group | batch delivered before its partition is paused; answers after a rebalance | committed offsets confirm only what the flow confirmed; pauses follow deliveries; success is true |
| **oci-kafka-config, oci-kafka-producer** | shared producer promise | get, close | Kafka | producer ready after close | one producer, disconnected with the node |
| **oci-queue-in / -ack / -out** | poll loop, retry wait | poll, wait, close, batch acknowledgement | OCI Queue | close during a poll; partial failure of a batch | messages are not sent after close, failures are counted right |
| **OCI client manager, oci-config** `lib/oci-client.js` | map key -> client (promise), closed | get, release, close | all OCI nodes | client whose creation ends after close | one client per key, all shut down once |
| **ords-config, oci-ords-poll, oci-ords-request** | shared token promise, bounded queue of poll jobs, abort controllers | getToken, request, runPollJob, close; poll with interval and total timeout | ORDS, OAuth | timeout against answer, abort in the queue, slot not given back | bound holds, slots return, each input answered once |
| **bounded operations** `lib/oci-monitoring-operation.js` (monitoring nodes) and `lib/oci-sensitive.js` (vault-secret, certificate) | set of active jobs, queue of waiting ones, per job its deadline, timer and owned clients | submit, run, drain, timeout, close | Monitoring, Vault, Certificates | a timed-out operation keeps its slot until its work ends; answers race with deadline and close | limits hold, slots are refilled, settled once and in time, no client without an owner |
| **iot-config, iot-subscribe, iot-telemetry** | MQTT client, subscribers per topic with QoS | connect, subscribe, unsubscribe, resubscribe, dispatch, close | MQTT broker | last subscriber leaves while another joins; disconnected meanwhile | broker's subscriptions follow the table |
| **scm-server** | shared token promise with expiry | getToken, close | Fusion | many requests, one refresh | one fetch at a time, failure is not cached |

### 1.2 Request and response nodes

28 nodes build a request from fields, send it and answer the message once:
`oci-functions-invoke`, `oci-object-storage`, `oci-api-request`, `oci-logging`,
`oci-log-analytics`, `oci-notification`, `oci-streaming-out`, `oci-queue-out`,
`oci-queue-ack`, `oci-kafka-producer`, the three IoT control nodes, and the
Fusion create, update and lookup nodes. Each has its own order of awaits and of
checks between them ("is the node closing?", "is this input refused after
all?"). They meet in what they share: one access token per `scm-server`, one
authentication provider per `oci-config`, one client per manager, one producer
per `oci-kafka-config`, each created by whoever comes first while the others
wait for the same promise.

### 1.3 Pure algorithms

What a Fusion node requests (resource paths and their placeholders, filters of a
lookup, transaction details, parts of a batch), how a collection is read page by
page, MQTT topic matching and pattern validity in `iot-config.js`, the reading
of a batch acknowledgement in `oci-queue-ack.js`, the retry arithmetic
`nextRetryAttempt`, the scan for bind placeholders in `sql.js`, the mapping of
fields in `fusion-scm-nodes/lib`.

`PROJECT.json` lists every component with its sources and status and, under
`hazards`, every behaviour of this code that is hard to test, at its line.

## 2. The modules

| module | models | kind |
|---|---|---|
| `AtomicTransaction` | what a managed transaction promises a flow | abstract specification |
| `DbTransaction` | registry, begin / end, finalize(), handlers under a lease | component |
| `RegistryView` | the registry as other packages see it | abstract specification, shared by `DbTransaction` and `SmoComposite` |
| `DbTransactionProofs` | theorems about `DbTransaction` and both refinements | proofs |
| `DbConnection` | the pool, and sql / enqueue / dequeue with a connection of their own | component |
| `SmoComposite`, `SmoCompositeProofs` | composite assembly over `RegistryView` | component, proofs |
| `AqListener` | continuous dequeue | component |
| `DbSessionProofs` | theorems about `AqListener` and `DbConnection`: sessions and connections are used and given back | proofs |
| `StreamingIn`, `StreamingInProofs` | manual commits of oci-streaming-in | component, proofs |
| `KafkaConsumer`, `KafkaConsumerProofs` | manual commits of oci-kafka-consumer | component, proofs |
| `JobPool`, `JobPoolProofs` | bounded operations of the vault-secret, certificate and monitoring nodes | component, proofs |
| `OrdsPoll` | token, slots and queue of ords-config, poll jobs, single requests | components composed |
| `IotSubscriptions` | MQTT connection, subscribers and telemetry inputs | components composed |
| `OciConfigProofs` | theorems about `OrdsPoll` and `IotSubscriptions`: what configuration nodes share out | proofs |
| `RequestPaths` | the 28 request handlers as paths of awaits and checks | data of `RequestNodes` |
| `RequestNodes` | those handlers over the token, provider, client or producer they share | components composed |
| `FusionRequests` | what the Fusion nodes request | algorithm |
| `FusionPages` | reading a collection page by page | algorithm |
| `QueueAck` | acknowledgement of a batch of queue messages | component |
| `TopicMatching` | which messages a subscription receives | algorithm |
| `DataRules` | the last four modules side by side | composition |
| `RequestProofs` | theorems about `RequestNodes` and `DataRules` | proofs |
| `MC...` | instances for TLC: constants and assignments of fragments, kinds, nodes | model checking |

`PROJECT.json` "map" gives, for every definition, the source lines it stands
for. In each module an operator introduced by a comment "Fault: ..." stands just
before the definition it would replace; it is not used by the specification. It
is that definition with a plausible bug (a dropped check, a missing reset), and
the property named for it in "mutants" is violated when it is put in place.

### 2.1 DbTransaction (with AtomicTransaction and RegistryView)

A transaction (`Txns`) goes `none -> connecting -> active -> draining ->
committing / rollingBack / recovering -> closing -> ended`. `draining` to
`closing` are the code's `_state = "ending"`, told apart by the await at which
`finish()` stands. A connection that arrives when the begin node is closing is
`late` and is `discarded`.

*Leases.* `acquire()` chains promises: each caller awaits the previous `_tail`
and leaves its own behind. Promise k of a transaction is the number k;
`issued[t]` counts them, `released[t]` is the set that resolved, `ticket[o]` is
the handler's own. `Granted` is "my predecessor resolved", `Drained` (the first
await of `finish()`) is "the last one resolved". Nothing in the model says that
handlers take turns; that is a theorem.

*Handlers* (`Ops`): `OpStart` is the synchronous part of acquire, `OpGranted`
its resumption (the transaction may have ended, the node may be closing),
`OpPrepared` validation and binds up to the database call, `OpExecuted` /
`OpFailed` its answer, `OpEmpty` / `OpEmptied` a dequeue that found nothing: it
gives back its lease, asks for a commit and shares whatever completion there is.
`Break` is every error exit: mark the transaction rollback-only, then release.
`OpMisconfigured` is the error that marks a transaction without ever taking a
lease; `OpRefused` the one that does not mark.

*Callers* (`Callers`) are end-transaction inputs and calls of `finalize()` by
the SMO transformer; `Begins` are begin nodes, some with a timeout, which own
the transactions they track until these end, are reused elsewhere, or the node
closes.

*The database* (`db`): a commit that throws may have happened; a rollback that
throws may not have; closing a session rolls back what is open, unless close
itself throws. `outcome` and `failure` are what the code reports.

`AtomicTransaction` has no leases, owners or timers: a transaction is open,
takes members, may be poisoned, and is committed (only if not poisoned) or
rolled back once. The refinement mapping (`Atomic == INSTANCE ...` at the end of
`DbTransaction`) derives phase, members and poison from `db`, `pc` and `txnOf`.

`RegistryView` is what `capture()` and `finalize()` let other packages see: a
transaction is active, then ending, then committed or failed, once and for all,
and several may be asked to end in one step. Its mapping (`View`) derives this
from `state`, `outcome` and `failure`; "failed" covers rolled back, unknown, and
committed with a failed close, as `finalize()` computes it. `SmoComposite`
instantiates the same module, so that what it assumes of the registry is what
the registry is shown to do.

Left out: messages without a transaction (the handlers' standalone paths), the
wording of status and warnings, validation of SQL and payloads.

### 2.2 SmoComposite

Fragments (`Frags`) have a key, an owner transaction or none, and say of each
required field: absent, null or a value. A payload maps each field to the
fragment that supplied it, so "whose work is in this event" is visible to the
properties. `queues[k]` is the promise chain of a key (running job first),
holding inputs and timer jobs; keys interleave. `Input` is admission with its
limit; `RunClosed`, `RunInvalid`, `RunExpired`, `RunFinalize`, `RunConclude` are
the exits of `handleComposite` up to its only await, `Finalized` is the code
behind it. `Keep` stores the merged entry, re-arms the timer **and** enforces age
and size limits, as the code does in one go. `TimerFires` queues the timer's
job, `RunTimer` runs it and must leave a newer version of the entry alone.

The registry appears as `txn`, and every change of it is a step of
`RegistryView`. Others may end transactions at any time (`TxnsEnd`, several at
once when a begin node closes); what was asked to end does (`TxnSettles`), which
is a part of `DbTransaction!EverythingSettles`.

Simplified: entries are told apart by the fragment that stored them (each
fragment stores once) and by creation order (`createdAt` without ties); the
release function runs with the end of its handler; result histories on messages,
node status and the conversion of the incoming event are left out.

### 2.3 AqListener

`at` names the await at which the loop stands. `Fails`, `CommitFails` and
`Dropped` are the catch block: the session is dropped first, then the loop gives
up, sleeps or leaves. `Close`, `Break`, `Closed` are the close handler's three
parts: it marks, interrupts the call in flight, and awaits the loop. Oracle's
side is the set of sessions and the place of each message: queued, locked by the
session, removed; a closed session gives its locks back. A dequeue that fails may
have locked a part of its batch. Modelled for dequeue mode Remove.

### 2.4 StreamingIn

One partition, offsets `1..Last`; a cursor is the offset read next. `at` is the
loop's await, `pending` the token of the held entry, `entry[t]` what each token
ever stood for, so that late commits and heartbeats of dropped entries can be
seen to be refused. `CursorFailure` is `handleCursorFailure()`: it ignores the
answer for an entry that is no longer held, otherwise forgets the cursor with
the entry and, for lost retention, halts. OCI is `group`, the committed
position; a failed commit may have moved it, an expired group is recreated at
the oldest record.

### 2.5 KafkaConsumer

Both output modes. A delivery is held under a token; in individual mode the
partition is paused at once, in batch mode one turn later (`Dispatch`), and a
batch that comes in between is refused (`EmitBatch`, first disjunct).
`Invalidate` is `onRebalance()`'s dropping of entries with the pauses they own;
the native client keeps pauses across assignments. `calls[t]` is the request at
the broker: `Apply` takes it unless the partition was taken away (`fenced`), and
`CommitAnswers` is the code after the await, which looks at the entry again.
`connect`, `subscribe` and `run` are one step that succeeds.

### 2.6 JobPool

Two libraries implement the same discipline and differ in details; `kind` says
which one runs. `phase` is the await at which the work of a job stands:
`starting` before its first turn, `preparing` while the provider or the shared
client is awaited, `calling` at the service, then the three ways in which its
promise settles (`resolved`, `rejected`, and `cancelled` by `check()`), and
`leaving` before the `finally`. `answer` is what the input was told,
independently of where its work stands: that is the point of the component, a
timed-out or closed job goes on in its slot. `late` is the comparison of the
clock with the deadline; `Timeout` is the timer, which fires some time after it.
`Finish` is `finish()` with a code, `Send` without one; `Release` is the
`finally` and contains `drain()`.

`sensitive` jobs own a client each (`client`), which `finish()`, the close
handler and the `finally` dispose of; `monitoring` jobs share one that is not
theirs to close. `CancelCode` and the order of the checks in `Submit` are the
other differences. Some turns that the event loop runs back to back (a job's
first turn, its settling and the `finally`) are separate steps here, which only
adds interleavings.

### 2.7 DbConnection

The other half of the database nodes: `pool` is the pool and the promise of its
creation, `closing` the three stages of the configuration's close handler (it
waits for a creation, drains, is closed), `pc` the await of an operation from
`prepare` to `close`, `conn` its connection, `work` what the transaction on that
connection has done. `kind` chooses sql, enqueue or dequeue; requests of the
editor's test endpoint (`Tests`) use the same functions and belong to no node.
`NeedsRollback` is the flag of the same name; `Leave` and `Catch` are the finally
and the catch of the handlers. "doubtful" is work whose commit or rollback
failed, so that only the database knows.

The call that does the work may do a part of it and then fail, which is why the
code sets `needsRollback` before the call: `CallFails` at "execute" leaves the work
of an enqueue or a dequeue undone or open. In the browse and locked modes the call
is a loop of single dequeues (`oracle-aq.js:212-218`); `DequeuedOne` is an answer
within the loop, which locks a message, and behind which the next call may fail or
the node close.

`NothingLeaks` names one exception, which the code has: an operation that calls
`initPool()` when the close is over creates a pool (`orphan`) that nobody
closes. Access tokens, authentication options and the process-wide driver mode
appear as `Refused` only, and `pool.close()` succeeds.

### 2.8 OrdsPoll

A poll input is two activities. Its *work* stands at the await `at` names: the
token, the call, the second attempt after a 401, the interval, or the queue.
Its *handler* waits for the work or the total timeout (`raced`, `reply`). The
two go separate ways after a timeout: the input is answered, the signal is
aborted, and the work still has to unwind and to give its slot back
(`SlotsAreConserved` counts slots by where the work stands, not by who was
answered). `token` and `flight` are the cached access token and the promise of
its refresh, which single requests (`Requests`) share. Whether a response is
complete is a choice of the server. Close empties the queue and rejects new
jobs; it does not answer for the jobs at work.

### 2.9 IotSubscriptions and TopicMatching

`table` holds the registered callbacks of `topicSubscriptions`, `node` the life
of each subscriber with the timer of its close, `wire` the packets between
client and broker in their order, `broker` what the broker's session has.
Joining subscribes with the highest QoS asked for, leaving unsubscribes behind the
last member only, and `onConnect` subscribes to everything again. A dropped
connection loses what is on the wire, and the broker forgets a clean session.
`stale` are the topics whose last subscriber left without an unsubscription that
reached the broker: because the connection was down, or because it was lost on the
way. A session that is kept still has them, and mqtt.js, which `iot-config` leaves
at its default of resubscribing by itself, may ask for them again after any drop
(`Connected`), also in a clean session. They are the one exception
`BrokerFollowsTable` grants. `TopicMatching` compares
`mqttTopicMatches` with the definition of the MQTT standard, "$" topics and
misplaced wildcards included. The loop over the levels is written as the
conditions under which it goes on (`GoesOn`) and the two ways in which it finds a
match, which makes it accessible to proof.

### 2.10 RequestNodes and RequestPaths

A handler is a record: the check it begins with, whether its catch is silent
once the node is closed, whose close shuts its clients, and the set of its
*paths*. A path is the sequence of its awaits, each with the checks behind it:
`<<Then("client", "quiet"), Then("call", "quiet")>>` is "await the client; if
the node is closed drop the input; await the call; if the node is closed drop
it". `RequestNodes` runs any of the 28 over the shared values. `token`,
`provider`, `client` and `producer` are "creating" while their promise is
pending; every input whose path is at that await waits for the same creation and
goes on with it (`Settle`). `closed` says which of node, configuration and
identity are closed, in any order; `ShutClients` is the manager's close, and
`Created` looks at the manager again when the provider has arrived, as
`oci-client.js:63-76` does. `own` are the clients that `oci-functions-invoke`
makes for one input. `orphan` is the producer created behind the close of
`oci-kafka-config`, which `getProducer()` does not refuse: the exception
`NothingOutlivesClose` names.

### 2.11 FusionRequests, FusionPages, QueueAck

`FusionRequests` computes, from a configuration and a message whose values are
absent, blank, a dot segment or a name, what each Fusion node requests; its
property says what such a request is: it addresses the record that message and
configuration name, a lookup has its filter, a detail fits its mode, and the parts
of a batch have distinct ids; or there is none. `FusionPages` is `fetchAllCollectionPages()`
against servers that repeat offset and limit or leave them out, ignore the
offset, or answer with something else, under limits of pages and items and a
node that closes; it assumes that a page which says there is more is a full one,
since a short one cannot be told from it without an echoed limit. `QueueAck`
sends one message with a batch of receipts through `oci-queue-ack` again and
again, after partial failures, lost answers and answers whose counts do not add
up. The four modules share nothing; `DataRules` takes each as an `INSTANCE`
and lets one of them leave its initial state.

## 3. The runs

Messages, operations and nodes are model values. No symmetry sets are used: in
most instances the values are told apart by kind or owner, and liveness is
checked in the others. Deadlock checking is off in every run because every
instance is finite: the flow sends a bounded number of messages and failures are
bounded, so a run of the system rightly comes to rest; that nobody waits for
ever is stated by the liveness properties instead.

| run | instance | distinct states | shows |
|---|---|---|---|
| `db_txn` | one transaction, a sql and a dequeue handler on two nodes, two begin nodes (one timed), an end-transaction input that commits, a finalize() call | 987,782 | `ConnectionIsExclusive`, `BrokenNeverCommits`, `ReportsAreTrue`, `NothingIsLeftBehind`, `ImplementsItsContracts`, `EverythingSettles` |
| `db_txn_empty` | one transaction, the same handlers, one timed begin node, a finalize() call | (stops at a violation) | the disagreement of section 6 |
| `smo_composite` | three fragments of one event with two transactions, one of another event, one without key; room for two entries and two inputs at once | 1,205,488 | `NothingLostOrTwice`, `EmittedWorkIsSafe`, `NothingStale`, `ComesToRest` |
| `aq_listen` | 3 messages, batches of 2, one retry, 4 failures | 11,672 | `AtMostOnce`, `SessionsClosed`, `GivesUpFairly`, `ListenerEnds` |
| `streaming_in` | 3 records, group starts at 2, reads of up to 2, 3 failures | 39,480 | `OnlyConfirmedIsPassed`, `NoStaleOutput`, `EachIsConfirmed` |
| `kafka_commit` | 2 partitions of 2 records, batches of 2, one rebalance, one failure | 704,934 | `HeldUntilConfirmed`, `AnswersAreTrue`, `EachIsConfirmed` |
| `job_pool` | 3 inputs, one slot, one waiting place, both libraries | 42,449 | `SlotsAreShared`, `NoClientOutlives`, `AnsweredInTime`, `EveryInputIsAnswered` |
| `ords_poll` | two polls of one node, one single request, one slot, a queue of none or one | about 714,000 | `SlotsAreConserved`, `RepliesAreTrue`, `EveryInputEnds` |
| `iot_subs` | two subscribers of one topic with different QoS, one of another, one telemetry input, 3 packets under way | about 236,000 | `BrokerFollowsTable`, `EverythingEnds` |
| `requests` | 3 inputs of each of the 28 handlers | 46,540 | `NothingOutlivesClose`, `SharedIsUsable`, `ClosedIsQuiet`, `EveryInputIsAnswered` |
| `db_connection` | two inputs of one node, one connection test, with and without pool | about 260,000 | `WorkIsSettled`, `NothingLeaks`, `EverythingEnds` |
| `data_rules` | every request over the values that tell paths apart; collections of up to 5 items in pages of up to 3; batches of two receipts; topics of up to 3 levels | about 129,000 | `RequestsAreSound`, `PagesAreComplete`, `AcknowledgementIsTrue`, `MatchingIsMqtt` |

Several of these are conjunctions of parts that have names of their own, and
that the proofs treat one by one:

| property | parts |
|---|---|
| `ConnectionIsExclusive` | `OneAtATime` (one leased handler per transaction), `QuietWhenSettling` |
| `BrokenNeverCommits` | `FailedWorkNeverCommits`, `TimeoutNeverCommits` |
| `ReportsAreTrue` | `OutcomeIsTrue` (the registry's), `RepliesAreTrue` (the callers') |
| `NothingIsLeftBehind` | `NoOrphan`, `CloseWaitsForWork` |
| `ImplementsItsContracts` | `ImplementsAtomic`, `ImplementsView` |
| `EverythingSettles` | an ending transaction ends, close ends, every handler and caller is answered |
| `NothingLostOrTwice` | `OnePlace`, `Bounded`, `NoReferenceLost` |
| `HeldUntilConfirmed` | `OnlyConfirmedIsCommitted`, `HeldIsPaused` |
| `SlotsAreShared` | `Bounded`, `NoIdleSlot` |
| `NoClientOutlives` | `CloseLeavesNothing`, `ClientsAreOwned` |
| `ListenerEnds` | `CloseEnds`, `QueueDrains` |

The type invariants were checked with these runs and then, where there is a
proof module, proved as part of its inductive invariant, so the configurations no
longer list them; the others are checked by adding `TypeOK` to a configuration.

Why the bounds are enough to reach the interesting cases:

- *Two handlers on two nodes, two begin nodes, two callers*: one handler holds
  the lease while the other waits for it or arrives when the transaction is
  being finished; a node that closes is told from one that does not; begin nodes
  can reuse a transaction; four parties race to finish it. The safety properties
  of this run are also proved for all values of the constants.
- *Three fragments of one event with two owners* are the least at which a merge
  of a merge happens and one owner commits while the other fails; two owners per
  merge are all the code ever compares. The limit of two bounds entries and
  admitted inputs: an input waits behind a `finalize()` of its own key, two inputs
  of one key or of two keys are queued at once, a timer's job stands between them,
  and a third input is refused. Two keys do not make the store overflow; an entry
  of one key is flushed by an input of the other through its age in this run, and
  through the size limit in the theorems, which hold for every limit.
- *One retry and four failures* let the listener survive an outage, reset its
  count, and give up in a second one.
- *Three records from position 2*: one record older than the group (what an
  expired group replays), one read of one and one of two records. Three
  failures allow a lost cursor, a failed commit and an expired group in one
  behaviour. `MaxTokens` is large enough never to be the reason for stopping.
- *Two partitions, one rebalance*: taking one away while the other stays, or
  both; giving back needs no bound, since it takes a revocation first.
- *Three inputs over one slot and one waiting place*: one at work, one waiting,
  one refused, and after a timeout of the first a second one at work while the
  first still holds the slot would exceed the limit at once. The polls of
  `ords_poll` meet the same way, with a queue of none for the refusal.
- *Two subscribers of one topic with different QoS*: the stronger leaves first or
  last, and the last one leaves while another joins. Three packets hold an
  unsubscription between two subscriptions.
- *Three inputs over one shared value*: one creates it, one waits for it, one
  comes when it failed, expired or was shut. Their number is no bound for the
  invariants, which are proved.
- *Two inputs and a test over one pool*: one creates, one waits, one arrives
  behind the close.
- *Five items in pages of up to three*: an empty last page, a full one, a short
  one, and a limit of pages and of items that is reached before the end. Three
  levels of a topic allow a wildcard before, between and behind names.

## 4. Fairness

Each module states its fairness next to `FairSpec`. The rules are the same:

- **Promise callbacks run, timers fire, close handlers resume** once they can:
  the event loop is fair.
- **Calls of drivers and services are answered**, with success or an error. The
  documentation demands it (`docs/node-reference.md:86`: "Cleanup cannot
  interrupt a stuck database call. Use finite AQ waits and database/network
  execution limits"). The one call that is *not* assumed to return is the
  continuous listener's dequeue on an empty queue; `CloseEnds` holds because
  `connection.break()` interrupts it.
- **Nobody has to** send an input, end a transaction, close a node, or assign a
  partition, and the begin node's timer may fire but is not needed.
- Streaming: strong fairness of reads that return something. A read may be
  empty any number of times although there are records, but not for ever.
- Streaming and Kafka: `EachIsConfirmed` is about a flow that does confirm what
  it is sent, so `Commit` is fair there; it is what
  `docs/node-reference.md:844-852` and `:932-944` ask of the flow.
- Bounded operations: the event loop, the clock and the timers go on, but
  neither the provider nor the service owes an answer; `EveryInputIsAnswered`
  rests on the deadline alone.
- ORDS: every request carries the node's own timeout, so calls end without the
  server's help, and timers of intervals and deadlines fire.
- IoT: the timers of both close handlers fire and the MQTT client calls back for
  a publish. Neither the broker nor `client.end` has to answer.
- Request nodes: creations and calls end (the SDK's and the nodes' timeouts).
- db-connection: the driver answers every call.
- SMO: one weak fairness of everything that goes on by itself (`Work`): timers,
  jobs, and the ends of transactions. More is not needed, since each of its steps
  uses up a timer, a job or an end and none brings an earlier one back without a new
  input. That a transaction somebody asked to end does end is a part of
  `EverythingSettles`, checked in `db_txn`.

## 5. What is proved

TLAPS checks the following for every value of the constants that satisfies the
named assumptions of the modules (types, positive sizes, special values that
differ from ordinary ones). The properties that the runs list are conjunctions
of named parts (section 3); there is a theorem for each part and one for the
conjunction.

**The lease chain** (`DbTransactionProofs`). `OneAtATime` is not inductive:
nothing in it says why a waiting handler's predecessor is the handler that
holds the lease. `LeaseInv` adds: promises resolve in order; a waiting or leased
handler owns a promise that was issued and has not resolved; no promise has two
owners; a leased handler's predecessor has resolved; a transaction past its
first await has every promise resolved. Two leased handlers would each be the
other's unresolved predecessor (`LeaseInvOneAtATime`). Theorems `TypeCorrect`,
`LeaseChain`, `MutualExclusion`.

**Settlement** (`DbTransactionProofs`). On top of the lease invariant,
`SettleInv` says that the wanted action is fixed once finish() was called, that
`db`, `outcome` and `failure` fit the await at which it stands, and that a
broken handler of a transaction has left its mark before it is decided.
`OwnerInv` says that a transaction with an open connection is tracked by a begin
node that has not closed and that an armed timer belongs to an active one.
`ReplyInv` ties each caller to what it may have been told. From these
`QuietSettlement`, `FailureRollsBack`, `OutcomesAreTrue`, `TimeoutRollsBack`,
`NoOrphans`, `AnswersAreTrue`, `ClosedNodesAreQuiet`, and the four properties of
run `db_txn`: `ExclusiveUse`, `BrokenWorkIsUndone`, `ReportsAreTruthful`,
`CloseIsClean`.

**Refinement** (`DbTransactionProofs`). `Refinement == Spec => ImplementsAtomic`:
initial states map to initial states, and each action maps to Open, Apply,
Poison, Commit, RollBack or a stutter. The interesting cases are that success is reported only while `db` is
open (from `QuietSettlement`) and that a poisoned transaction never commits
(from `SettleInv`). `RegistryIsView == Spec => ImplementsView` needs no more than
the types: every `finish()` is one `End` of those that were active, only a
connection handed out is a `Begin`, only `close()` a `Settle`. `ContractsAreKept`
is the conjunction, the property of run `db_txn`.

**Composite assembly** (`SmoCompositeProofs`). `BaseInv` is about the queues: an
input admitted and not answered is queued once, in its slot, and `inputs` counts
these (`InputsAreCounted`), so that a job that runs is the only one of its kind.
`PlaceInv` says where the work of a fragment may be: an answered fragment's in
the store, with a job that awaits finalize(), or in an event, never in two of
them (also not under two keys), and a queued or new fragment's nowhere; `OnePlace`
follows by counting. `SafeInv` extends `EmittedWorkIsSafe` to what is still
buffered or held: the owner of an entry is the owner of each contributor, or that
contributor's transaction is committed. `StoreInv` bounds the store, where the
argument is about the oldest entry that `Overflow` leaves: no more than the limit
are as young as it (`OverflowBound`). `NoReferenceLost` is inductive with `PlaceInv` because an active
transaction was active before (`WasActive`). `SafeWorkOnly`, `OnePlaceOnly`,
`LimitsHold`, `ReferencesAreKept`, their conjunction `AllAccountedFor`, and the
action property `OnlyFreshLeave`. With `RegistryIsView` these hold of the
composite node over the real registry.

**Connections of their own** (`DbSessionProofs`). `WorkIsSettled` says nothing
of an operation that is still at work. `ConnInv` adds what each await says of the
connection, of the work and of the answer: before the call that does the work
nothing is done; from that call on, whether it succeeds, fails or has done a part,
the work is settled or still to be rolled back; only a
committed dequeue closes its connection before it answers; a pool that lives
behind the close was begun behind it. `ConnectionInvariant`, `WorkSettles`,
`NoLeak`.

**The listener** (`DbSessionProofs`). `ListenerInv` says which sessions,
batches and locks exist at each await and how the retry count relates to the
failures of the present outage. `SentAtMostOnce`, `SessionsAreClosed`,
`RetriesAreUsed`.

**The Kafka consumer** (`KafkaConsumerProofs`). `IInv`: the mode decides what may
be queued; a held entry begins at the committed offset (unless its commit was
just applied) and ends at the read position; a commit under way was asked for by
the flow and skips nothing; a pause belongs to a delivery. `CommitsAreConfirmed`,
`PausesFollowDeliveries`, `DeliveriesAreHeld`, and the action property
`SuccessIsTrue`.

**Streaming** (`StreamingInProofs`). `OnlyConfirmedIsPassed` says nothing of what
a later commit will move the group to. `ConfirmedInv` adds that what the flow
confirmed covers `committedOffsets`; that the records of the held entry, with
what is confirmed, cover everything before its cursor, and that its last record
is the one before that cursor; and that the same is already true of every entry
whose commit is under way. Records an expired group repeats are skipped only if
the confirmed offset covers them, which is why the invariant speaks of all
records from `Start`. `NothingIsSkipped`, and the action property
`NothingIsSentLate` with the additional fact that a halted loop is at its held
entry or has stopped. That no output is stale (`NoStaleOutput`) needs to know why
an answered record cannot come again: `AnsweredInv` says that no record that was
answered with success lies beyond the offset the node believes committed, so that
`uncommittedRecords()` passes over it whatever the group repeats. `OutputIsFresh`.

**Bounded operations** (`JobPoolProofs`). `Bounded` counts jobs at work, the code
counts `active`; `PoolInv` says that the slots are exactly those of the jobs
between their first turn and their `finally`, that the queue holds each waiting
job once, that somebody waits only while every slot is in use, and that a closed
node has an empty queue, no live client and no unanswered input. A client that is
still alive behind the answer belongs to a job on its way from `send()` to its
`finally` (`ClientsAreOwned`), where it is until it is gone (`LeavesUntilDisposed`). That a queue
stays without repetition and `drain()` fills exactly the free slots are lemmas
about sequences and cardinalities. `LimitsHold`, `SlotsAreUsed`,
`CloseIsComplete`, `ClientsHaveOwners`, their conjunctions `SlotsAreSharedAlways`
and `ClientsNeverOutlive`, and the action property `AnswersAreFinal`.

**The poll queue** (`OciConfigProofs`). `SlotsAreConserved` compares a counter with
where the polls stand, and a queue with who waits. `PollInv` adds what keeps them
together: nobody waits once the configuration is closed, the queue has no
repetition, an aborted poll has its outcome already or is over, and an outcome of a
race is true of the response it was decided by (`ReplyInv`). An abort may take a
poll out of the middle of the queue; `Unqueued` puts each remaining poll at the
place of its rank, and the lemmas `Ranks` and those behind it show that this is the
queue without the aborted ones, in order. `PollInvariance`, `SlotsConserved`, and
the action property `TrueRepliesOnly`.

**The broker and the table** (`OciConfigProofs`). `BrokerFollowsTable` is about the
last packet under way for a topic, or what the broker has if there is none. `IotInv`
says this of every topic (`Fits`), of topics without a subscriber also while the
connection is down, since connecting again does not unsubscribe them and may even
subscribe to those in `stale`; that the table is finite; and that nothing is under way without a connection. Each packet
sent changes `Granted` of its topic only, and one that arrives changes none.
`IotInvariance`, `BrokerKeepsUp`.

**Request nodes** (`RequestProofs`). `NothingOutlivesClose` needs that a
producer in creation is either waited for by the close or younger than it
(`ProducerInv`), and `SharedIsUsable` that whoever waits for something shared
waits for a creation that is under way (`AwaitInv`). The latter rests on the form
of the paths: only their first await is for something shared, so an input that
has gone on never joins the waiters of another value. `HandlersAreFine` shows
this of each of the 28 handlers. `RequestInvariant`, `LateIsShut`,
`ForgottenIsMadeAgain`. `ClosedIsQuiet` rests on the
checks between the awaits: `WaryInv` says of the rest of every input's path that
behind each await the node is looked at, or its manager refuses, unless only the
body of an answer is read next. `CarefulHandlersHeed` shows that the handlers of `Careful` have such paths,
and a path only becomes shorter (`PathsMove`). `ClosedStaysQuiet`.

**What is computed from data** (`RequestProofs`). TLC enumerates small inputs; the
theorems are for all of them.
`WholeCollections`: what has been read is the first items of the collection up to
the offset that is asked for next (`PagesInv`), whatever the server repeats, and a
server that ignores the offset and whose first page is not all always says that it
has more, so its collection is never returned.
`TrueAcknowledgements`: while a request is under way the message says nothing, and
what it says is true of the receipts that are gone (`AckInv`); an answer with fewer entries than receipts, or a count
that differs from its entries, says nothing. `MatchingFollowsMqtt`: for patterns
and topics of any length (`LoopIsMqtt`). `MeaningfulRequests`: all resources of the
tables begin with a fixed name and know their item's identifier
(`ResourcesAreAddressable`), so that a path is filled only with values that are
neither absent nor blank nor a dot segment (`ResourceRequestNames`); a lookup keeps
its own fields apart from the user's (`LookupRequestNarrows`); identifiers that
differ pairwise are as many as the parts (`CountOfIds`).

Each safety property was first checked by TLC, in the run that names it. Every
invariant and every action property of the passing runs is now also a theorem.

Changes that the proofs asked of the models, each equivalent to what it replaces or
closer to the code: `Verdict` of `RequestNodes` was a CASE with overlapping
alternatives, of which TLC took the first and the logic any; it is a nested IF, as
the order of the code's conditions demands. `Unqueued` of `OrdsPoll` and the loop of
`TopicMatching` were recursive and are now defined by ranks and by quantifiers.
Names of `AqListener`, `IotSubscriptions` and `DataRules` carry their component's
name where two components share a proof module.

## 6. A disagreement

`docs/node-reference.md:158` says of a managed dequeue that finds its queue
empty: "Commits earlier work and closes the transaction without output". The
code (`db-nodes/nodes/dequeue.js:142`) calls `finish(transaction, "commit")`,
which shares the completion of whoever called finish() first. If that was the
begin node's timeout, its close, or an end-transaction with Action Rollback, the
completion is a successful rollback, and the dequeue node reports success
although earlier work was rolled back. `finalize()` looks at the outcome in the
same situation; the dequeue node does not. Run `db_txn_empty` shows it: a
timeout fires while the dequeue is executing.

## 7. What is not proved, what is not modelled

Only model-checked:

- the liveness properties, which are out of the prover's reach: `EverythingSettles`
  (`db_txn`), `ComesToRest` (`smo_composite`), `ListenerEnds` (`aq_listen`),
  `EachIsConfirmed` (`streaming_in`, `kafka_commit`), `EveryInputIsAnswered`
  (`job_pool`, `requests`), `EveryInputEnds` (`ords_poll`), `EverythingEnds`
  (`iot_subs`, `db_connection`);
- the disagreement of section 6, which is a counterexample.

The theorems say nothing of the environment beyond section 7's assumptions, and
`RequestsAreSound` is about the tables of resources, lookups and modes as they are
in the code: another row would need its facts shown again.

Not modelled, and why:

- *oci-queue-in*: one timer, one poll at a time, a wait after a failure; it is
  the pattern of the other polling nodes without what makes them hard, since it
  keeps nothing between polls and the queue gives back what is not acknowledged.
- *oci-streaming-in, automatic commits*: the group moves with the next read, and
  the node keeps nothing but its cursor.
- *smo-transformer, direct mode*: without a composite key an input is validated
  and sent at once.
- *access tokens, authentication options and driver mode of db-connection*: for
  the models a connection is given, refused, or fails.
- *bind placeholders and result values of sql; conversions and field metadata of
  the Fusion nodes; building of OCI requests*: conversions of single values. They
  are a choice between "built" and "refused" in the models.
- *errors, redaction, diagnostics, proxy set-up*: texts and network set-up.
- *the editor's HTML pages*.

Assumed of the environment: Oracle rolls back a session that is closed and gives
back its locks; an OCI group moves by commits only, or expires; a Kafka broker
refuses the commit of a consumer that lost the partition, also when the request
was sent before and was delayed beyond the rebalance; an MQTT broker takes
packets in the order of the connection and grants what it is asked for, and mqtt.js
may resubscribe by itself to what it was not told to unsubscribe, and to nothing
else; a Fusion
service returns full pages except for the last.

## 8. Plan

Done, in order of importance: managed transactions (model, abstract
specification, refinement), composite assembly on top of them, continuous dequeue,
manual commits of Streaming and of Kafka, the bounded operations, the polls of
ords-config, the shared MQTT connection, the 28 request nodes over what they share,
the connections of db-connection, and the rules that compute requests, pages,
acknowledgements and matches; the safety properties of all of them are proved.

What would come next:

1. An abstract specification of a bounded pool, which `JobPool` and `OrdsPoll`
   both implement, with the two refinements proved.
2. The loop of oci-queue-in with the visibility of messages, composed with
   `QueueAck`; automatic commits in `StreamingIn`.
3. The scan for bind placeholders and the field mappings as functions checked
   over bounded inputs.

## 9. Conventions

Definitions keep the names of the source where TLA+ allows. `FairSpec` is
`Spec` with fairness. Bounds on unbounded counters are constants named `Max...`
and are marked "bound" where they are declared. A module with proofs extends the
component it is about and reaches no recursive operator.

    tlc -workers 2 -config db_txn.cfg MCDbTransaction
    tlc -workers 2 -config data_rules.cfg DataRules
    tlapm DbTransactionProofs.tla

The proof modules check on their own in one to a few minutes each.
