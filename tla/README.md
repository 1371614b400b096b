# Verification of market_data_broker

TLA+ models of the market-data hub in `src/market_data_broker`, the TLC
configurations that check them, and TLAPS proofs about the core of it.

The hub is one Python process on one asyncio event loop. It connects to the
Coinbase WebSocket feed only for topics that somebody wants, fans the messages
out to WebSocket clients and MCP tool calls over an in-memory bus, and keeps the
latest state of each product in a cache. There are no threads and nothing is
persisted: what makes it hard is *where a coroutine is suspended* when something
else happens (a demand change during a send, a stop during a handshake, a
cancellation during a join), and *what was read before a suspension and is used
after it*.

The modelling convention follows from that: **a step is what a task does from
one suspension point to the next.** A coroutine that never suspends (every
registry operation with the callbacks of `_build_core`, every bus operation
except `get` on an empty queue) is one step. Each `await` that can suspend
(a send, a close handshake, a sleep, a join) separates two steps, and everything
the other tasks can do may happen in between.

Paths below are relative to `src/market_data_broker` unless they start with
`docs/` or `tests/`.

## 1. Inventory

| Component | State | Operations | Talks to |
|---|---|---|---|
| **Registry** `registry.py` | `_consumers`, `_refcount` (topic -> holders), upstream records | register, unregister, add and remove a topic; upstream `mark_*`; `status` | bus (a subscription per consumer); fires first/last-subscriber callbacks |
| **Bus** `bus.py` | `_by_topic` index; per subscription a bounded queue, topics, `dropped_messages`, `_closed` | subscribe, unsubscribe, add/remove topic, publish (drop-oldest), `get`/`async for` | everybody who reads or publishes |
| **Coinbase ingest** `ingest/coinbase.py` | `_desired`, `_active_upstream`, `_reconcile_event`, `_stopping`, `_ws`, backoff, `_last_msg_at`; four tasks | demand callbacks, `start`, `stop`; run loop, receive, reconcile and watchdog loops | registry (callbacks in, upstream record out), bus (publish), the exchange |
| **Snapshot store** `snapshot.py` | one subscription, a drain task, the cache | `start`, `stop`, `track`, `untrack`, drain, `get` | bus; called from the registry's callbacks |
| **WebSocket server** `server/ws.py` | per connection: handler, receive task, forward task, a consumer | accept, subscribe/unsubscribe frames, forwarding, backpressure close, `stop` | registry, bus |
| **MCP server** `server/mcp_server.py` | per `stream_topic` call: a consumer, what was collected, a deadline | `stream_topic`; read-only tools | registry, bus, snapshot store |
| **Status server** `server/status.py` | per connection: handler, bytes counted so far | `start`, `stop`; read one request, write one answer, close | reads the registry |
| **Hub wiring** `__main__.py` | the order of start and stop | `_build_core`, `run_hub`, `run_mcp`, the debug consumer | all of the above |
| **Models, topics** `models.py`, `topics.py` | none | frame parsing, topic formation | ingest, servers |
| **Configuration, logging** | none after start | load and validate | hub wiring |

What makes each of them correct, and the name of the property that says so:

* **Registry.** The ref-count table is the inverse of the consumers' topic sets
  (`RefcountExact`), and the callbacks fired so far owe the ingest exactly the
  topics somebody holds (`CallbacksBalanced`). A miscount leaks an upstream
  subscription for ever, or starves a consumer.
* **Bus.** It behaves as the abstract publish/subscribe promise of `PubSub`
  (`KeepsPromise`): routing by interest, order of publication, loss of the oldest
  message only when full, every loss counted, no effect of one subscription on
  another. The index has no stale and no empty entry (`IndexExact`). A reader that
  is not suspended when its subscription is closed drains it and stops
  (`ClosedReaderDrains`).
* **Ingest.** No change of demand goes unnoticed, however it falls between the
  steps of a reconcile pass (`NoLostWakeup`). Of what it believes subscribed,
  the exchange will send what it trades (`BeliefMatchesExchange`). `stop()` is final
  (`QuietAfterStop`) and returns (`StopTerminates`). The registry says "connected"
  only of a session (`ConnectedMeansSession`). Settled demand reaches the exchange
  and the status document (`DemandConverges`). A wanted, silent feed is dropped
  (`SilentFeedDropped`).
* **Hub.** Registry, ingest and snapshot store agree on the demand at every moment
  (`OneDemand`); consumers are never served by a core that is down
  (`ConsumersServed`); shutdown completes (`ShutdownCompletes`), in both modes, and an
  orderly one leaves nothing of the hub (`CleanShutdown`); a hub that cannot bind a
  port ends too (`FailedStartExits`), with nothing left but the clients that connected
  too late to be cancelled (`CleanShutdown` again). End to end, whenever the reconcile
  loop rests, what is held in scope has been asked for and reported, and the exchange
  will send what it trades of it (`UpstreamServesHeld`); settled demand gets there
  (`HeldTopicsFlow`).
* **WebSocket server.** However a connection ends, its consumer and its topics go
  with it (`NoLeaks`); an acknowledgement never says what is not so
  (`AckTruthful`); a consumer past the drop cap is disconnected
  (`OverflowEndsSession`); `stop()` returns (`StopCompletes`).
* **Status server.** However a request goes wrong, a client gets one answer
  (`OneAnswer`); no request longer than the header cap is routed
  (`ServedWithinCap`); reading a request ends (`RequestsEnd`); `stop()` leaves no
  connection without its answer (`StopDrains`) and returns (`StopCompletes`).
* **MCP `stream_topic` and the snapshot store.** A call's sample is faithful
  (`StreamComplete`), a call leaves nothing behind and the store tracks exactly
  the topics held (`CallsLeaveNothing`), and the store is never behind what a
  caller has seen (`SnapshotNotBehind`, `StreamWarmsCache`).

## 2. Modules

| Module | Models | Uses |
|---|---|---|
| `Registry` | `registry.py`, consumers and ref-counts | |
| `RegistryProofs` | theorems about `Registry` | `Registry`, TLAPS |
| `PubSub` | what the bus promises (abstract) | |
| `Bus` | `bus.py` | `PubSub` as a refinement |
| `Ingest` | `ingest/coinbase.py` with the connection and the exchange as environment | |
| `BusProofs` | theorems about `Bus`, the refinement of `PubSub` among them | `Bus`, TLAPS |
| `IngestHistory` | `Ingest` with a history variable, for two statements of the docs and comments | `Ingest` |
| `IngestProofs` | theorems about `Ingest` | `Ingest`, TLAPS |
| `Hub` | `__main__.py`: `run_hub` and `run_mcp`, composing registry, ingest and the snapshot store's lifecycle | `Registry`, `Ingest` |
| `HubProofs` | theorems about `Hub` | `Hub`, `RegistryProofs`, `IngestProofs`, TLAPS |
| `Status` | `server/status.py` | |
| `StatusProofs` | theorems about `Status` | `Status`, TLAPS |
| `WSServer` | `server/ws.py` with the registry | `Registry` |
| `WSServerProofs` | theorems about `WSServer` | `WSServer`, `RegistryProofs`, TLAPS |
| `Streams` | `stream_topic` and the snapshot store's drain loop | `Registry`, `PubSub` |
| `StreamsProofs` | theorems about `Streams` | `Streams`, `RegistryProofs`, TLAPS |
| `MCIngest`, `MCIngestHistory`, `MCHub`, `MCStreams` | values for TLC | |

### How state and actions correspond to the code

**Registry.** `consumers`, `topics` and `refcount` are `_consumers`, each entry's
subscription's topics and `_refcount`; `IncrementRefcount`/`FirstHeld` and
`DecrementRefcount`/`LastHeld` are the two results (new table, returned flag) of
`_increment_refcount` and `_decrement_refcount` for all the topics of one call.
`balance` is history: first-callbacks minus last-callbacks.

**Bus.** `byTopic` is `_by_topic`, with empty holder sets pruned as the code does.
`reader[s]` is where the one coroutine that reads `s` is: able to run (`idle`),
suspended in `get()` (`parked`), or finished. `unsubscribe` does not wake a parked
reader; every owner in this code cancels its reader (`CancelReader`), and a reader
that is cancelled nowhere would wait for ever. That is why `ClosedReaderDrains`
speaks of readers that are not suspended. The refinement maps `interest` to the
topics of *open* subscriptions and `inbox` to the queues.

**Ingest.** `runner` is where `_run`/`_handle_session` is suspended: `spawned`
(created, not run), `connecting` (`__aenter__`), `session` (`asyncio.wait` over the
three tasks), `joining` (awaiting the cancelled tasks), `closing` (`__aexit__`),
`backoff` (the sleep), `done`. `cancel` is a cancellation requested by `stop()` and
not yet delivered, or raised and on its way out; one that lands in the join is
swallowed by `suppress(CancelledError)` together with the children's, and the model
does that. `stopper` is where `stop()` is suspended. `reconcile`, `sending` and
`todo` split a reconcile pass at each `await ws.send`: `todo` is what is left of
`to_add` and `to_remove`, both computed before the first send. The transport
accepts `WireCap` frames before a send suspends for longer. `ConnLost` may happen
at any moment, takes the exchange's subscriptions and what is on the wire with it,
and makes the next send raise. A received frame is one of seven kinds; the one the
loop does not catch is a frame with valid fields and a malformed `product_id`.
`_parse_coinbase_topic` accepts any topic of the right form (`InScope`), also of a
symbol that Coinbase does not trade; such a topic is forwarded, believed, reported as
subscribed, and silently ignored by the exchange (`docs/failure_modes.md:11-20`,
`docs/topics.md:203-207`). `Traded` is the set of those the exchange knows:
`ServerApplies` takes from a frame what is in it, and ignores the rest without a word.
Every statement about what the exchange *sends* is therefore about `Traded`, and every
one about what it is *told* about all topics in scope. A frame that the exchange
refused as a whole, with an error frame, is not modelled: the code logs the error and
goes on believing, and neither the docs nor the code say when it happens.

**Hub.** `mode` is the command, `phase` where `run_hub` or `run_mcp` is suspended:
`boot`, the two servers' `start` (`bind_ws`, `bind_status`), `serving`, then the
joins of the shutdown in their order: `debug`, `status`, `ws` in hub mode, `transport`
(the cancelled mcp task) in mcp mode, and `ingest`, `snapshot`, `stopped`. A port that
cannot be bound makes `run_hub` raise before its `try`, so that nothing is stopped
(`failed`); what is left in either case is `asyncio.run`'s: it cancels every task there
is, once, and runs the event loop until those are over (`DrainCancelled`, `Exit`).
`listening` is whether the WebSocket server's listener is open: from its `start` to its
`stop`, which a failed start of the status server never calls. A client that connects
while `asyncio.run` waits gets a handler that is neither cancelled nor awaited; such
latecomers, and calls that the mcp library begins after `run_mcp` has returned, are in
`late`, and `Exit` waits for the other consumers only. `debug` is the debug consumer's
task, which is cancelled before it has run (`spawned`) or while it reads (`on`).
Consumers stand for WebSocket clients and the debug consumer, or for tool calls; they
reach the core through the registry alone. One registry operation is a single step of
all three components because none of the callbacks suspends. Whether a tool call is
over when the mcp library's task ends is not for this code to say, so that a call may
begin or go on while the core is being stopped; `ConsumersServed` says nothing of it
from there on.

**Status.** `handler[c]` is where `_handler` is suspended: reading the request `line` or
the `headers`, `draining` (`writer.drain`, which suspends only under a `/status` body
that the client does not take), `closing` (`wait_closed`), or `over`. A line is its
length, an answer its status code, and `total` the bytes the cap is compared with.
`BadRequest` is every way of reading that ends in the 400 (timeout, a client that ends
its side, a malformed request line), `OverlongLine` the error that only `_handler`'s
`except Exception` catches, `LostHandlerEnds` a reset connection, on which whatever is
awaited raises. After a `drain` that raised, the catch-all writes a 500 to the same lost
transport: it reaches nobody, and the model does not tell it from no answer, so that
`OneAnswer` counts what is written to a connection that is still there. `StopReturns`
waits for the connections, as `Server.wait_closed` does since Python 3.12, the version
of the project's image. `pyproject.toml` also allows 3.11, whose `wait_closed` returns
at once: that is the operator `StopReturnsAtOnce`, and with it `StopDrains` does not
hold.

**WSServer.** `handler`, `recv` and `fwd` are where a connection's three coroutines
are; every send is a suspension point. Frames are applied topic by topic without a
suspension and acknowledged in a second step; error frames for invalid topics are
sent before the valid ones are applied. Messages are counted in `queued` and
`dropped`. `link` is the connection, `reading` whether the client takes data: a
client that does not read suspends the sends to it until the websockets keepalive
(pings are on by default) gives the connection up.

**Streams.** A call is a consumer with one topic. `got` holds positions in the
history `log`, so order and completeness can be stated. `cache[p]` is the newest
message applied to the product's snapshot, which is what `last_update_at` tells a
caller. The store's queue is taken never to be full (`StoreKeepsUp`): it holds 4096
messages and the receive loop suspends long before it has published that many in a
row. That is an argument about the scheduler, not something the code enforces.

## 3. Runs

| Run | Module, configuration | Shows |
|---|---|---|
| `registry` | `Registry.cfg` | ref-counts and callbacks over all histories of three consumers and three topics |
| `bus` | `Bus.cfg` | the bus implements `PubSub`; the index is exact; closed readers drain |
| `ingest` | `Ingest.cfg` | the safety of the ingest |
| `ingest_live` | `IngestLive.cfg` | its liveness, on fewer topics |
| `hub` | `Hub.cfg` | both commands: agreement, order of shutdown, a failed start with its latecomers, end-to-end flow beside a topic the exchange ignores |
| `status` | `Status.cfg` | two requests and a stop: one answer each, the cap, the end of both |
| `ws` | `WSServer.cfg` | two connections that share a topic: no leaks, truthful acknowledgements |
| `ws_live` | `WSLive.cfg` | backpressure and `stop()` end |
| `streams` | `Streams.cfg` | two calls beside the snapshot store |
| `ingest_stale`, `ingest_badframe`, `ws_slow` | | statements of the docs and comments that the code does not satisfy (section 6) |

### Bounds, and why they are enough

* **Registry**: three consumers, three topics. The state is a relation between
  consumers and topics; shared, exclusive and unheld topics occur at once. The
  theorems lift the bound.
* **Bus**: two subscriptions, two topics, queues of two, `MaxPublish` = 3: a queue
  fills and overflows once, while a peer is open, closed, or on another topic. The
  operations treat subscriptions independently, so a third adds no new interaction.
* **Ingest**: three topics in two channels (a pass sends up to three frames), two of
  them traded, one topic out of scope, `WireCap` = 1, so that a send completes at once
  or waits; `HeartbeatTimeout` = 1 tick; backoff 1 to 2, so that it doubles and is cut
  off; `MaxStarts` = 2, so that a stopped ingest is started again; `MaxReconnects` = 1
  saturates the counter. The safety properties are proved for all values. The liveness
  run has two topics in two channels, one of them traded, one start and `WireCap` = 0
  (every send suspends), which keeps the state graph small and the two-send pass.
* **Hub**: one client beside the debug consumer, or two tool calls; three topics: one
  traded, one in scope that the exchange ignores, one out of scope, which the ingest
  ignores and the store does not. The debug consumer holds the first and the last, so
  that both change hands. `WireCap` = 0, as in the ingest's liveness run, one start, and
  reconnects are not counted (`MaxReconnects` = 0): the ingest's own run counts them.
* **Status**: two connections (the handlers share nothing but `stop()`), lines of 3
  and 8 bytes under a cap of 8 and the blank line's 2: a request line at the cap, a
  request within it, one that passes it with a header and one with the blank line.
* **WSServer**: two connections, one topic, `MaxQueue` = 1 and `MaxDropped` = 0 for
  safety; one connection, two topics, `MaxQueue` = 2 and `MaxDropped` = 1 for
  liveness, which makes the cap take two drops. `dropped` is counted up to
  `MaxDropped + 1`: the code only compares it with the cap.
* **Streams**: two calls, two topics of one product, `Capacity` = `HardMax` = 2,
  `MaxPublish` = 4: a call collects a message and then loses one, the cap and the
  deadline both occur, and the store sees both topics of a product.

Deadlock checking is off where the system may stop: the bus when the publications
are used up, the hub and the WebSocket server when they are shut down, the calls
when all are over; the status server too. The registry's and the ingest's runs have it on.

### Fairness

* The event loop runs every task that is not suspended: weak fairness of each
  task's steps (`RunnerStep`, `ReconcileStep`, `WatchdogStep`, `StopStep`,
  `ReaderStep`, `HandlerStep`, `ForwardStep`, `MainStep`, `Drain`).
* Connection attempts and close handshakes end, successfully or not: the websockets
  library has open and close timeouts (10 s by default), which neither the ingest's
  connector nor the server overrides. They are therefore part of `RunnerStep`,
  `WatchdogStep` and `StopStep`.
* Time passes (`Tick`), and the exchange reads what it is sent (`ServerApplies`) and
  honours what it trades of it. Nothing obliges it to send data or to stay connected,
  and nothing obliges the demand to settle: the liveness properties of the ingest and
  the hub say "unless that goes on for ever".
* A send to a WebSocket client ends only while the client reads or once the
  connection is closed; the keepalive ends the connection of a client that does
  not read; `Server.close()` closes the connections.
* `RecvEnds` is strongly fair: frames buffered before a connection closed are
  still handled, but there are finitely many of them.
* The handlers of consumers end once they are told to, by `ws_server.stop()` or by
  `asyncio.run` (`Leaving`; nobody tells the latecomers): in `Hub` an assumption,
  in `WSServer` the checked property `StopCompletes`; that of `Status` is the return
  of the status server's `stop()`, provided its clients read or go away.
* The status server's wait for a line ends, since `wait_for` bounds it (`ReadStep`);
  what it writes goes out while the client reads (`WriteStep`). Nothing makes a
  client read: `StopCompletes` of `Status` says "unless it never reads again".
* Nothing is assumed of the mcp library: `TransportJoined` is not fair, and
  `ShutdownCompletes` speaks of mcp mode from the moment the main task has it back.

## 4. Proofs

`tlapm` checks these for every value of the constants that the named assumptions
allow. Every safety invariant of the passing runs is proved, and so is the one
refinement (`KeepsPromise`). Each theorem `Spec => []Inv` follows the same way: an
inductive invariant `IInv`, implied by the initial states and kept by every step,
one lemma per part of it. The strengthenings were checked by TLC on the instance of
the component's run before they were proved.

**`RegistryProofs`** needs no assumption. The invariant is `TypeOK`, `RefcountExact`
and `CallbacksBalanced` together, which is inductive because the callbacks are
decided by looking at the table: `CallbacksBalanced` alone says nothing of the table
from which the next first or last is computed. Two lemmas, one for a consumer that
gains a set of topics and one for a consumer that loses one, carry the four
operations. Theorems: `RegistryTypeOK`, `RegistryRefcountExact`,
`RegistryCallbacksBalanced`.

**`IngestProofs`** assumes `IngestAssumption` (topics in scope are topics, timeouts
and capacities are natural numbers, the backoffs are positive and in order). The
checked invariants are not inductive by themselves. `SessionInv` is what a session
rests on, whoever ends it: `TypeOK`, `NoLostWakeup`, `BeliefMatchesExchange`, that a
resting loop has reported what it believes (`ReportMatchesBelief`), and

* `TasksMatchRunner`: which of the session's tasks exist in each phase of the run
  loop, that a plan exists only while something is being sent, and that a pass never
  adds and removes the same topic; needed for `NoLostWakeup`, whose `Planned` set
  would otherwise depend on the order of the sends;
* `CancelMatchesRunner`: where a cancellation can be.

It is inductive by itself (`SessionStep`), which is what `HubProofs` uses. `IInv` adds
`QuietAfterStop`, `ConnectedMeansSession` and

* `StopMatchesRunner`: where the run loop can be while `stop()` is suspended, and that
  nothing else cancels it; needed for `QuietAfterStop`, since a cancellation that were
  still pending when `stop()` returns would hit the next run.

There is one lemma per conjunct with one step per action; `ContinueEffect`,
`WakeEffect` and `SendEffect` say once what a reconcile step does, `WireAppend` and
`WireTail` how writing and reading a frame move `WillServe`. Theorems:
`IngestTypeOK`, `IngestNoLostWakeup`, `IngestBeliefMatchesExchange`,
`IngestQuietAfterStop`, `IngestConnectedMeansSession`.

**`BusProofs`** assumes `BusAssumption` (queues hold at least one message). `IndexExact`
is inductive given the types; `TypeOK` needs beside it that no more messages were lost than
published (`LossesPublished`). For the refinement, `HoldersAreInterested` turns the
index into the abstract interest: a publish that walks the index reaches exactly the
open subscriptions that want the topic, which is where an index entry too many or too
few would show. `InterestStep` maps what changes the topics, `PublishStep` the publish
with its drop-oldest, and `BusSimulates` puts the actions together. Theorems:
`BusTypeOK`, `BusIndexExact`, `BusKeepsPromise`.

**`HubProofs`** assumes `HubAssumption` (the debug consumer is a consumer, its topics
are topics) and `HubIngestAssumption`, which is `IngestAssumption` again. Its invariant
has five parts:

* the registry's, used through `INSTANCE RegistryProofs`;
* `OneDemand`. It needs the registry's, because the callbacks are told `FirstHeld` and
  `LastHeld`, which are the change of the topics held only if the ref-count table is
  exact (`FirstHeldIsGain`, `LastHeldIsLoss`), and `Lifecycle`, because the store is
  started with no topics;
* `Lifecycle`: in which phases the core is up with nothing having cancelled its run
  loop, in which the listener is open, and in which nobody, or only a latecomer, can be
  registered. `IngestLeavesDemand` carries it: no step
  of the ingest ends a run loop that was neither stopped nor cancelled;
* `Shape`: `TypeOK`, the store's life phase by phase (`SnapshotLife`), and the run
  loop, its tasks and its cancellation (`RunLoop`), from which `CleanShutdown` follows.
  `RunLoop` is weaker than the ingest's own invariant: after a failed start it is not
  `stop()` that cancels the loop;
* the ingest's `SessionInv`. Every step but a failed start is a step of `Ingest`
  (`HubStepsIngest`), for which `IngestProofs` has the lemma, and a failed start only
  cancels.

`UpstreamServesHeld` puts three of them together: the demand is what is held, the plan
of a resting loop is the demand, and what the loop believes is what it reports and, as
far as it is traded, what the exchange will send. `CleanShutdown` of a process that
ended after a failed start says whose the ref-counts and the demand are that are left:
this takes `RefcountExact` and `OneDemand` beside `Lifecycle`. `HubImplementsIngest` is
stated under `[][~BindFails]_hubVars`: a failed start cancels the run loop from outside,
which no step of `Ingest` does. Theorems: `HubImplementsRegistry`,
`HubImplementsIngest`, `HubOneDemand`, `HubConsumersServed`, `HubTypeOK`,
`HubCleanShutdown`, `HubUpstreamServesHeld`.

**`WSServerProofs`** assumes `WSAssumption` (queues hold at least one message). The
invariant is `TypeOK`, `AckTruthful`, the registry's invariant, and that the consumers
are the connections whose handler has registered and not yet released (`Alive`), on
which `NoLeaks` rests. A frame changes several topics in one step, which is no single
operation of the registry: `ApplyKeepsRegistry` goes back to the two registry lemmas
about a consumer that gains or loses a set of topics. `AckTruthful` needs that only a
connection's own receive task changes its topics while an acknowledgement is on its
way (`ApplyTruth`, `AckStep`). Theorems: `WSTypeOK`, `WSNoLeaks`, `WSAckTruthful`.

**`StreamsProofs`** assumes `StreamsAssumption` (capacities are positive, every topic
has a product, and `"store"`, the name of the snapshot store's subscription, is not a
call's). The invariant says, beside the registry's,

* `Demand`: the consumers are the running calls, and the store tracks what they want;
* `Shapes`, `Bounds`: types, and what has been read or buffered was published;
* `Queues`: a queue holds messages of the log in its order, and what the store has yet
  to read is newer than all it has applied;
* `Samples`: what a call collected, followed by its queue, are messages of its topic
  since it registered, in order and none twice, and as many as were sent but for those
  counted as dropped: needed for `StreamComplete`, which speaks of what was collected
  only and is not kept by a collect without the queue's part of it;
* `Warm`: what a call has, collected or only buffered, the store has buffered or
  applied, or has superseded by something newer: needed for `SnapshotNotBehind`, since
  a topic is untracked while the store has messages of it still to read.

`PublishEffect`, `ReadEffect`, `CollectEffect` and `DrainEffect` say what a step does to
a queue (it grows, slides when full, or loses its head); one lemma per part and kind
of step follows. Cardinalities are counted with `FiniteSetTheorems`: a publish adds one
message to those sent. Theorems: `StreamsInvariant`, `StreamsTypeOK`,
`StreamsStreamComplete`, `StreamsCallsLeaveNothing`, `StreamsSnapshotNotBehind`.

**`StatusProofs`** assumes `StatusAssumption` (the cap is a natural number, lines are
not empty). The invariant adds to `TypeOK` what a handler's place says of the answers
written and the request read (`Progress`), that a routed request is within the cap
while its answer goes out (`Routed`), and that nothing is open once `stop()` has
returned (`Drained`). Two lemmas, `AnswerKeeps` and `OverKeeps`, carry the ways to
answer and the ways to end. Theorems: `StatusTypeOK`, `StatusOneAnswer`,
`StatusServedWithinCap`, `StatusStopDrains`.

**Only model-checked**: the liveness properties, since TLAPS has neither ENABLED nor
liveness under fairness here: `ClosedReaderDrains`, `StopTerminates`, `DemandConverges`,
`SilentFeedDropped`, `ShutdownCompletes`, `FailedStartExits`, `HeldTopicsFlow`,
`RequestsEnd`, the two `StopCompletes`, `OverflowEndsSession` and `StreamWarmsCache`.
That the store's queue is never full (`StoreKeepsUp`) is an assumption of the model of
`Streams` and of what is proved about it. Facts that need induction over data or
RECURSIVE operators are out of reach of the provers; no module uses either.

## 5. Not modelled

* **Configuration, logging, argument parsing**: sequential, before anything runs.
* **The mcp library**: when its calls end after `runner.cancel()` is its own business.
* **TCP**: the status server's answers other than `/status` are taken to fit the
  socket's buffers; half-closed connections appear only as an end of input.
* **A second signal during the shutdown**: it sets an event that is already set.
  (Where the event loop has no signal handlers, SIGINT raises instead; not modelled.)
* **Message contents**: which fields a ticker, a trade or a book update sets in the
  cache, JSON, pydantic validation; counts and formatting of `status()`.
* **Registry callbacks that suspend** and **restarting the snapshot store**: neither
  occurs in the program. The installed callbacks do not suspend (one that did would
  make the operations interruptible between two topics, `registry.py:178`), and each
  entry point starts the store once (a second start would begin with no topics, and
  nobody replays `track` for those that are held).

* **An exchange that refuses a whole frame** (see Ingest above), and one that goes back
  on a subscription it has granted.

Remarks from reading the code that no run is about: `registry.py:189` says that
`bus.unsubscribe` clears the subscription's topic view, which it does not (taking the
copy first is harmless); and a first connection that succeeds after a failed attempt
is counted as a reconnect, because a failed attempt also marks the record as
reconnecting (`registry.py:94`, `ingest/coinbase.py:295`). `docs/failure_modes.md:64`
says a reconnecting upstream lists no topics; `mark_reconnecting` leaves those of the
last session in the record. A hub that cannot bind a port does not always end: the one
cancellation that `asyncio.run` sends the run loop is swallowed when it falls into the
join of a session that has just ended (`ingest/coinbase.py:319`), and the loop
reconnects; this is why `FailedStartExits` speaks of a cancellation still on its way.
A hub whose status port is taken keeps accepting WebSocket clients until its last
cancelled task is over, and then ends without closing them (`__main__.py:133` is before
the `try`). And while the only topics wanted are of symbols the exchange ignores, no
data comes, so that the watchdog drops the connection and reconnects every
`heartbeat_timeout` (`ingest/coinbase.py:445`): `SilentFeedDropped` is what the code
does there too, since it cannot tell such a topic from a dead feed.

## 6. Findings

| Run | Statement | What the code does |
|---|---|---|
| `ingest_stale` | `ingest/coinbase.py:442-443`: staleness is enforced only after "we've been actively expecting frames (i.e. desired is non-empty)"; `docs/failure_modes.md:98`: after about 15 seconds | `_last_msg_at` is not refreshed when demand appears, so an idle connection is closed at the first check after the first subscription |
| `ingest_badframe` | `ingest/coinbase.py:53`: one bad frame must not kill the session | `InvalidTopicError` of `topic_for` is not caught by the receive loop |
| `ws_slow` | `docs/failure_modes.md:133`: a slow consumer gets an error frame and close code 1013 | the drop count is looked at only between sends; a client that does not read suspends the send until the keepalive drops the connection |

## 7. Plan

Done, in this order: Registry and its proofs, Bus against `PubSub`, Ingest with its
runs and proofs, Hub, WSServer, Streams, Status, the hub's mcp mode, debug consumer
and failed start; then the proofs about Hub, Status, WSServer, Bus and Streams, up to
the end-to-end invariant `UpstreamServesHeld`.

Next:

1. The same composition for the consumers' side of the hub: a connection of `WSServer`
   and a call of `Streams` are consumers as `Hub` has them (their steps on the
   registry are `Hub`'s), so that what is proved of each holds of the whole.
2. The safety parts on which the liveness properties rest, where they are invariants:
   what is enabled in each phase of a shutdown.
3. In the model, the fields of a snapshot as far as their order matters (top of book
   against `last_update_at`).
