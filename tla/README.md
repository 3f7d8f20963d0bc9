# A TLA+ model of hb-remote-iface

`remote_iface` connects a trading application to an MQTT broker: it publishes
notifications, status updates, market events and log records, serves remote
commands, and delivers external events to listeners. This directory holds TLA+
modules that model its behaviour, TLC configurations that check them on small
instances, and proofs that TLAPS checks for instances of any size.

## 1. The system

| Part | State | Operations | Interacts with |
|---|---|---|---|
| `MQTTGateway` (`gateway/gateway.py`) | `_running`, `_health_task`, `_consecutive_failures`, `_node_context`, the components | `start`, `stop`, `restart`, the health loop | starts and stops components and the NodeContext; its health loop calls `restart` |
| `NodeContext` (`_commlib/node_context.py`) | `_started`, `_stopped`, `_connected`, `_run_task`, `_outgoing`, `_sub_callbacks`, `_command_table`, the event bus | `start`, `stop`, `_run`, the drain and dispatch tasks, `create_*` | the broker (aiomqtt), endpoints, worker threads through `call_soon_threadsafe` |
| Endpoints (`_commlib/wrappers`) | `_started`, an executor (RPC) | `start`, `stop`, `publish`, `_dispatch` | tables of the NodeContext |
| `MQTTCommands` (`gateway/commands.py`) | its eight services | handlers, `_call_async` | worker threads, the app and the app's event loop |
| `MQTTExternalEvents` (`gateway/external_events.py`) | a subscriber on `external/+` | `start`, `stop`, republish | the app, the event bus |
| External API (`external/`) | listeners, queues, the dispatch registry, publisher caches | create, remove, send | the current NodeContext of a gateway |
| Outbound components (`notifier.py`, `status.py`, `market_events.py`, `log_handler.py`) | a publisher, an undo function, flags | `start`, `stop`, callbacks | registries of the app adapter, Python loggers |
| Facade and adapter (`hb_compat/`) | pending start task, registries | `start`, `stop`, `patch_loggers`, `start_market_events_fw` | the core gateway, the host |
| Transport, serialization, protocols | none | conversions, types | everything |

Four kinds of concurrency meet here: host tasks, health loops and connection
loops on one asyncio event loop; the drain and dispatch tasks of a connection;
the RPC worker threads with the app's own event loop, which also publish
notifications and log records; and callbacks that create and remove listeners
while a message is in dispatch. Connections fail at any
time, and a restart replaces the NodeContext under everything that refers to it.

What makes each part correct:

* **Lifecycle.** After any sequence of calls the gateway is as the last call
  asked, with one connection loop and one health loop or none; calls return;
  the health flag does not lie; components are bound once, to the live context.
* **NodeContext.** Messages leave in order, at most once, at most one is lost
  per connection; a lasting connection drains the queue; `stop` ends the loop.
* **Commands.** A success is true (except of a status request with
  `async_backend`, which asks nothing of the app), nothing is done twice, a dropped request is never carried out; one
  command's hanging calls do not stop another command.
* **Delivery.** A message goes to one pattern that covers its topic, and to none
  wider than another that the code's ranking tells from it; the bus holds exactly
  the listeners that were created and not removed, and what creating one again
  leaves behind.
* **Outbound.** Nothing is registered twice and a stopped gateway leaves nothing
  registered, unless the app refuses to withdraw its notifier; threads publish
  while the gateway stops and restarts under them, and still no number is given twice, what one thread publishes arrives in order, and
  at most one message per thread comes after the stop.
* **Facade.** Its synchronous calls only schedule tasks: a `stop` waits for the
  start it was handed, and the gateway ends as the last call asked.

`PROJECT.json` lists the hazards at their lines, with the properties about them.

## 2. The modules

**`GatewayLifecycle`** (instances in `MCGatewayLifecycle`) models `gateway.py`
together with `NodeContext.start/stop/_run`, with the atomicity of asyncio: a
step runs one task from the await it is suspended in to its next one. The event
loop is the FIFO queue `ready`, each entry with the outcome the await delivers.
`Cancel` is `Task.cancel()` (it turns the outcome of a queued task into a
cancellation), `End` completes a task and queues the tasks that await it. `pc`
says where a task is suspended:

| `pc` | suspended in |
|---|---|
| `begin`, `yield`, `health`, `run` | the start of a call; `sleep(0)` of `NodeContext.start`; `await self._health_task`; `await self._run_task` |
| `sleep` | a health loop in `asyncio.sleep` |
| `connecting`, `up`, `closing`/`failing`, `unwinding`/`recovering`, `backoff` | `__aenter__`; `subscribe`/`wait`; `__aexit__` after a cancellation/an error; `gather` after a cancellation/an error; `sleep(5)` |

`BeginStart`, `BeginStop`, `ResumeStart`, `ResumeStopAfterHealth` and
`ResumeStopAfterRun` are the segments of `start`, `stop` and `restart`;
`CheckHealth` is one round of the health loop, including the restart it may
begin from its own task; `RunStep` and `RunCancelled` are the segments of
`_run`. A health loop that restarts the gateway awaits itself (`SelfAwaiting`):
the interpreter refuses that await and delivers the task's own cancellation,
which the code suppresses, so that it goes on as a second watchdog beside the one its
`start` creates; any *other* await of that task in the window raises
`RuntimeError` (`Raise`). This was confirmed by running the code. `is_healthy`
cannot raise, so the health loop's `except Exception` is dead and left out. The order in which several waiters of one task are woken is
left open (`Arrangements`). Identifiers of tasks and contexts are recycled when
nothing refers to them.

The facade of `hb_compat/mqtt_gateway.py` is part of this module. A caller with
`Ops[c] = {}` is an identifier for the tasks the facade creates: `FacadeStart`
schedules the gateway's `start` and remembers the task (`startTask`);
`FacadeStop` schedules a stop that is handed that task, and `AwaitStart` is the
await of `_stop_after` when the start is not over (`StartPending`). With
`Patient` the host makes one call after the other, except that it may stop the
facade at any time, also while a start is in progress; without it the facade's
calls come as fast as the host likes.

**`Outbox`** is what NodeContext promises a publisher: a queue whose head is
delivered or lost. **`NodeContext`** models the connection loop with its drain
task and its topics; `phase` is where `_run` is. `Box` maps the message in
flight and the queue to the outbox's queue. A topic in `Invalid` is one the client
refuses to subscribe with `ValueError` (`Refuse`); command topics are built from
the configured namespace and are valid.

**`RemoteCall`** is what the command service promises a client. Its `Probes` are
requests that ask for no operation: success means nothing there. **`Commands`**
models the lookup on the event loop (`Dispatch`, `Reject`), each service's
executor (`Take`; the workers of a stopped executor are told from those of its
successor by `born`), the handler (`CallApp` in the worker, `Submit`, `Resume`,
`GiveUp` through `_call_async`), the app's loop (`LoopBegins`, `LoopEnds`) and
the reply. `MQTTCommands.stop()` holds the event loop, so nothing is dispatched
and nothing started again while it runs (`Stopping`), but the worker threads go
on: `StopService` takes one service out of the table (`closing`), `CancelQueued`
cancels its queue item by item, as `shutdown(cancel_futures=True)` does, and
`ShutDown` finds the queue empty; a worker may take a request in between. An
error and a timeout are one answer. A request without a reply topic and a response
that does not serialize leave the request unheard (`Finish`). The eight handlers are
abstracted to what they share: they call the app directly or through
`_call_async`, and any exception becomes an error. The exception is
`Acknowledge`: a status request with `async_backend` is a probe, answered with
success without a call of the app (commands.py:237), although commands.py:3 says
that each handler calls its method. A client cannot take such a success for the
app's word; `RemoteCall` states it as what the service does.

**`TopicRouting`** holds `_topic_matches` and `_pattern_specificity` as
operators, and MQTT's own meaning of a topic filter as reference. `Delivery`'s
`RoutingAssumption` says that patterns are topic filters, topics are names, and
there are enough topics to tell patterns apart (`Typical`: one with a level of its
own wherever the pattern has a wildcard). **`Delivery`**
(instances in `MCDelivery`) models the subscription table, one message in
dispatch with the copy of its callbacks still to be called, the component, the
adapter's list of handlers and the app, the event bus and the external API.
`StartGateway(TRUE)` is the second half of a restart. Stopping has two steps:
`StopGateway` stops the component, and until `Disconnect` has cancelled the
dispatch task messages still reach the host's listeners. The adapter's list holds
registrations, so a handler the host registers twice is on it twice and is called
twice (`Registrations`). `create()` of an event listener that exists replaces its
entry and forgets the handler it had there (events.py:139), which then hears events
though events.py:147 says `remove()` unsubscribes the callback; `stray` is the set of
these, which only a restart empties, and `MaxHandlers` bounds a listener to one.

**`Forwarding`** models the outbound components' registrations with the app and
the loggers, and the host's calls, which may also fall between the two halves of
a restart. A registration may raise, and so may the withdrawal of the notifier, which
then stays registered (`StopNotifier`; `refused` counts these, up to `MaxRefused`). **`Publishing`** extends it with what the components publish. The
components are started and stopped synchronously on the event loop, together, so
one variable, `publisher`, stands for their publishers: the context they belong to,
or 0. A thread's call has three steps. `Make` finds a publisher and numbers the
notification, `Enter` passes the check of `_started` or drops the message,
`Enqueue` puts it on the queue. CPython (the package requires 3.12) switches threads
only at calls and backward jumps, so the test for `None` and the increment of
`_seq` are one step; an interpreter without that rule would need them apart. The
log handler is called under its lock, by one thread at a time. Every context has
its own queue; only the current one delivers (`Drain`, which may lose the message,
as `Outbox` says), so what is on a replaced context's queue stays there. `Construct`
and `Send` are `ETopicPublisher`/`EMTopicPublisher`, on the event loop; `Send`
fails on a context that was never started and for a dict JSON cannot express.
`held[Main] = None` in the gateway's actions says that the event loop's own call is
over before its next step. A stray connection loop, which `lifecycle_facade`
finds, is left out here: a replaced context has no connection.

## 3. The runs

| Run | Shows | Instance |
|---|---|---|
| `lifecycle_sequential` | one host that uses a coroutine and the facade, any sequence of calls, no health check (the integration tests set the interval to 9999 s): final states with the loops they leave, bindings, calls return | 1 coroutine, 3 facade tasks, 2 identifiers of each other kind, 2 components that may fail to start; 118 thousand states |
| `lifecycle_watchdog` | health loops that restart on their own: honest health flag, who may be cancelled, awaited loops end, calls return | threshold 2, 3 identifiers of each kind |
| `lifecycle_stays_down` | *violated*: the restart of a health loop undoes a `stop` | threshold 1 |
| `lifecycle_two_watchdogs` | *violated*: a health loop that restarts the gateway survives beside the one it starts | threshold 1 |
| `lifecycle_never_raises` | *violated*: `stop` raises in the self-await window | threshold 1 |
| `lifecycle_facade` | *violated*: two facade starts in a row leak a connection | 3 facade tasks |
| `node_context` | refinement of `Outbox`, order, bounded loss, draining, `stop` ends the loop, an invalid pattern ends every connection | 3 topics, one invalid, 4 messages; 23 thousand states |
| `node_late_subscriber` | *violated*: late registrations are not subscribed | 2 topics |
| `commands` | refinement of `RemoteCall`, no handler started once the `stop` of its service is over, isolation, workers return | 2 commands, one may hang, 1 worker each, 3 requests, one of them a probe, 2 starts; 230 thousand states |
| `delivery` | routing against MQTT, one pattern per message, each callback and handler called once, bus and registry agree | 4 topics, 4 overlapping patterns, 2 subscribers, 1 listener that may be created again, 2 registered handlers; 816 thousand states |
| `delivery_shadow` | *violated*: a removed listener's pattern swallows messages | 1 subscriber |
| `publishing` | the module `Publishing`: numbers given once, a thread's messages in order, at most one late; registrations single and withdrawn, whatever fails; market events forwarded once, and again after a stop; every patched logger found | notifier and log handler, the event loop and 1 worker, 1 publisher of the host, 2 contexts, 2 messages, 1 logger beside the root, 2 strategy-loaded callbacks, 2 refused withdrawals; 1.5 million states |

The runs marked *violated* state what a docstring of the repository says and
show the code doing otherwise; `findings` in `PROJECT.json` quotes the lines.

**Bounds and why they are enough.** In the lifecycle runs identifiers are
recycled, so the number of restarts is *not* bounded; what is bounded is how much
can be in progress at once. `Room` keeps new work (a call, a health tick) from
arriving while fewer free identifiers than busy tasks remain. With three of each
kind a health-loop restart overlaps a host's call, which is the interaction the
code is exposed to; a caller makes its next call either after yielding or at
once. `failures` needs no bound. `MaxSent = 4` allows a loss on each of two
connections with other messages between and after them. One worker per service and
three requests make requests queue behind a hanging handler. `MaxStarts = 2` is
one restart, and later ones repeat it. `AllTopics` holds the parent of the
wildcard, its children and a deeper level, one for each way matching can end, and
`AllPatterns` one pattern of each rank with two that tie (`external/#` and
`external/+/#`).
In `publishing` two contexts make a restart under a call in progress, after which
one message can be on the old context and another on the new one, or held: order,
numbering and lateness each take two messages to go wrong. `notify` and `log` are the two kinds of component: numbered and called
by any thread, and serialised by a lock; `status` and `events` publish as `notify`
does without the number. Two strategy-loaded callbacks and two refused withdrawals let
each pile up over two starts; the loggers are independent of each other. In `delivery`
one event is among the four topics, so a message may republish it or not.

**Deadlock** is checked everywhere except in `commands` (all requests are
answered) and the lifecycle violation runs. In `publishing` a state always allows
another `StartContext` or `StopPublishers`.

**Fairness.** The event loop keeps running tasks (`WF(Step)`); disconnecting is
bounded by aiomqtt's timeout and gathering cancelled tasks is local, so
`closing`, `failing`, `unwinding` and `recovering` end. Nothing makes the broker
accept a connection, an open connection fail or the host call. In `NodeContext`
the loop and the drain task are fair and connecting is not; `Drains` is therefore
conditional on a connection that lasts. In `Commands` worker threads and timeouts
are fair; the app's event loop is not, and calls of a command in `Hanging` may
never return.

## 4. The proofs

| Theorem | Module | Statement |
|---|---|---|
| `TypeCorrect`, `Honest`, `WatchSleeps` | `GatewayLifecycleProofs` | `Spec => []TypeOK`, `[]HealthIsHonest`, `[]TrackedLoopSleeps` |
| `AwaitedEnds` | `GatewayLifecycleProofs` | `Spec => []AwaitedRunEnds` |
| `RaisesNothing` | `GatewayLifecycleProofs` | `~HealthChecks => (Spec => []NeverRaises)` |
| `InOrder` | `SequentialProofs` | `Sequential => (Spec => []SeqInv)`, the inductive invariant of the next five |
| `StopsForGood`, `StartsForGood` | `SequentialProofs` | `Sequential => (Spec => []StopIsFinal)`, `[]StartHolds` |
| `OneClient` | `SequentialProofs` | `Sequential => (Spec => []OneConnection)` |
| `OneBinding`, `FreshBinding` | `SequentialProofs` | `Sequential => (Spec => []BoundOnce)`, `[]BoundToCurrent` |
| `OutboxOrdered` | `OutboxProofs` | `Spec => []Ordered`: the outbox never reorders or repeats |
| `ContextTypeCorrect`, `LosesAtMostOne` | `NodeContextProofs` | `Spec => []TypeOK`, `Spec => []AtMostOneLost` |
| `Poisons` | `NodeContextProofs` | `Spec => Poisoned` |
| `RefinesOutbox`, `KeepsOrder` | `NodeContextProofs` | `Spec => ImplementsOutbox`, and by `OutboxOrdered` `Spec => []InOrder` |
| `ForwardingTypeCorrect`, `StaysSilent` | `PublishingProofs` | `Spec => []TypeOK`, `Spec => []Silent` |
| `ForwardsOnce`, `FindsHandlers` | `PublishingProofs` | `Spec => []ForwardedOnce`, `Spec => []HandlersKnown` |
| `ImplementsForwarding`, `PublishingStaysSilent` | `PublishingProofs` | `PubSpec => Spec` of `Forwarding`, and so `PubSpec => []Silent` |
| `PublishingTypeCorrect`, `LateAtMostOnce`, `ThreadsInTurn` | `PublishingProofs` | `PubSpec => []PubTypeOK`, `[]AtMostOneLate`, `[]InTurn` |
| `NumbersOnce` | `PublishingProofs` | `PubSpec => []NumberedOnce` |
| `CallTruthful` | `RemoteCallProofs` | `Spec => []Truthful`: the abstract call tells the truth |
| `CommandsTypeCorrect`, `NoneRunAfterStop` | `CommandsProofs` | `Spec => []TypeOK`, `Spec => StopRunsNoMore` |
| `RefinesRemoteCall`, `TellsTheTruth` | `CommandsProofs` | `Spec => ImplementsRemoteCall`, and by `CallTruthful` `Spec => []Call!Truthful` |
| `DeliveryTypeCorrect`, `CallsOnce`, `RoutesOnce` | `DeliveryProofs` | `Spec => []TypeOK`, `[]CalledOnce`, `[]OnePattern` |
| `RoutesNarrowly` | `DeliveryProofs` | `Spec => []RoutesToNarrowest` |
| `BusAgrees` | `DeliveryProofs` | `Spec => []BusMatchesRegistry` |

They hold for every value of the constants under the modules' named assumptions:
finite, disjoint sets of identifiers and a positive threshold for the gateway,
commands among the topics for a context, a root logger apart from the named ones,
a `None` that is no call, no message and no pattern, and for `Delivery` that
subscribers, handlers and listeners are different things and `RoutingAssumption`.
`Sequential` and `~HealthChecks` are not assumptions but hypotheses, named in the
theorems that need them.

`TypeOK` of the gateway is inductive. It needs each task's `pc` to stay in the
kind of its task and every context a task works on to be known, because
`NodeContext` attributes are updated through `ncOf`. `HealthIsHonest` is
inductive relative to `TypeOK`, for a reason the proof spells out: no step of the
gateway, a health loop or a caller moves a connection loop that serves a connection
(`RunsKept`) or raises a flag (`NoNewClaim`); only a run task's own step does, and
it lowers the flag before it stops serving. There is one lemma for each piece of
code between two awaits, and the proof goes through the actions once.
`TrackedLoopSleeps` is inductive with `TypeOK`: `running` becomes `TRUE` only with a
fresh loop that sleeps, and whoever cancels the remembered loop without being it has
already cleared `running`. No other step gives a tracked loop something to wait for.

`AwaitedRunEnds` holds for hosts that overlap their calls in any way, and its
invariant is about the order of the event loop's queue. A cancelled connection loop
whose `__aexit__` fails lands in the finally clause with the cancellation gone, and
ends only because its context is flagged as stopped; a `start()` of the same context
clears that flag. It never does so under a `stop()` that still waits, because:

* `QueueSound`: a task is queued at most once, only while it is alive, and only when
  what it awaited is over. `AimsOK`: what it awaits is a loop, or a start of the facade.
* `WaitOK`: while the awaited loop lives, its context is started and flagged and
  remembers that loop, so `start()` only finishes there and creates no loop. When it
  is over, the waiting `stop()` is queued.
* `YieldOK`: a `start()` suspended at its `sleep(0)` is resumed right after the loop it
  created has run once (`Close`, `First`), unless the context has forgotten that loop.
  So nobody finds the loop over and the start still suspended.
* `LineOK`: on a context that is not started, a `stop()` whose loop is over is resumed
  before a `start()` that will mark the context as started (`Before`).

A step takes the head of the queue and appends, or puts the head back (`Grows`,
`RestKeeps`, `PutBack`); `Sane(p)` says that a step of `p` leaves the others where they
are and in order, and is proved once per piece of code; `KeptBy` says what a piece may
do to the contexts, and three lemmas (`WaiterKept`, `YielderKept`, `LineKept`) turn both
into the invariant.

The other properties of the lifecycle are not true of every host: the runs
marked *violated* show what a health loop's own restart and a host that overlaps
its calls do to them. `SequentialProofs` proves them under `Sequential ==
Patient /\ ~HealthChecks`, the hypothesis of the run `lifecycle_sequential`: one
call after the other, except that the facade may be stopped at any time, and
a health interval that is longer than the run. Even then several tasks are under
way: stops wait beside the start they were handed, and connection loops live and die
at every point. Nothing in the model says that one call is over before the next
begins to move the gateway; that is what the invariant `SeqInv` says:

* `Front` is who is under way. The FIFO order of the event loop is the heart of it: a
  start that has not begun leads every other caller in the queue (`QueueOK`), so no
  stop can overtake the start it was handed; beside a start there are only stops that
  have not begun or wait for it (`TurnsOK`).
* `GatewayOK` is what a call suspended at each of its awaits knows of the gateway:
  one connection loop if it runs and none otherwise (`LinkOK`), the health loop asleep
  and not cancelled unless somebody is stopping (`WatchOK`), the endpoints of the
  current context or none (`BindOK`).
* `AskedOK` relates what was last asked for to the calls under way: a gateway that
  is up although a stop was the last call has that stop, or one that waits, still
  under way.

The queue lemmas of `GatewayLifecycleProofs` say what appending, concatenating, waking
and cancelling do to it; then each piece of code between two awaits has one lemma per part of
`SeqInv`. `StopIsFinal`, `StartHolds`, `OneConnection` and the others are consequences
at the moment no call is under way. They say nothing of the watchdog's own restart:
`lifecycle_stays_down` and `lifecycle_two_watchdogs` show what it does to them.

`RaisesNothing` needs less: no health check, but callers that overlap their calls in
any way. Its invariant `Undisturbed` says that no queued resumption is a tick, so that
every health loop sleeps or is over and none awaits itself.

`InOrder` is proved along the refinement: the outbox's `Ordered` (everything
delivered is smaller than everything queued, and both increase) is inductive for
the abstract specification, and each action of `NodeContext` maps to `Put`,
`Deliver`, `Lose` or a stutter, given from `TypeOK` that at most one message is
in flight. `AtMostOneLost` needs that a loss on this connection
means that the drain task no longer carries a message.

The invariants of `Forwarding` need `Held`: every registration is
there together with its undo, only while the components run, and the market-event
flag goes with the callback. From it the repeated requests change nothing
(`SubscribeNowHolds`) and a stop withdraws everything, except the notifier when the
app refuses: `NotifierOK` counts it against `refused`.

`Poisoned` is not an invariant but holds from a point on: `Doomed` (a refused
pattern is in the table, and among those still to be subscribed while the
connection subscribes) is kept by every step, because only command topics ever
leave the table, and excludes serving.

In `Publishing`, `AtMostOneLate` needs `Settled`: a thread that has published late
holds nothing it could still enqueue late. `InTurn` needs `InLine` and `HeldInLine`:
of each thread's messages, those delivered precede those queued on the current
context, which precede the one it holds, and the queues of contexts to come are
empty (`FutureEmpty`), so that a restart begins with an empty line. `NumberedOnce`
counts the copies of a number over four places: with a thread, on a queue, at the
broker, gone. `NumbersOK` says of each number given that exactly one of the four
sets has exactly one element, and of each not yet given that all are empty; each
action moves one message from one place to the next, and `AloneCounts` turns this into
the sum of the cardinalities.

For `Commands` three facts carry everything: the queue of a command holds its
queued requests, each once (`QueuesOK`), which is what the mutant `PeekOnly` breaks;
only a service in the table, or the one `stop` is at work on, has queued requests,
all of the latest start (`TableOK`), so that nothing begins once `stop` is over;
and the course of a request (`CourseOK`) ties its stage, its coroutine, whether it
took effect and what was answered. The last is needed because a worker that gave up
leaves its coroutine behind: its request has been answered with an error and may
still take effect, once. Each action then maps to one step of `RemoteCall`, or to
none.

`DeliveryProofs` begins with what appending to, concatenating and removing from a
list does to its elements and to its being without repetition; `list.remove` takes
out the first occurrence, so that it takes out the only one needs `ListsOK` (the
list of a pattern holds its started subscribers, each once). `CalledOnce` then
follows from `TurnsOK`: before the component is called a message has only
subscribers on its list, which is why the handlers that its call puts in front are
there once. `OnePattern` needs that a subscriber's pattern never changes.
`BusMatchesRegistry` is inductive with the types: a listener is created again at most
once per bus because `MaxHandlers` bounds its handlers, of which the registry knows one.

`RoutesToNarrowest` holds in every state whose table is a sequence of patterns; its
proof is about operators. The loop of `_topic_matches` agrees with MQTT's meaning of
a filter (`MatchesIsCovers`); `max()` finds exactly one entry, whatever ranks tie
(`OneRanksTop`, from the least of a set of numbers); and a narrower pattern has every
literal of a wider one, because otherwise a typical topic of the first would not be
covered by the second (`NarrowerLiterals`). That gives the rank, with one exception
the attempt to prove it without brought to light: `a/#` and `a/+/#` have
equally many literals and both end in `#`, so `_pattern_specificity` ranks them alike
although the first is wider, and the message goes to whichever was registered
earlier. No document of the repository promises otherwise (the docstring defines
"more specific" as the higher tuple), so the property states the exception, and
the pattern `external/+/#` is part of the run.

Model-checked only: every liveness property (`CallsReturn`, `Drains`, `StopEnds`,
`Isolated`, `WorkersReturn`), since the prover has no fairness reasoning. Every other property of the passing runs is
stated by a theorem.

## 5. Not modelled

* Payloads: texts, timestamps, pydantic validation. An inbound message that is
  malformed is dropped before it reaches anything modelled; a request that does
  not validate is `Reject`; an outbound one that cannot be encoded fails in `Send`.
* `transport.py`, `serialization.py`, `protocols/`, `logging_compat.py`: stateless.
* `add_component`: the set of components is a constant, and one that is not added
  yet is one that did not start. `topic_for`, `get_component`, the factory and the
  adapter's delegating methods: reads, names and wiring before the first start.
* The adapter's registries of status listeners, market-event callbacks and
  strategy-loaded callbacks have no code in the repository that calls what they
  hold; in `Publishing` the host's app does, at any time.
* The bounded deques of the queue factories: a full one drops its oldest entry.
* `send` of a user publisher off the main thread: it raises and changes nothing.
* A closed event loop, after which every publish fails.
* `__aexit__` of a context whose process dies: nothing is persisted, so there is
  no recovery to check.

## 6. Plan

Order of the modules, most important behaviour first; the first eight are done, item 9 is open.

1. `GatewayLifecycle` with type and health proofs.
2. `Outbox`, `NodeContext` with the refinement and its proof.
3. `RemoteCall`, `Commands` with the refinement checked.
4. `TopicRouting`, `Delivery`.
5. `Forwarding`.
6. Proofs for `Outbox`, `NodeContext`, `Forwarding`.
7. The facade in `GatewayLifecycle`, with the pending start that `stop` awaits.
8. `Publishing`: threads that publish, restarts under them, the host's publishers;
   with its proofs.
9. A composition of `Commands` with `NodeContext`, so that a reply is tracked into
   the queue of the context it belongs to and on to the broker.
10. Proofs: the sequential lifecycle, `TrackedLoopSleeps`, `AwaitedRunEnds`,
    `RoutesToNarrowest` and `NumberedOnce` are done; left are weaker forms of the
    sequential properties that a watchdog's restart keeps, and proofs for the
    composition of item 9.
