# A formal model of langchain-rabbitmq

`langchain-rabbitmq` gives an LLM agent a set of tools that talk to a RabbitMQ
broker. This directory holds TLA+ models of the parts of the library whose
correctness depends on the order in which things happen, the TLC configurations
that check them on small instances, and proofs that TLAPS checks for every instance.

Paths are relative to `src/`; `lib/` stands for `src/langchain_rabbitmq/`.

## 1. Inventory

| Component | State | Operations | Interacts with |
|---|---|---|---|
| `SyncConnectionManager` (`lib/utilities.py:77`) | one field, `_connection` | `is_open`, `connect` (3 attempts), `channel()` (context manager), `close`, `with` | pika's `BlockingConnection`; every sync tool of a toolkit calls it |
| `AsyncConnectionManager` (`lib/utilities.py:193`) | one field, `_connection` | the same, as coroutines | aio-pika's robust connection; the async publish tool |
| Message tools (`lib/tools/message_tools.py`) | none of their own: what they change is at the broker | publish, consume, ack, nack, reject | `manager.channel()`, one fresh channel per call |
| Async publish (`lib/tools/message_tools.py:252`) | none | publish | `AsyncConnectionManager.channel()` |
| Queue, exchange tools (`lib/tools/queue_tools.py`, `exchange_tools.py`) | none: the broker's topology | declare, delete, purge, bind, unbind, info | `manager.channel()` |
| Monitoring tools (`lib/tools/monitoring_tools.py`) | none | health, connection info, close, HTTP lists, node statistics | the manager; the management plugin over HTTP |
| Base classes (`lib/tools/base.py`) | the manager, or one made from the environment | `_run` in the caller's thread, `_arun` in a worker thread | asyncio |
| Toolkit (`lib/toolkit.py`) | one manager of each kind | `get_tools`, `aclose` | hands its managers to every tool |
| Config (`lib/config.py`) | immutable settings | environment, URLs, TLS context | read by the managers and the HTTP tools |
| Models, exceptions (`lib/models.py`, `exceptions.py`) | none | argument ranges; error hierarchy | the tools |
| RPC cookbook (`cookbooks/rpc.py`) | request and reply queues | `run_server`, `call` | the message and queue tools |
| pika, aio-pika, RabbitMQ | connections, channels, queues | | external: modelled from how the code uses them |

What is hard, and what makes each component correct:

- **Sync manager.** Tools run in worker threads (`_arun` uses `asyncio.to_thread`)
  and the manager has no lock, although it reads its field up to four times per
  call. A connection may be half-dead: `is_open` is true until some I/O fails.
  Correct means: one connection, always the one in the field; never `None` where
  it was excluded; every channel closed; a bounded number of attempts; a dead
  connection noticed and replaced.
- **Async manager.** The same hazards at every `await`, with a connection that
  reconnects by itself, so that an orphan never goes away.
- **Message tools.** A tool returns when its frame is flushed, not when the
  broker has handled it; its channel ends with the call, and so do the deliveries
  and tags of that channel. Correct means: what a tool reports is what the broker
  did, and no copy of a message is lost, duplicated or stuck.
- **Queue and exchange tools.** Calls of several agents interleave; an answer may
  be lost with the connection; exclusive and auto-delete objects go away by
  themselves, and take others with them. Correct means: what was declared to last
  lasts, nothing exists that nobody asked for, counts are real, a declare can be retried.
- **Config and toolkit.** Two managers connect lazily, at different times, from one
  configuration that each translates in its own way, unless the program passes managers with
  configurations of their own. Correct means: managers of one configuration agree on the
  broker and on TLS (which they do not always, see section 4), and `aclose()` leaves nothing connected
  although tools may run during its `await`.
- **RPC.** A request before its queue exists, a reply after the caller gave up, a
  request that kills the server, a queue several programs share. Correct means: a
  call returns its own answer or times out, no request is answered twice, the
  queues are cleaned up, the program ends.

The hazards, each at its line, are listed in `PROJECT.json`, with the properties
that would catch them or the reason why none does.

## 2. Modules

| Module | What it is |
|---|---|
| `ConnectionLifecycle` | what a connection manager promises, without how: the abstract specification of both managers |
| `SyncConnectionManager` | the sync manager and the threads that call it |
| `AsyncConnectionManager` | the async manager, the async publish tool, the tasks that call them |
| `MessageTools` | publish, consume, ack, nack, reject, and the broker |
| `Mailbox` | what publish and consume promise together, without channels, frames and acknowledgements: the abstract specification of `MessageTools` |
| `Topology` | the queue and exchange tools, and the broker |
| `Configuration` | environment to configuration to endpoints, and the management HTTP calls: operators only |
| `Toolkit` | the toolkit: both managers over `Configuration`, event loops, `aclose` |
| `Rpc` | client and server threads of the RPC cookbook |
| `RemoteCall` | what the RPC cookbook promises, without queues, servers and threads: the abstract specification of `Rpc` |
| `MC*` | the instances of each of these for TLC |
| `*Proofs` | the theorems about each of these |

Each module takes the layer below it at the grain its own questions need:

- `SyncConnectionManager` and `AsyncConnectionManager` say what happens inside a manager call, and
  abstract the tool body to how it may end (`Body`; the async publish is modelled in full).
  Both INSTANCE `ConnectionLifecycle` with a refinement mapping (`ImplementsLifecycle`).
- `MessageTools` and `Topology` have the tool bodies, and abstract the manager to "a
  channel opens or does not, and may be lost with its connection". A message tool
  writes frames the broker handles later; a topology tool waits for each answer.
- `Toolkit` composes both managers with `Configuration`; a manager call is one step.
- `Rpc` takes a whole tool call as one step at the broker, which may fail with or without effect.

### SyncConnectionManager

Each thread runs one call at a time: `"tool"` (a tool body under `with
manager.channel()`), `"enter"` (`with manager:`), `"info"` (`is_open()`), `"close"`.
`pc` says where in the call it is; an action ends at each access to the shared
field, so that another thread can come in between:

| Code | Actions |
|---|---|
| `is_open` (94-95) | `IsOpen` reads the field for `is not None`, `IsOpenProp` reads it again for `.is_open` |
| `connect` (97-144) | `Params`; `DialSucceeds`, `DialRefused`, `DialFails` for one attempt of the retry loop; `Store`; `AssertNotNone`; `Return` |
| `channel` (146-164) | `ChannelOpens`, `ChannelFindsDead`, `ChannelRefused`; `Body`; `CloseChannel` for the finally clause |
| `close` (166-174) | `Close`, `CloseProp`, `CloseConnection`, `CloseClear` |

The model keeps a connection's status at the broker: `open`, `closed`, or `lost`
(gone, but pika has not noticed). `Drop`, `Race` and `Free` are external: a
connection dies; two threads use one connection, whose outcome pika leaves undefined, so any
exception may escape and the connection may be broken; the broker's connection limit.
`Faults` selects which faults a run allows. `casualties` and `overlap` are history
variables: which calls a dead connection has failed, and whether two threads have been
inside `is_open`, `connect` or `close` at once (`Serialized`; a tool body under
`channel()`, or its clean-up, is not inside). One simplification: the second read of the field and the `is_open`
property of what it yields are one step; the property belongs to pika and only
reads its own state.

### AsyncConnectionManager

Tasks of one event loop make the calls `"publish"` (the async tool), `"enter"` and
`"close"`. `pc` is the `await` a task is at; what it does from there to the next
`await` is one action, because nothing else can run in between:

| Code | Actions |
|---|---|
| `connect` (207-237) | `ConnectBegins` up to `await connect_robust`; `DialSucceeds`, `DialRefused`, `DialFails` for one attempt, with the assignment to the field and the return in the same step |
| `channel` (239-249) | the end of `ConnectBegins` or `DialSucceeds` (`Handed`); `ChannelOpens`, `ChannelFails` |
| async publish (`message_tools.py:280-317`) | `InvokeEmpty`, `GetExchange`, `Publish`, `BodyFails`; `CloseChannel`, `CloseChannelFails` for the finally clause |
| `close` (251-257) | `CloseBegins` up to the `await`, `CloseEnds` after it |

A robust connection that breaks down is `down` until it is back (`Break`,
`Reconnect`), and does not report itself closed; one that is being closed does. `Cancel`
raises CancelledError at any `await`; aio-pika is assumed to clean up what it was doing
itself, so that what remains is what this code leaves behind. The history variable `overlap`
records that a task has begun to dial or to close while another one was doing so.

### ConnectionLifecycle

`held` is the connection the manager keeps, `live` those not known to be closed, `lent`
what each caller works on. A connection is opened only when none lives, and `Lend` gives
only the one kept. Both managers implement it under the mapping beside
`ImplementsLifecycle`, with any number of threads or tasks, until `overlap`. After that they
do not: see findings 2 and 5. A tool of the sync manager is lent its connection in the step in which
`is_open` finds it open or `connect` stores it. By the time `connect` returns it, another tool may
have found it dead, and `connect` returns it all the same.

### Mailbox

A message is `known` once it was put in, and `stored` until a call takes it. A call that
takes messages (`taking`: a consume with `auto_ack=True`) holds what it has taken until it
returns all of it (`Return`), or is going to fail and loses it (`Forfeit`). In `MessageTools`
what is stored is what is ready or unacknowledged, and what a call holds is its list `messages`
together with the answer under way to it. So everything else about the tools stays
inside: fetching without acknowledgement, settling, closing channels, and a connection that
dies between two calls of `basic_get`. The call that waits on a dead channel for an answer that will
not come is already forfeit, which is the step in which its messages are lost.

### MessageTools

A call opens a channel, writes frames, perhaps waits for an answer, and closes the
channel (`Client`). The broker handles a written frame later, in order (`Broker`).
`basic_get`, a `mandatory` publish and `ch.close()` wait; a plain publish and the
three settlements do not. A delivery tag counts from 1 on each channel. When a channel
ends, its outstanding deliveries return to their place in the queue; after a lost
connection they do so once the broker notices (`Lose`, `Reap`). A connection that is
lost may take frames and answers with it: a frame is handled before the loss or never.

One publish call is one message, named by its number, and a copy is a pair of
queue and message. Bodies, headers, TTL, priority and persistence are left out: no
property depends on them as long as queues do not expire messages and the broker
does not restart.

### Topology

An agent is a program with its own manager and makes one call at a time: `Invoke` (the
argument check of `models.py`, the lazy connect, the request is sent), `Handle` (the
broker does what it was asked, or refuses), `Receive` (the tool returns or raises),
`Fail` (it finds its connection dead). What a request does is one operator per tool:

| Code | Operators |
|---|---|
| `queue_tools.py` | `DeclareQueue`, `DeleteQueue`, `PurgeQueue`, `BindQueue`, `UnbindQueue`, `GetQueueInfo` |
| `exchange_tools.py` | `DeclareExchange`, `DeleteExchange`, `BindExchange` |
| `monitoring_tools.py`, close_connection | `CloseConnection` |

The broker is external: it locks exclusive queues to a connection and removes them when it
notices that this is gone (`Reap`); an auto-delete queue goes with its last consumer and an
auto-delete exchange with its last binding, which may take further exchanges with it
(`Cascade`, a least fixed point); a restart keeps what is durable. Messages are numbered as they
arrive. `promised`, `arrived`, `removed` and `reported` are history: what callers were told
lasts, how many messages there were, which of them each agent's purges and deletions
removed, and the sum of the counts it was told.

### Configuration and Toolkit

`Configuration` translates `from_env` with each way it fails (`FromEnv`), the constraints of
the fields (`ValidConfig`), and what is made of a configuration: `SyncEndpoint`
(`ConnectionParameters`, or `URLParameters` with the configured SSL options), `AsyncEndpoint`
(`amqp_url`), `ManagementHttpUrl` and `ManagementGet`. A string is a member of a small set and stands for what the code
parses it into; `"/"` stands for any virtual host that is not empty. That aio-pika uses TLS only if the scheme
of its URL is `amqps`, whatever context it is given, is an assumption about that library, made in `AsyncEndpoint`.

In `Toolkit` the program may make managers, and use them through tools it makes itself, before it
builds a toolkit with both, one or none of them, from a configuration of its own or from
the environment (`Build`, with `PassedOr` for `sync_manager or ...`). `sync_config` and `async_config` are the
configurations of the two managers, `passed` those the program made. A manager it does not pass is no
part of the system, and neither is one a tool makes for itself (`base.py:36-37`).

| Code | Actions of `Toolkit` |
|---|---|
| the managers a program passes | `MakeSync`, `MakeAsync` |
| `toolkit.py`, constructor and `from_env` (55-74) | `Build` |
| a sync tool, through the shared manager | `SyncTool`, `CloseConnection`, `ManagementTool` |
| the async tool, `base.py` `_arun` and `_run` | `AsyncTool`, `AsyncToolInvoked` |
| `aclose` (127-131) | `AcloseBegins` up to the `await`, `AcloseEnds` after it; `AcloseFails` if the first `close()` raises, `AcloseCancelled` at the `await` |
| the program around it | `Setenv`, `RunLoop`, `EndLoop` |

### Rpc

| Code (`cookbooks/rpc.py`) | Actions |
|---|---|
| `call` | `Declare`, `Publish`, `Poll`, `Expire` (the deadline), `Delete` |
| `main`'s finally clause | `Stop`, `Join`, `JoinTimesOut`, `Cleanup`, `Exit` |
| `run_server` | `ServerDeclares`, `ServerChecks`, `ServerConsumes`, `ServerReplies` |
| a tool raises in either | `CallFails`, `ServerFails` |

A publish without `mandatory` to a queue that does not exist is dropped, so a request sent before
the server has declared its queue is lost. `Stranger` is external: anyone may publish to
the request queue, and a body that is no number ends the server thread.

### RemoteCall

A program makes its calls in order and stops at the first that does not return; a call is asked,
answered at most once, and returns only its answer. In `Rpc` a call is asked from the moment its
publish may have reached the broker, answered when a server has published its reply, and has its
outcome when `call` is left: a call that finds its answer and then fails to delete the
reply queue has failed.

## 3. What TLC checks

| Run | Instance | States | What it shows |
|---|---|---|---|
| `sync_sequential` | 1 thread, 2 connections, every fault except races | 1 101 | `HandsOutOpen`, `NoChannelLeak`, `CallsReturn` |
| `sync_threads` | 2 threads, 2 connections, every fault except the two `GivesUpAfterThree` rules out | 1 161 927 | `FailsOncePerDeath`, `GivesUpAfterThree` hold without any lock; `SharesUntilOverlap`, `ImplementsLifecycle` until both threads are in the manager at once |
| `sync_threads_share` | 2 threads, no fault | violation | an open connection that nobody refers to |
| `sync_threads_errors` | 2 threads, no fault | violation | `AssertionError` or `AttributeError` out of `connect` |
| `async_tasks` | 2 tasks, 2 connections, every fault | 316 557 | `SharedConnection` and `ImplementsLifecycle` until two tasks dial or close at once; `NoChannelLeak`, `NeverHandsOutClosing`, `ReturnsWhenStable` |
| `async_share` | 2 tasks, no fault | violation | an open connection that nobody refers to |
| `async_mandatory` | 1 task, no fault | violation | an unroutable mandatory message reported as published |
| `messages_agents` | 2 agents on one queue, 2 messages, unreliable connections | 278 681 | `ConfirmedIsRouted`, `Conservation`, `ConsumeReportsAll`, `NothingHeldBetweenCalls`, `AutoAckOnlyRemoves`, `CallsReturn`, `UnackedComesBack`, `ImplementsMailbox` |
| `messages_ack` | 1 agent, no fault | violation | a message acknowledged successfully is still in its queue |
| `topology` | 2 agents, 2 queues, 2 exchanges, 1 message, lost connections, restarts | 489 991 | `PromisesKept`, `AsAsked`, `CountsAreReal`, `MessagesStay`, `RetrySettles` |
| `toolkit` | 19 environments that may change at any time, 2 configurations, managers passed or made, 2 event loops | 1 016 538 | `SameBroker`, `Encrypted`, `Released` |
| `rpc` | 2 programs, of 2 calls and 1 call, one stranger's message, any tool may fail | 561 545 | `RightReply`, `NoReplyQueueLeft`, `RequestQueueGone`, `ProgramEnds`, `ImplementsRemoteCall` |

Three properties that are proved are in no passing run because others contain them: `SharedConnection` and
`NoneNeverUsed` of the sync manager are what `SharesUntilOverlap` asserts as long as threads do not
overlap, and `AtMostOnce` of `Rpc` is the guard of `Answer` in `RemoteCall`.

One run of each module also checks its type invariant. Deadlock is checked everywhere but
in `rpc`, where both programs end. Each property has a mutant in `PROJECT.json`: a
plausible bug in the code, written beside the definition it replaces, under which
TLC finds the property violated.

**Bounds.** Connections have no history: a free one is reused, so two are enough
for every thread to hold one while the field holds another or none; with both in
use the broker refuses, which is a behaviour of its own. Two threads suffice
for the races found, each of which is between a check and a use; the proofs cover any
number. Three attempts is the code's own bound. `MaxMsgs = 2` and `MaxFetch = 2`
let a consume find fewer messages than, exactly as many as, or more than it asked
for, and let an ack with `multiple` cover one or two deliveries. One queue is
enough there because message tools on different queues do not interact; three destinations stand for a bound key, an
unbound key and an exchange that does not exist. `TwoAgents` leaves out calls that show nothing
new, which keeps the instance small: one agent publishes, mandatory and not, and takes
messages one by one, the other takes them too, fetches without acknowledgement, tries a queue that does not
exist, and settles by `ack`; `nack` and `reject` differ from it in what they would do to an outstanding
delivery, of which no settlement finds any. The proofs cover every set of calls, and `messages_ack` has all calls, of one agent.

In `topology` one agent sets up a durable queue, an exclusive queue, an exchange, an
auto-delete exchange and bindings, and takes them down, while the other declares the first
queue differently, deletes it if it is unused, and looks for the exclusive one: conflicting declarations, a queue deleted while it
is being bound, and a cascade are in reach; the proofs cover all calls of all agents, and cascades of any length. Both agents remove messages and are told how
many (one purges what the other deletes). `MaxMsgs = 1` suffices because a count that
is wrong is wrong by one message. In `toolkit` the environments are the
combinations of URL (none, `amqp`, `amqps`), `RABBITMQ_SSL` and host that decide where to connect, an odd
setting of each other variable, and one for each way from_env refuses; the configurations are
`RabbitMQConfig()` without TLS, and with it, then on a port from_env would not choose. Two loops are the one a
connection was made in and a later one. In `rpc` two servers and three
calls let one program's server answer, lose or delete another's request and a second call
follow the first; time is not counted, since any `Expire` is a deadline the code could meet.

**Fairness.** A thread in a call goes on (`WF_vars(Step(t))`, `WF_vars(Client(a))`):
the operating system schedules it, and `socket_timeout`, the heartbeat and
`blocked_connection_timeout`, which `connect` always sets (utilities.py:117-119),
bound every call into pika. The broker handles what reaches it and notices a dead
connection by its heartbeat (`Broker`, `Reap`). A task goes on when its `await` is over;
since the code sets no timeout on what it awaits from a connection that is down,
nothing is assumed there (`Waits`), and `ReturnsWhenStable` promises an end only if
connections finally stay up. In `rpc` only the main thread has to run, and its clock; nothing is
asked of a server thread. Nothing obliges anybody to start a
call, and no fault has to happen or to stop happening.

## 4. What the models found

1. **An acknowledgement cannot take effect** (`messages_ack`). `consume(auto_ack=False)`
   closes its channel on return, so the broker requeues what it delivered.
   `ack`, `nack` and `reject` open a new channel, where the tag is unknown; the
   broker's 406 arrives after the frame was flushed, `ch.close()` swallows it, and
   the tool reports success. The tool description and an integration test
   say otherwise (`lib/tools/message_tools.py:123`, `tests/integration/test_real_broker.py:70`).
   `AutoAckOnlyRemoves`, which is proved, is the positive statement: no settlement
   ever removes a message.
2. **An orphaned connection** (`sync_threads_share`). Thread 1 stores a new
   connection; thread 2, inside `close()`, clears the field. Nobody
   closes that connection; it stays open until it is garbage-collected or the broker
   misses its heartbeats, and the next call opens another.
3. **Untyped errors** (`sync_threads_errors`). The same interleaving one step
   earlier makes `connect` fail its `assert`, an error outside the hierarchy that
   `lib/exceptions.py:3` promises.
4. **A returned message reported as published** (`async_mandatory`). The sync tool
   raises for an unroutable message with `mandatory=True`; the async one awaits a
   publish on a channel without `on_return_raises`, where aio-pika (external; its
   documented default) completes the publish with the returned message.
5. **Two async connections** (`async_share`). Two tasks that find no connection both await
   `connect_robust`, and the second overwrites the first's connection. Robust connections
   reconnect, so the lost one stays until the program ends. A `close()` during a `connect` loses
   one in the same way.

With a single thread, 2 and 3 cannot happen: theorems `OneConnection` and `NoneExcluded`. Nor can they, with any number of
threads, before two of them are inside `is_open`, `connect` or `close` at once
(`SharesUntilOverlap`, theorem `SharedUntilOverlap`). So a lock around these three, each held
for the whole call, would be enough; none is needed around the tool bodies.

The async manager, too, keeps one connection until two tasks dial or close at a time (theorem `OneConnection` of
`AsyncConnectionManagerProofs`); an `asyncio.Lock` around `connect` and `close` would be enough.

Four more disagreements with the documentation show in a single call, so that no run is spent on them:

- With `RABBITMQ_URL=amqp://...` and `RABBITMQ_SSL=true` the sync manager uses TLS and the async one does not, though
  `lib/utilities.py:8-12` says that both honour the TLS settings. `SameBroker`, which is checked and proved, says
  that these (`MixedTLS`) are exactly the configurations for which two managers disagree. It rests on the assumption about
  aio-pika made in `AsyncEndpoint`.
- With a URL, `get_connection_info` reports host, port and TLS of the single variables, which the URL overrides
  (`README.md:88`), as those of "the active connection" (`lib/tools/monitoring_tools.py:87`). Not modelled.
- What `build_ssl_context` raises is converted by neither manager; nor, by the sync one, a failing name
  resolution, nor, by the async one, a bare `ConnectionError` that it has retried three times and the timeout of
  `connect_robust`. They are the outcome `"Foreign"` in both models, and break the sentence of `lib/exceptions.py:3`.
- The management tools let an error while the response is read escape (`ManagementErrors`).

Other behaviours are in the models without being called wrong, because no document
settles them: with a URL and TLS the sync manager verifies the
certificate against `RABBITMQ_HOST`, not against the host of the URL (`name` in `SyncEndpoint`); an
`aclose()` whose first `close()` raises leaves the asynchronous connection open (`AcloseFails`), and one that is
cancelled leaves what a task connected meanwhile (`AcloseCancelled`), so that `Released` speaks only of those that
return; and managers the program passes may have different configurations, of which `SameBroker` says nothing.

## 5. What is proved

All proofs are in the six `*Proofs` modules and hold for every value of the constants
under the named assumptions of the models, which only say that the constants make sense: `None` is no
connection, the faults are known ones, names do not clash, bounds are natural numbers, the requests are calls
that exist.

- `SyncConnectionManagerProofs`
  - `TypeCorrect`. Not a matter of typing alone: that `attempts` never reaches 4 needs
    to know which labels a thread can be at with how many attempts, and that a
    thread in a tool body holds a connection (`ControlInv`).
  - `ChannelsClosed` proves `NoChannelLeak`, which is inductive given the types: a
    channel is opened with its connection in a local that only the finally
    clause gives up.
  - `GivesUpLate` proves `GivesUpAfterThree`.
  - `OneFailurePerDeath` proves `FailsOncePerDeath` for any number of threads
    without a lock. The property is not inductive. The invariant `DeathInv` adds
    that a connection about to be stored is known to nobody else (`FreshInv`), that a
    connection which failed a call is known to be closed (`DeadInv`), and that what a
    thread is about to pick up has not failed it before (`CleanInv`).
  - `SharedUntilOverlap` proves `SharesUntilOverlap` for any number of threads. The invariant
    `SerialInv`, which holds until `overlap`, says that a thread that is alone in
    the manager overwrites or clears the field only when the connection in it is closed
    (`DeadFieldInv`), and that whatever is not known to be closed is in the field or about to be
    (`KnownInv`), whatever the threads in tool bodies do to that connection meanwhile.
  - `Implements` proves the refinement of `ConnectionLifecycle` from the same invariant, also for any
    number of threads until `overlap`. At most one connection is known to be alive, so a tool
    that finds its own dead, or a race that breaks one, is `GiveBack` or `Lose`, and a connection is
    stored (`Open`) only when none is known; only that a call keeps its kind is needed besides (`KindInv`).
  - `OneConnection`, `NoneExcluded` and `OpenHandedOut` assume a single thread, which never overlaps with another,
    and prove `SharedConnection`, `NoneNeverUsed` and `HandsOutOpen`; the last needs that nobody else finds
    the connection dead that `connect` is about to return (`OpenInv`).
- `AsyncConnectionManagerProofs`, all for any number of tasks
  - `TypeCorrect`, with what a call holds at each `await` (`TaskInv`).
  - `ChannelsClosed` proves `NoChannelLeak`, inductive given the types.
  - `HandsOutLiving` proves the action property `NeverHandsOutClosing`.
  - `OneConnection` proves `SharedConnection`: until `overlap`, nothing lives while a task
    dials, and what a task closes is what the field holds.
  - `Implements` proves the refinement, until `overlap`.
- `MessageToolsProofs`
  - `TypeCorrect`. The invariant says at which point of a call a frame or an answer can be
    under way (`PhaseInv`), and that a message not yet sent is new to the broker (`FreshInv`).
  - `NothingHeld` proves `NothingHeldBetweenCalls`: the broker holds deliveries only
    on the open channel of a consume call (`HeldInv`), or of connections it has not yet noticed to be dead. That
    these come back is `UnackedComesBack`.
  - `CopiesConserved` proves `Conservation`, inductive given `FreshInv`.
  - `OnlyAutoAck` proves the action property `AutoAckOnlyRemoves`: by `HeldInv` a
    settlement finds nothing outstanding on its channel.
  - `ConfirmedMeansRouted` proves `ConfirmedIsRouted`: a confirmation is under way only
    once the message was put in a queue, and a mandatory publish never skips it (`RoutedInv`).
  - `ConsumeComplete` proves `ConsumeReportsAll`: the tags a call got are 1 up to the
    number it counts, what it got is no longer ready, and so is never got twice (`FetchInv`, which
    rests on `Conservation`).
  - `Implements` proves the refinement of `Mailbox`. Most steps do not show (lemma `QuietStep`):
    by `Conservation` what is stored changes only with what was enqueued or removed. The broker's
    basic_get with `auto_ack` is `Take`: no answer is under way at that moment
    (`FetchInv`), so none is overwritten. A publish is `Put` because its message is new to the broker
    (`FreshInv`), and settling takes nothing by `HeldInv`.
- `TopologyProofs`
  - `TypeCorrect`; with it, that no binding outlives one of its ends, for which a
    cascade must remove every binding of what it removes.
  - `PromisesLast` proves `PromisesKept`. What is promised is durable, or exclusive to a living
    connection, and a promised binding has promised ends; so no cascade and no restart reaches
    it unless a call asked for its removal (lemma `CascadeBound`).
  - `MessagesLast` proves the action property `MessagesStay`. A promised queue is durable, or exclusive to a
    living connection, and not auto-delete, so that whatever removes entities - a delete of something else, a
    cascade, a dead owner, a last consumer that leaves - spares its messages (lemmas `RemoveSpares`, `OrphanSpares`),
    and the broker's answer to a call empties it only if the call asked for it (`HandleSpares`).
  - `NothingUnasked` proves `AsAsked`: no step creates, or changes the attributes of, what it was not asked for.
  - `CountsReal` proves `CountsAreReal`. Every message is in one place, a queue or what one agent
    removed (`Apart`), so what a purge removes adds exactly its count to what was removed for that agent;
    and an agent has been told no more than that, less if an answer was lost (`Told`). Restarts,
    owners that go away and last consumers that leave remove messages without adding to anybody's count.
- `ToolkitProofs`: `TypeCorrect`, `ManagersAgree`, `TlsUsed`, `AcloseReleases`. They rest on one
  invariant (`ConnectInv`): a manager that was not passed has the toolkit's configuration (`OwnInv`), and what is
  connected is connected to the endpoint of its manager's configuration, which is frozen and parses (`SyncInv`, `AsyncInv`).
  `EndpointsAgree` is the lemma about the two translations of one configuration, `MixedTLS` included.
- `RpcProofs`
  - `AnswersMatch` proves `RightReply`: what is in a reply queue is the answer to the call that owns it
    (`ReplyInv`), so correlation ids need not be compared.
  - `ServedOnce` proves `AtMostOnce`: a request is in the queue, taken by one server, or answered, never two of these.
  - `ReplyQueuesDeleted` and `RequestQueueDeleted` prove `NoReplyQueueLeft` and `RequestQueueGone`: a reply queue is
    that of a call in progress or one that failed; the request queue exists only as long as somebody
    is left who has not deleted it after the end of its own server.
  - `Implements` proves the refinement of `RemoteCall`. The calls before the current one have returned, so a
    program's call is in turn (`OrderInv`); an answer in a reply queue, or returned, was given by a
    server, also when the caller has left (`GivenInv`); and that it is the answer to this call, given once, are
    the invariants above. Steps of servers, strangers and the finally clause show only as answers.

Only model-checked: the liveness properties `CallsReturn` (both sync models),
`ReturnsWhenStable`, `UnackedComesBack`, `RetrySettles` and `ProgramEnds`, which are beyond this prover:
they need fairness. The refinements are refinements of safety; the abstract specifications promise no
progress. Every invariant and action property the passing runs check is proved.
`SharedConnection` for several threads, or tasks (there `SingleConnection`), is false without `~overlap`, see above.

## 6. Not modelled

- The other cookbooks (`routing.py`, `basic_agent.py`, `async_agent.py`): straight-line
  sequences of tool calls that the other modules contain.
- What `get_connection_info` reports, and where `get_node_stats` probes: fields of the configuration, copied.
- JSON rendering of results, wording of errors, logging.
- Message properties, headers, priority and TTL, optional arguments of queues and
  bindings, routing keys in `Topology`: data that no property tells apart. A queue whose arguments expire
  messages would break `Conservation` by its declaration, not by this code.
- Queues named by the server: each is a fresh name, and behaves as an exclusive or auto-delete queue of that name.
- Credentials, and TLS itself: where it is used, and for which name a certificate is
  verified, is modelled; reading the certificate files is a failure of the call that needs them.
- Schema validation beyond the ranges of the arguments the tools depend on.
- A broker restart during an RPC call, and the broker's memory or disk alarms: to the code both are a
  tool call that fails, which `Rpc` and `MessageTools` have.
- A frame that reaches the broker after the client has found its connection dead: it is assumed to be
  handled before the loss or never.
