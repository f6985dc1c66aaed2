-------------------------------- MODULE Toolkit --------------------------------
(***************************************************************************)
(* toolkit.py: RabbitMQToolkit, which gives all its tools one synchronous     *)
(* and one asynchronous manager; base.py: how LangChain runs a tool, from a  *)
(* thread or an event loop; monitoring_tools.py: the tools that close the    *)
(* connection or ask the management plugin.                                 *)
(*                                                                          *)
(* The program builds a toolkit from its environment, which may change       *)
(* before and after, or from a configuration of its own; and it may pass     *)
(* managers to it, which it has made, and used with tools of its own, before *)
(* (a manager it does not pass is not part of the system).  It calls tools   *)
(* from threads (`invoke`, or `ainvoke` of a synchronous tool, which asyncio *)
(* runs in a thread) and from the event loops it runs one after another with *)
(* asyncio.run().                                                           *)
(*                                                                          *)
(* A call of a manager is one step here: SyncConnectionManager and            *)
(* AsyncConnectionManager say what happens in it.  External: the brokers,    *)
(* asyncio, and aio-pika, whose connections work only in the loop that made  *)
(* them.                                                                    *)
(***************************************************************************)
EXTENDS Configuration, Naturals

CONSTANTS
  Environments,    \* the environments the program may run in
  Configurations,  \* the configurations it builds itself
  MaxLoops         \* bound: how many event loops the program runs

ASSUME EnvironmentsAssumption == Environments \subseteq AllEnvironments
ASSUME ConfigurationsAssumption == Configurations \subseteq AllConfigs /\ None \notin AllConfigs
ASSUME MaxLoopsAssumption == MaxLoops \in Nat

VARIABLES
  env,      \* os.environ
  config,   \* the configuration of the toolkit; None before there is one
  sync_config,     \* the configuration of the synchronous manager, None before there is one
  async_config,    \* the same of the asynchronous manager
  async_included,  \* include_async
  sync,     \* the endpoint the synchronous manager is connected to, or None
  async,    \* the same, and the loop it was connected in, or None
  loop,     \* the event loop that runs, 0 if none does
  loops,    \* how many loops asyncio.run() has created
  closing,  \* is aclose() awaiting the end of the second manager's close()?
  passed,   \* history: which managers did the program make itself?
  touched,  \* history: has a tool connected since the last aclose() began?
  released, \* history: has aclose() returned, and no tool connected since it began?
  raised    \* how the last constructor or call ended

managers == <<sync_config, async_config, passed>>
toolkit == <<config, async_included, managers>>
history == <<touched, released>>
vars == <<env, toolkit, sync, async, loop, loops, closing, history, raised>>

\* The loop get_event_loop() makes, as long as asyncio.run() has not been used.
MainLoop == MaxLoops + 1

Results ==
  {"ok", "ConfigurationError", "ConnectionError", "ChannelError", "Foreign", "Cancelled"}

TypeOK ==
  /\ env \in Environments
  /\ {config, sync_config, async_config} \subseteq AllConfigs \cup {None}
  /\ config # None => sync_config # None /\ async_config # None
  /\ async_included \in BOOLEAN
  /\ sync \in Endpoints \cup {None}
  /\ async \in [to : Endpoints, loop : 1..MainLoop] \cup {None}
  /\ loop \in 0..MaxLoops
  /\ loops \in 0..MaxLoops
  /\ closing \in BOOLEAN /\ touched \in BOOLEAN /\ released \in BOOLEAN
  /\ passed \subseteq {"sync", "async"}
  /\ raised \in Results

Init ==
  /\ env \in Environments
  /\ config = None /\ sync_config = None /\ async_config = None
  /\ async_included = TRUE
  /\ sync = None /\ async = None
  /\ loop = 0 /\ loops = 0
  /\ closing = FALSE /\ touched = FALSE /\ released = FALSE
  /\ passed = {}
  /\ raised = "ok"

-----------------------------------------------------------------------------
(* The program *)

Setenv(e) ==
  /\ e # env
  /\ env' = e
  /\ UNCHANGED <<toolkit, sync, async, loop, loops, closing, history, raised>>

\* The program makes a manager it is going to pass.
MakeSync(cfg) ==
  /\ config = None /\ sync_config = None
  /\ sync_config' = cfg
  /\ passed' = passed \cup {"sync"}
  /\ UNCHANGED <<env, config, async_included, async_config, sync, async, loop, loops, closing,
                 history, raised>>

MakeAsync(cfg) ==
  /\ config = None /\ async_config = None
  /\ async_config' = cfg
  /\ passed' = passed \cup {"async"}
  /\ UNCHANGED <<env, config, async_included, sync_config, sync, async, loop, loops, closing,
                 history, raised>>

\* `manager or Manager(self._config)`: a manager that was passed keeps its configuration.
PassedOr(manager_config, cfg) == IF manager_config # None THEN manager_config ELSE cfg

\* RabbitMQToolkit(config, include_async=..., sync_manager=..., async_manager=...), and
\* from_env().  Without a configuration the environment is read, also if both managers
\* are passed; neither manager connects.
Build(cfg, include) ==
  /\ config = None
  /\ raised' = IF cfg = None THEN FromEnv(env) ELSE "ok"
  /\ IF raised' = "ok"
     THEN /\ config' = IF cfg = None THEN Config(env) ELSE cfg
          /\ sync_config' = PassedOr(sync_config, config')
          /\ async_config' = PassedOr(async_config, config')
          /\ async_included' = include
     ELSE UNCHANGED <<config, sync_config, async_config, async_included>>
  /\ UNCHANGED <<env, passed, sync, async, loop, loops, closing, history>>

\* asyncio.run() begins, and ends: what was connected in its loop is not closed.
RunLoop ==
  /\ loop = 0 /\ loops < MaxLoops
  /\ loops' = loops + 1
  /\ loop' = loops'
  /\ UNCHANGED <<env, toolkit, sync, async, closing, history, raised>>

EndLoop ==
  /\ loop # 0 /\ ~closing
  /\ loop' = 0
  /\ UNCHANGED <<env, toolkit, sync, async, loops, closing, history, raised>>

-----------------------------------------------------------------------------
(* Tools *)

\* May a broker take the connection?  Its certificate is for the host it runs on.
Takes(to) == to.tls /\ to.verified => to.name = to.host

Parsed(cfg) == Overrides(cfg) => cfg.url_override # BadUrl

\* A tool has connected.
Touch == touched' = TRUE /\ released' = FALSE

\* Mutant: the manager reads the environment when it connects.
SyncConfigNow == Config(env)

\* self._config of the synchronous manager: it is frozen.
SyncConfig == sync_config

\* connect() of the synchronous manager, for any of the tools that share it.  Reading the
\* certificates, or resolving the host, raises errors foreign to the library.
SyncTool ==
  /\ sync_config # None
  /\ \/ /\ sync # None
        /\ raised' \in {"ok", "ChannelError"}
        /\ UNCHANGED <<sync, history>>
     \/ /\ sync = None
        /\ Parsed(SyncConfig) /\ Takes(SyncEndpoint(SyncConfig))
        /\ sync' = SyncEndpoint(SyncConfig)
        /\ raised' = "ok"
        /\ Touch
     \/ /\ sync = None
        /\ raised' \in {"ConnectionError", "Foreign"}
        /\ UNCHANGED <<sync, history>>
  /\ UNCHANGED <<env, toolkit, async, loop, loops, closing>>

\* The same for the tool that publishes asynchronously, run in loop l.  A connection
\* of another loop is open as far as the manager knows, but gives no channel.
AsyncToolIn(l) ==
  /\ \/ /\ async # None
        /\ raised' \in {"ChannelError"} \cup (IF async.loop = l THEN {"ok"} ELSE {})
        /\ UNCHANGED <<async, history>>
     \/ /\ async = None
        /\ Parsed(async_config) /\ Takes(AsyncEndpoint(async_config))
        /\ async' = [to |-> AsyncEndpoint(async_config), loop |-> l]
        /\ raised' = "ok"
        /\ Touch
     \/ /\ async = None
        /\ raised' \in {"Foreign"} \cup (IF Parsed(async_config) THEN {"ConnectionError"} ELSE {})
        /\ UNCHANGED <<async, history>>
  /\ UNCHANGED <<env, toolkit, sync, loop, loops, closing>>

\* Is there a tool that publishes asynchronously?  The program gives one to its own manager.
AsyncToolExists == async_config # None /\ (async_included \/ "async" \in passed)

\* _arun.
AsyncTool ==
  /\ AsyncToolExists /\ loop # 0
  /\ AsyncToolIn(loop)

\* _run: run_until_complete() on the current event loop.  It raises RuntimeError if that
\* runs, and get_event_loop() does if asyncio.run() has been here and left no loop.
AsyncToolInvoked ==
  /\ AsyncToolExists
  /\ IF loop = 0 /\ loops = 0
     THEN AsyncToolIn(MainLoop)
     ELSE /\ raised' = "Foreign"
          /\ UNCHANGED <<env, toolkit, sync, async, loop, loops, closing, history>>

\* CloseConnectionTool closes the connection of all synchronous tools, and no other.
CloseConnection ==
  /\ sync_config # None
  /\ sync' = None
  /\ raised' = "ok"
  /\ UNCHANGED <<env, toolkit, async, loop, loops, closing, history>>

\* list_queues, list_exchanges, list_bindings and get_node_stats connect to no broker.
ManagementTool ==
  /\ sync_config # None
  /\ \E r \in {"ok"} \cup DOMAIN ManagementErrors : raised' = ManagementGet(sync_config, r)
  /\ UNCHANGED <<env, toolkit, sync, async, loop, loops, closing, history>>

-----------------------------------------------------------------------------
(* aclose() *)

\* Mutant: the asynchronous manager keeps its connection.
DropsSyncOnly == UNCHANGED async

\* The manager has no connection, or none that is_open() takes for open.
DropsAsync == async' = None

\* self._sync_manager.close(), and self._async_manager.close() up to its await: from here
\* on the connection reports itself closed.
AcloseBegins ==
  /\ config # None /\ loop # 0 /\ ~closing
  /\ sync' = None
  /\ DropsAsync
  /\ closing' = TRUE
  /\ touched' = FALSE
  /\ released' = FALSE
  /\ UNCHANGED <<env, toolkit, loop, loops, raised>>

\* The first close() raises what is no AMQPError, because another thread has cleared the
\* field it reads, or with the field as it was: the other connection is not let go.
AcloseFails ==
  /\ config # None /\ loop # 0 /\ ~closing
  /\ sync # None
  /\ sync' \in {sync, None}
  /\ raised' = "Foreign"
  /\ UNCHANGED <<env, toolkit, async, loop, loops, closing, history>>

\* The await is over, during which threads and tasks went on: the field is cleared,
\* whatever a task has stored in it meanwhile, also if closing has raised, as it does in
\* another loop than the connection's.
AcloseEnds ==
  /\ closing
  /\ DropsAsync
  /\ closing' = FALSE
  /\ released' = ~touched
  /\ UNCHANGED <<env, toolkit, sync, loop, loops, touched, raised>>

\* CancelledError at the await: the field is left as it is.
AcloseCancelled ==
  /\ closing
  /\ closing' = FALSE
  /\ raised' = "Cancelled"
  /\ UNCHANGED <<env, toolkit, sync, async, loop, loops, history>>

Next ==
  \/ \E e \in Environments : Setenv(e)
  \/ \E cfg \in Configurations : MakeSync(cfg) \/ MakeAsync(cfg)
  \/ \E cfg \in Configurations \cup {None}, include \in BOOLEAN : Build(cfg, include)
  \/ RunLoop \/ EndLoop
  \/ SyncTool \/ AsyncTool \/ AsyncToolInvoked \/ CloseConnection \/ ManagementTool
  \/ AcloseBegins \/ AcloseFails \/ AcloseEnds \/ AcloseCancelled

Spec == Init /\ [][Next]_vars

-----------------------------------------------------------------------------
(* Properties *)

\* RABBITMQ_URL says amqp:// and RABBITMQ_SSL says true: there the managers disagree.
MixedTLS(cfg) == Overrides(cfg) /\ cfg.url_override.scheme = "amqp" /\ cfg.ssl_enabled

\* Whenever both managers are connected, and the toolkit made both of them, or those the
\* program passed have one configuration, they are connected to the same port of the same
\* broker, whatever happened to the environment between the two connections; and one of
\* them uses TLS if the other does, but for exactly the configurations that are MixedTLS
\* (toolkit.py:65-67, utilities.py:104-128 and 220-230).
SameBroker ==
  sync # None /\ async # None /\ (passed = {} \/ sync_config = async_config) =>
    /\ <<sync.host, sync.port>> = <<async.to.host, async.to.port>>
    /\ sync.tls # async.to.tls <=> MixedTLS(sync_config)

\* With TLS enabled, no credentials leave in plain, to a broker or to the management
\* plugin, unless a URL says so (config.py:140-164).
Encrypted ==
  /\ sync # None /\ sync_config.ssl_enabled => sync.tls
  /\ async # None /\ async_config.ssl_enabled => async.to.tls \/ MixedTLS(async_config)
  /\ sync_config # None /\ sync_config.ssl_enabled /\ ~Given(sync_config.management_url) =>
       ManagementHttpUrl(sync_config).scheme = "https"

\* When aclose() has returned, nothing is connected that was not connected since it
\* began - by a thread, by a task that ran during its await, or later (toolkit.py:127-131).
Released == released => sync = None /\ async = None
=============================================================================
