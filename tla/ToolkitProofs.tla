----------------------------- MODULE ToolkitProofs -----------------------------
(***************************************************************************)
(* Theorems about Toolkit, for every set of environments, any configurations  *)
(* the program builds itself, and any number of event loops.                *)
(*                                                                          *)
(* That the two managers agree is not inductive as it stands: they are made  *)
(* and connect at different times.  The invariant says of each, separately,  *)
(* that it is connected where its own configuration says, and that this is   *)
(* the toolkit's unless the program made the manager; the rest is about      *)
(* Configuration alone.                                                     *)
(***************************************************************************)
EXTENDS Toolkit, TLAPS

\* A manager the program did not make has the configuration of the toolkit.
OwnInv ==
  /\ "sync" \notin passed => sync_config = config
  /\ "async" \notin passed => async_config = config

SyncInv ==
  sync # None => /\ sync_config # None /\ Parsed(sync_config)
                 /\ sync = SyncEndpoint(sync_config)

AsyncInv ==
  async # None => /\ async_config # None /\ Parsed(async_config)
                  /\ async.to = AsyncEndpoint(async_config)

\* While aclose() awaits, and no tool connects, neither manager is connected.
ClosingInv == Released /\ (closing /\ ~touched => sync = None)

ConnectInv == TypeOK /\ OwnInv /\ SyncInv /\ AsyncInv
-----------------------------------------------------------------------------
(* Configuration *)

\* A configuration has a host and a port, and a URL that is one of those allowed
\* (config.py:81-105).
LEMMA ConfigTypes ==
  ASSUME NEW cfg \in AllConfigs
  PROVE  /\ cfg.host \in Hosts /\ cfg.port \in Ports
         /\ cfg.ssl_enabled \in BOOLEAN /\ cfg.ssl_verify \in BOOLEAN
         /\ cfg.url_override \in AmqpUrls \cup {BadUrl, EmptyUrl, None}
         /\ ValidConfig(cfg)
  BY DEF AllConfigs

\* _env_bool returns a bool.
LEMMA BoolType ==
  ASSUME NEW raw, NEW default \in BOOLEAN
  PROVE  Bool(raw, default) \in BOOLEAN
<1>1. CASE raw = None
  BY <1>1, Zenon DEF Bool
<1>2. CASE raw # None /\ raw \in Truthy
  BY <1>2, Zenon DEF Bool
<1>3. CASE raw # None /\ raw \notin Truthy
  <2>1. Bool(raw, default) = (raw \in Truthy)
    BY <1>3, Zenon DEF Bool
  <2>2. (raw \in Truthy) = FALSE
    BY <1>3
  <2> QED
    BY <2>1, <2>2, Zenon
<1> QED
  BY <1>1, <1>2, <1>3

\* What from_env returns is a configuration (config.py:107-138).
LEMMA FromEnvYields ==
  ASSUME NEW e \in Environments, FromEnv(e) = "ok"
  PROVE  Config(e) \in AllConfigs
<1> DEFINE cfg == Config(e)
<1>1. ValidConfig(cfg)
  BY DEF FromEnv
<1>2. e \in AllEnvironments
  BY EnvironmentsAssumption
<1>3. cfg.ssl_enabled \in BOOLEAN /\ cfg.ssl_verify \in BOOLEAN
  BY BoolType DEF Config
<1>4. cfg.host \in Hosts
  BY <1>2, HostsAssumption DEF AllEnvironments, Config, Get
<1>5. cfg.virtual_host \in VirtualHosts
  BY <1>2 DEF AllEnvironments, VirtualHosts, Config, Get
<1>6. /\ cfg.management_url \in ManagementUrls \cup {EmptyUrl, None}
      /\ cfg.url_override \in AmqpUrls \cup {BadUrl, EmptyUrl, None}
  BY <1>2 DEF AllEnvironments, Config
<1>7. /\ cfg.port \in Ports /\ cfg.connection_timeout \in Timeouts
      /\ cfg.heartbeat \in Heartbeats
  BY <1>1 DEF ValidConfig
<1>8. cfg = [host |-> cfg.host, port |-> cfg.port, virtual_host |-> cfg.virtual_host,
             ssl_enabled |-> cfg.ssl_enabled, ssl_verify |-> cfg.ssl_verify,
             connection_timeout |-> cfg.connection_timeout, heartbeat |-> cfg.heartbeat,
             management_url |-> cfg.management_url, url_override |-> cfg.url_override]
  BY DEF Config
<1>9. cfg \in AllConfigs
  <2> HIDE DEF cfg
  <2> QED
    BY <1>1, <1>3, <1>4, <1>5, <1>6, <1>7, <1>8 DEF AllConfigs
<1> QED
  BY <1>9

\* Where the managers connect to (utilities.py:104-132, 220-230).
LEMMA SyncEndpointTypes ==
  ASSUME NEW cfg \in AllConfigs, Parsed(cfg)
  PROVE  SyncEndpoint(cfg) \in Endpoints
<1>1. CASE Overrides(cfg)
  <2>1. cfg.url_override \in AmqpUrls
    BY <1>1, ConfigTypes DEF Overrides, Given, Parsed
  <2> QED
    BY <1>1, <2>1, ConfigTypes DEF SyncEndpoint, Endpoints, AmqpUrls, Verifies
<1>2. CASE ~Overrides(cfg)
  BY <1>2, ConfigTypes DEF SyncEndpoint, Endpoints, Verifies
<1> QED
  BY <1>1, <1>2

LEMMA AsyncEndpointTypes ==
  ASSUME NEW cfg \in AllConfigs, Parsed(cfg)
  PROVE  AsyncEndpoint(cfg) \in Endpoints
<1>1. CASE Overrides(cfg)
  <2>1. cfg.url_override \in AmqpUrls
    BY <1>1, ConfigTypes DEF Overrides, Given, Parsed
  <2> QED
    BY <1>1, <2>1, ConfigTypes DEF AsyncEndpoint, Endpoints, AmqpUrls, Verifies
<1>2. CASE ~Overrides(cfg)
  BY <1>2, ConfigTypes DEF AsyncEndpoint, AmqpUrl, Endpoints, Verifies
<1> QED
  BY <1>1, <1>2

\* From one configuration the managers go to one broker, and disagree about TLS in
\* exactly the case MixedTLS.
LEMMA EndpointsAgree ==
  ASSUME NEW cfg \in AllConfigs, Parsed(cfg)
  PROVE  /\ SyncEndpoint(cfg).host = AsyncEndpoint(cfg).host
         /\ SyncEndpoint(cfg).port = AsyncEndpoint(cfg).port
         /\ SyncEndpoint(cfg).tls # AsyncEndpoint(cfg).tls <=> MixedTLS(cfg)
         /\ cfg.ssl_enabled => SyncEndpoint(cfg).tls
         /\ cfg.ssl_enabled => AsyncEndpoint(cfg).tls \/ MixedTLS(cfg)
<1>1. CASE Overrides(cfg)
  <2>1. cfg.url_override \in AmqpUrls
    BY <1>1, ConfigTypes DEF Overrides, Given, Parsed
  <2>2. cfg.url_override.scheme \in {"amqp", "amqps"}
    BY <2>1 DEF AmqpUrls
  <2>3. cfg.ssl_enabled \in BOOLEAN
    BY ConfigTypes
  <2> QED
    BY <1>1, <2>2, <2>3 DEF SyncEndpoint, AsyncEndpoint, MixedTLS
<1>2. CASE ~Overrides(cfg)
  <2>1. cfg.ssl_enabled \in BOOLEAN
    BY ConfigTypes
  <2> QED
    BY <1>2, <2>1 DEF SyncEndpoint, AsyncEndpoint, AmqpUrl, MixedTLS
<1> QED
  BY <1>1, <1>2
-----------------------------------------------------------------------------
(* The inductive invariant *)

LEMMA InitConnect == Init => ConnectInv
<1> SUFFICES ASSUME Init
             PROVE  ConnectInv
  OBVIOUS
<1>1. closing \in BOOLEAN /\ touched \in BOOLEAN /\ released \in BOOLEAN /\ async_included \in BOOLEAN
  BY Zenon DEF Init
<1>2. TypeOK
  BY <1>1, MaxLoopsAssumption DEF Init, TypeOK, Results
<1>3. OwnInv /\ SyncInv /\ AsyncInv
  BY DEF Init, OwnInv, SyncInv, AsyncInv
<1> QED
  BY <1>2, <1>3 DEF ConnectInv

\* What a step leaves alone that does not make or build anything.
LEMMA MakesNothing ==
  ASSUME ConnectInv, TypeOK', UNCHANGED toolkit,
         sync' = sync \/ sync' = None
           \/ (sync_config # None /\ Parsed(sync_config) /\ sync' = SyncEndpoint(sync_config)),
         async' = async \/ async' = None
           \/ (async_config # None /\ Parsed(async_config) /\ async'.to = AsyncEndpoint(async_config))
  PROVE  ConnectInv'
<1>1. OwnInv'
  BY DEF ConnectInv, OwnInv, toolkit, managers
<1>2. SyncInv'
  BY DEF ConnectInv, SyncInv, Parsed, toolkit, managers
<1>3. AsyncInv'
  BY DEF ConnectInv, AsyncInv, Parsed, toolkit, managers
<1> QED
  BY <1>1, <1>2, <1>3 DEF ConnectInv

\* A manager the program makes is not connected yet.
LEMMA MakeKeeps ==
  ASSUME ConnectInv, NEW cfg \in Configurations, MakeSync(cfg) \/ MakeAsync(cfg)
  PROVE  ConnectInv'
<1> USE DEF ConnectInv
<1>1. cfg \in AllConfigs /\ cfg # None
  BY ConfigurationsAssumption
<1>2. CASE MakeSync(cfg)
  <2>1. TypeOK'
    BY <1>1, <1>2 DEF MakeSync, TypeOK, MainLoop, history
  <2>2. sync = None
    BY <1>2 DEF MakeSync, SyncInv
  <2>3. OwnInv' /\ SyncInv' /\ AsyncInv'
    BY <1>2, <2>2 DEF MakeSync, OwnInv, SyncInv, AsyncInv, Parsed
  <2> QED
    BY <2>1, <2>3
<1>3. CASE MakeAsync(cfg)
  <2>1. TypeOK'
    BY <1>1, <1>3 DEF MakeAsync, TypeOK, MainLoop, history
  <2>2. async = None
    BY <1>3 DEF MakeAsync, AsyncInv
  <2>3. OwnInv' /\ SyncInv' /\ AsyncInv'
    BY <1>3, <2>2 DEF MakeAsync, OwnInv, SyncInv, AsyncInv, Parsed
  <2> QED
    BY <2>1, <2>3
<1> QED
  BY <1>2, <1>3

LEMMA BuildKeeps ==
  ASSUME ConnectInv, NEW cfg \in Configurations \cup {None}, NEW include \in BOOLEAN,
         Build(cfg, include)
  PROVE  ConnectInv'
<1> USE DEF ConnectInv
<1>1. env \in Environments
  BY DEF TypeOK
<1>2. /\ config = None
      /\ raised' = IF cfg = None THEN FromEnv(env) ELSE "ok"
      /\ UNCHANGED <<env, passed, sync, async, loop, loops, closing, history>>
  BY DEF Build
<1>3. raised' \in Results
  BY <1>2 DEF FromEnv, Results
<1>4. CASE raised' = "ok"
  <2>1. /\ config' = IF cfg = None THEN Config(env) ELSE cfg
        /\ sync_config' = PassedOr(sync_config, config')
        /\ async_config' = PassedOr(async_config, config')
        /\ async_included' = include
    BY <1>4 DEF Build
  <2>2. config' \in AllConfigs /\ config' # None
    BY <1>1, <1>2, <1>4, <2>1, FromEnvYields, ConfigurationsAssumption
  <2>3. /\ sync_config' \in AllConfigs /\ async_config' \in AllConfigs
        /\ sync_config # None => sync_config' = sync_config
        /\ async_config # None => async_config' = async_config
    BY <2>1, <2>2 DEF PassedOr, TypeOK
  <2>4. TypeOK'
    BY <1>2, <1>3, <2>1, <2>2, <2>3, ConfigurationsAssumption DEF TypeOK, MainLoop, history
  <2>5. OwnInv'
    BY <1>2, <2>1 DEF OwnInv, PassedOr
  <2>6. SyncInv' /\ AsyncInv'
    BY <1>2, <2>3 DEF SyncInv, AsyncInv, Parsed
  <2> QED
    BY <2>4, <2>5, <2>6
<1>5. CASE raised' # "ok"
  <2>1. UNCHANGED <<config, sync_config, async_config, async_included>>
    BY <1>5 DEF Build
  <2>2. TypeOK'
    BY <1>2, <1>3, <2>1 DEF TypeOK, MainLoop, history
  <2> QED
    BY <1>2, <2>1, <2>2, MakesNothing DEF toolkit, managers
<1> QED
  BY <1>4, <1>5

LEMMA SyncToolKeeps ==
  ASSUME ConnectInv, SyncTool
  PROVE  ConnectInv'
<1> USE DEF ConnectInv
<1>1. sync_config # None /\ sync_config \in AllConfigs
  BY DEF SyncTool, TypeOK
<1>2. raised' \in Results
  BY DEF SyncTool, Results
<1>3. sync' = sync \/ (Parsed(sync_config) /\ sync' = SyncEndpoint(sync_config))
  BY DEF SyncTool, SyncConfig
<1>4. sync' \in Endpoints \cup {None}
  BY <1>1, <1>3, SyncEndpointTypes DEF TypeOK
<1>5. touched' \in BOOLEAN /\ released' \in BOOLEAN
  BY DEF SyncTool, TypeOK, Touch, history
<1>6. UNCHANGED <<env, toolkit, async, loop, loops, closing>>
  BY DEF SyncTool
<1>7. TypeOK'
  BY <1>2, <1>4, <1>5, <1>6 DEF TypeOK, MainLoop, toolkit, managers
<1> QED
  BY <1>1, <1>3, <1>6, <1>7, MakesNothing

LEMMA AsyncToolInKeeps ==
  ASSUME ConnectInv, async_config # None, NEW l \in 1..MainLoop, AsyncToolIn(l)
  PROVE  ConnectInv'
<1> USE DEF ConnectInv
<1>1. async_config \in AllConfigs
  BY DEF TypeOK
<1>2. raised' \in Results
  BY DEF AsyncToolIn, Results
<1>3. \/ async' = async
      \/ Parsed(async_config) /\ async' = [to |-> AsyncEndpoint(async_config), loop |-> l]
  BY DEF AsyncToolIn
<1>4. async' \in [to : Endpoints, loop : 1..MainLoop] \cup {None}
  BY <1>1, <1>3, AsyncEndpointTypes DEF TypeOK
<1>5. touched' \in BOOLEAN /\ released' \in BOOLEAN
  BY DEF AsyncToolIn, TypeOK, Touch, history
<1>6. UNCHANGED <<env, toolkit, sync, loop, loops, closing>>
  BY DEF AsyncToolIn
<1>7. TypeOK'
  BY <1>2, <1>4, <1>5, <1>6 DEF TypeOK, MainLoop, toolkit, managers
<1>8. async' = async
        \/ (Parsed(async_config) /\ async'.to = AsyncEndpoint(async_config))
  BY <1>3
<1> QED
  BY <1>6, <1>7, <1>8, MakesNothing

LEMMA ManagementToolRaises ==
  ASSUME ManagementTool
  PROVE  raised' \in Results
<1>1. PICK r \in {"ok"} \cup DOMAIN ManagementErrors : raised' = ManagementGet(sync_config, r)
  BY DEF ManagementTool
<1>2. r \in {"ok", "http", "unreachable", "json", "read"}
  BY DEF ManagementErrors
<1>3. r # "ok" => ManagementErrors[r] \in {"ConnectionError", "Foreign"}
  BY <1>2 DEF ManagementErrors
<1> QED
  BY <1>1, <1>3 DEF ManagementGet, Results

LEMMA NextConnect == ConnectInv /\ [Next]_vars => ConnectInv'
<1> SUFFICES ASSUME ConnectInv, [Next]_vars
             PROVE  ConnectInv'
  OBVIOUS
<1>a. TypeOK
  BY DEF ConnectInv
<1>b. MaxLoops \in Nat
  BY MaxLoopsAssumption
<1>1. ASSUME NEW e \in Environments, Setenv(e)
      PROVE  ConnectInv'
  <2>1. TypeOK'
    BY <1>1, <1>a DEF Setenv, TypeOK, MainLoop, toolkit, managers, history
  <2> QED
    BY <1>1, <2>1, MakesNothing DEF Setenv
<1>2. ASSUME NEW cfg \in Configurations, MakeSync(cfg) \/ MakeAsync(cfg)
      PROVE  ConnectInv'
  BY <1>2, MakeKeeps
<1>3. ASSUME NEW cfg \in Configurations \cup {None}, NEW include \in BOOLEAN,
             Build(cfg, include)
      PROVE  ConnectInv'
  BY <1>3, BuildKeeps
<1>4. CASE RunLoop
  <2>1. TypeOK'
    BY <1>4, <1>a, <1>b DEF RunLoop, TypeOK, MainLoop, toolkit, managers, history
  <2> QED
    BY <1>4, <2>1, MakesNothing DEF RunLoop
<1>5. CASE EndLoop
  <2>1. TypeOK'
    BY <1>5, <1>a, <1>b DEF EndLoop, TypeOK, MainLoop, toolkit, managers, history
  <2> QED
    BY <1>5, <2>1, MakesNothing DEF EndLoop
<1>6. CASE SyncTool
  BY <1>6, SyncToolKeeps
<1>7. CASE AsyncTool
  <2>1. loop \in 1..MainLoop /\ async_config # None
    BY <1>7, <1>a, <1>b DEF AsyncTool, AsyncToolExists, TypeOK, MainLoop
  <2> QED
    BY <1>7, <2>1, AsyncToolInKeeps DEF AsyncTool
<1>8. CASE AsyncToolInvoked
  <2>1. CASE AsyncToolIn(MainLoop)
    <3>1. MainLoop \in 1..MainLoop /\ async_config # None
      BY <1>8, <1>b DEF MainLoop, AsyncToolInvoked, AsyncToolExists
    <3> QED
      BY <2>1, <3>1, AsyncToolInKeeps
  <2>2. CASE /\ raised' = "Foreign"
             /\ UNCHANGED <<env, toolkit, sync, async, loop, loops, closing, history>>
    <3>1. TypeOK'
      BY <2>2, <1>a DEF TypeOK, Results, MainLoop, toolkit, managers, history
    <3> QED
      BY <2>2, <3>1, MakesNothing
  <2> QED
    BY <1>8, <2>1, <2>2 DEF AsyncToolInvoked
<1>9. CASE CloseConnection
  <2>1. TypeOK'
    BY <1>9, <1>a DEF CloseConnection, TypeOK, Results, MainLoop, toolkit, managers, history
  <2> QED
    BY <1>9, <2>1, MakesNothing DEF CloseConnection
<1>10. CASE ManagementTool
  <2>1. TypeOK'
    BY <1>10, <1>a, ManagementToolRaises
       DEF ManagementTool, TypeOK, MainLoop, toolkit, managers, history
  <2> QED
    BY <1>10, <2>1, MakesNothing DEF ManagementTool
<1>11. CASE AcloseBegins
  <2>1. TypeOK'
    BY <1>11, <1>a DEF AcloseBegins, DropsAsync, TypeOK, MainLoop, toolkit, managers
  <2> QED
    BY <1>11, <2>1, MakesNothing DEF AcloseBegins, DropsAsync
<1>12. CASE AcloseFails
  <2>1. TypeOK'
    BY <1>12, <1>a DEF AcloseFails, TypeOK, Results, MainLoop, toolkit, managers, history
  <2> QED
    BY <1>12, <2>1, MakesNothing DEF AcloseFails
<1>13. CASE AcloseEnds
  <2>1. released' \in BOOLEAN
    BY <1>13, <1>a DEF AcloseEnds, TypeOK
  <2>2. TypeOK'
    BY <1>13, <1>a, <2>1 DEF AcloseEnds, DropsAsync, TypeOK, MainLoop, toolkit, managers
  <2> QED
    BY <1>13, <2>2, MakesNothing DEF AcloseEnds, DropsAsync
<1>14. CASE AcloseCancelled
  <2>1. TypeOK'
    BY <1>14, <1>a DEF AcloseCancelled, TypeOK, Results, MainLoop, toolkit, managers, history
  <2> QED
    BY <1>14, <2>1, MakesNothing DEF AcloseCancelled
<1>15. CASE UNCHANGED vars
  <2>1. TypeOK'
    BY <1>15, <1>a DEF vars, TypeOK, MainLoop, toolkit, managers, history
  <2> QED
    BY <1>15, <2>1, MakesNothing DEF vars
<1> QED
  BY <1>1, <1>2, <1>3, <1>4, <1>5, <1>6, <1>7, <1>8, <1>9, <1>10, <1>11, <1>12, <1>13, <1>14,
     <1>15 DEF Next

LEMMA Connected == Spec => []ConnectInv
  BY InitConnect, NextConnect, PTL DEF Spec
-----------------------------------------------------------------------------
(* Theorems *)

\* The state keeps its types; every configuration, of the toolkit or of a manager,
\* satisfies the constraints of its fields.
THEOREM TypeCorrect == Spec => []TypeOK
<1>1. ConnectInv => TypeOK
  BY DEF ConnectInv
<1> QED
  BY <1>1, Connected, PTL

\* toolkit.py:65-67: the managers share the broker, however the environment changes,
\* unless the program passed managers with other configurations; and whether they agree on
\* TLS is decided by the configuration alone (utilities.py:104-132, 220-230).
THEOREM ManagersAgree == Spec => []SameBroker
<1>1. ConnectInv => SameBroker
  <2> SUFFICES ASSUME ConnectInv, sync # None, async # None,
                      passed = {} \/ sync_config = async_config
               PROVE  /\ sync.host = async.to.host /\ sync.port = async.to.port
                      /\ sync.tls # async.to.tls <=> MixedTLS(sync_config)
    BY DEF SameBroker
  <2>1. sync_config = async_config
    BY DEF ConnectInv, OwnInv
  <2>2. /\ sync_config \in AllConfigs /\ Parsed(sync_config)
        /\ sync = SyncEndpoint(sync_config) /\ async.to = AsyncEndpoint(async_config)
    BY DEF ConnectInv, TypeOK, SyncInv, AsyncInv
  <2> QED
    BY <2>1, <2>2, EndpointsAgree
<1> QED
  BY <1>1, Connected, PTL

\* With TLS enabled neither manager connects, nor is the management plugin asked, in plain,
\* unless a URL says so.
THEOREM TlsUsed == Spec => []Encrypted
<1>1. ConnectInv => Encrypted
  <2> SUFFICES ASSUME ConnectInv
               PROVE  Encrypted
    OBVIOUS
  <2>1. sync # None /\ sync_config.ssl_enabled => sync.tls
    BY EndpointsAgree DEF ConnectInv, TypeOK, SyncInv
  <2>2. async # None /\ async_config.ssl_enabled => async.to.tls \/ MixedTLS(async_config)
    BY EndpointsAgree DEF ConnectInv, TypeOK, AsyncInv
  <2>3. sync_config.ssl_enabled /\ ~Given(sync_config.management_url) =>
          ManagementHttpUrl(sync_config).scheme = "https"
    BY DEF ManagementHttpUrl
  <2> QED
    BY <2>1, <2>2, <2>3 DEF Encrypted
<1> QED
  BY <1>1, Connected, PTL

\* After aclose() only what was connected since it began is connected (toolkit.py:127-131).
THEOREM AcloseReleases == Spec => []Released
<1>1. Init => ClosingInv
  BY DEF Init, ClosingInv, Released
<1>2. TypeOK /\ ClosingInv /\ [Next]_vars => ClosingInv'
  <2> SUFFICES ASSUME TypeOK, ClosingInv, [Next]_vars
               PROVE  ClosingInv'
    OBVIOUS
  <2> USE DEF ClosingInv, Released, history
  <2>1. CASE \E e \in Environments : Setenv(e)
    BY <2>1 DEF Setenv
  <2>2. CASE \E cfg \in Configurations : MakeSync(cfg) \/ MakeAsync(cfg)
    BY <2>2 DEF MakeSync, MakeAsync
  <2>3. CASE \E cfg \in Configurations \cup {None}, include \in BOOLEAN : Build(cfg, include)
    BY <2>3 DEF Build
  <2>4. CASE RunLoop \/ EndLoop
    BY <2>4 DEF RunLoop, EndLoop
  <2>5. CASE SyncTool
    BY <2>5 DEF SyncTool, Touch
  <2>6. CASE AsyncTool
    BY <2>6 DEF AsyncTool, AsyncToolIn, Touch
  <2>7. CASE AsyncToolInvoked
    BY <2>7 DEF AsyncToolInvoked, AsyncToolIn, Touch
  <2>8. CASE CloseConnection \/ ManagementTool
    BY <2>8 DEF CloseConnection, ManagementTool
  <2>9. CASE AcloseBegins
    BY <2>9 DEF AcloseBegins
  <2>10. CASE AcloseFails
    BY <2>10 DEF AcloseFails
  <2>11. CASE AcloseEnds
    BY <2>11 DEF AcloseEnds, DropsAsync
  <2>12. CASE AcloseCancelled
    BY <2>12 DEF AcloseCancelled
  <2>13. CASE UNCHANGED vars
    BY <2>13 DEF vars
  <2> QED
    BY <2>1, <2>2, <2>3, <2>4, <2>5, <2>6, <2>7, <2>8, <2>9, <2>10, <2>11, <2>12, <2>13 DEF Next
<1>3. ClosingInv => Released
  BY DEF ClosingInv
<1> QED
  BY <1>1, <1>2, <1>3, TypeCorrect, PTL DEF Spec
=============================================================================
