---------------------------- MODULE Configuration ----------------------------
(***************************************************************************)
(* config.py, and what the managers and the monitoring tools make of a       *)
(* configuration: where they connect to, and how.                           *)
(*                                                                          *)
(* An environment gives each variable a string, or None if it is not set.    *)
(* A string stands for what the code parses it into: a URL is a record, a    *)
(* number is a string that is one, and the sets below say which are.        *)
(***************************************************************************)
CONSTANTS
  None,   \* what is not set
  Hosts   \* the names of hosts

ASSUME HostsAssumption == "localhost" \in Hosts

\* _env_bool, after strip() and lower().
Truthy == {"1", "true", "yes", "on"}
Falsy == {"0", "false", "no", "off"}

\* Which strings int() and float() accept, and then the constraints of the fields: a
\* port is in 1..65535, a heartbeat >= 0, a timeout > 0 (which nan is not).
Numbers == {"-1", "0", "60", "5671", "5672", "5673", "15671", "15672", "70000"}
Ports == Numbers \ {"-1", "0", "70000"}
Heartbeats == Numbers \ {"-1"}
Floats == {"-1", "0", "10.0", "inf", "nan"}
Timeouts == {"10.0", "inf"}

\* The names of virtual hosts, of which "/" stands for any that is not empty.
VirtualHosts == {"", "/"}

\* URLs of a broker - one that does not parse, and the empty string - and of the
\* management plugin.
BadUrl == [scheme |-> "none", host |-> "none", port |-> "none"]
EmptyUrl == [scheme |-> "", host |-> "", port |-> ""]
AmqpUrls == [scheme : {"amqp", "amqps"}, host : Hosts, port : Ports]
ManagementUrls ==
  [scheme : {"none", "http", "https", "ftp"}, host : Hosts, port : Ports]

\* What the variables may be set to.
AllEnvironments ==
  [url : AmqpUrls \cup {BadUrl, EmptyUrl, None}, host : Hosts \cup {None},
   port : STRING \cup {None}, vhost : VirtualHosts \cup {None}, ssl : STRING \cup {None},
   verify : STRING \cup {None}, timeout : STRING \cup {None}, heartbeat : STRING \cup {None},
   management : ManagementUrls \cup {EmptyUrl, None}]

Default ==
  [url |-> None, host |-> None, port |-> None, vhost |-> None, ssl |-> None, verify |-> None,
   timeout |-> None, heartbeat |-> None, management |-> None]

-----------------------------------------------------------------------------
(* from_env *)

\* os.environ.get(name, default)
Get(raw, default) == IF raw = None THEN default ELSE raw

Bool(raw, default) == IF raw = None THEN default ELSE raw \in Truthy

DefaultPort(ssl) == IF ssl THEN "5671" ELSE "5672"

Config(env) ==
  LET ssl == Bool(env.ssl, FALSE)
  IN  [host |-> Get(env.host, "localhost"),
       port |-> Get(env.port, DefaultPort(ssl)),
       virtual_host |-> Get(env.vhost, "/"),
       ssl_enabled |-> ssl,
       ssl_verify |-> Bool(env.verify, TRUE),
       connection_timeout |-> Get(env.timeout, "10.0"),
       heartbeat |-> Get(env.heartbeat, "60"),
       management_url |-> env.management,
       url_override |-> env.url]

\* The helpers raise RabbitMQConfigurationError themselves.
Parses(env) ==
  /\ {env.ssl, env.verify} \subseteq Truthy \cup Falsy \cup {None}
  /\ {env.port, env.heartbeat} \subseteq Numbers \cup {None}
  /\ env.timeout \in Floats \cup {None}

\* What pydantic demands of the fields, whoever builds the configuration.
ValidConfig(cfg) ==
  /\ cfg.port \in Ports
  /\ cfg.virtual_host # ""
  /\ cfg.connection_timeout \in Timeouts
  /\ cfg.heartbeat \in Heartbeats

\* Mutant: the fields are not constrained.
FromEnvUnchecked(env) == IF Parses(env) THEN "ok" ELSE "ConfigurationError"

\* How from_env ends: whatever pydantic raises is converted.
FromEnv(env) ==
  IF Parses(env) /\ ValidConfig(Config(env)) THEN "ok" ELSE "ConfigurationError"

\* Every configuration there may be, from an environment or RabbitMQConfig(...).
AllConfigs ==
  {cfg \in [host : Hosts, port : Ports, virtual_host : VirtualHosts, ssl_enabled : BOOLEAN,
            ssl_verify : BOOLEAN, connection_timeout : Timeouts, heartbeat : Heartbeats,
            management_url : ManagementUrls \cup {EmptyUrl, None},
            url_override : AmqpUrls \cup {BadUrl, EmptyUrl, None}] : ValidConfig(cfg)}
-----------------------------------------------------------------------------
(* Where and how to connect *)

\* An endpoint: the name is the one the certificate must have, if it is verified at all.
Endpoints ==
  [host : Hosts, port : Ports, tls : BOOLEAN, verified : BOOLEAN, name : Hosts]

\* `if self.url_override`, `if self.management_url`: an empty one is none.
Given(url) == url \notin {None, EmptyUrl}
Overrides(cfg) == Given(cfg.url_override)

\* build_ssl_context, which is None unless ssl_enabled.
Verifies(cfg) == cfg.ssl_enabled => cfg.ssl_verify

\* Mutant: the URL does not ask for TLS.
AmqpUrlPlain(cfg) == [scheme |-> "amqp", host |-> cfg.host, port |-> cfg.port]

\* amqp_url, unless url_override is returned.
AmqpUrl(cfg) ==
  [scheme |-> IF cfg.ssl_enabled THEN "amqps" ELSE "amqp", host |-> cfg.host, port |-> cfg.port]

\* SyncConnectionManager.connect: ConnectionParameters, or URLParameters with the SSL
\* options of the configuration, whose server_hostname is not the host of the URL.
SyncEndpoint(cfg) ==
  LET url == cfg.url_override
  IN  IF Overrides(cfg)
      THEN [host |-> url.host, port |-> url.port, tls |-> url.scheme = "amqps" \/ cfg.ssl_enabled,
            verified |-> Verifies(cfg), name |-> IF cfg.ssl_enabled THEN cfg.host ELSE url.host]
      ELSE [host |-> cfg.host, port |-> cfg.port, tls |-> cfg.ssl_enabled,
            verified |-> Verifies(cfg), name |-> cfg.host]

\* AsyncConnectionManager.connect: it gives aio-pika amqp_url() and the context.  External,
\* an assumption: aio-pika takes host, port and name from the URL, and uses TLS, with the
\* context, only if the scheme says so.
AsyncEndpoint(cfg) ==
  LET url == IF Overrides(cfg) THEN cfg.url_override ELSE AmqpUrl(cfg)
  IN  [host |-> url.host, port |-> url.port, tls |-> url.scheme = "amqps",
       verified |-> Verifies(cfg), name |-> url.host]

\* management_http_url, when the override has a scheme.
ManagementHttpUrl(cfg) ==
  IF Given(cfg.management_url)
  THEN cfg.management_url
  ELSE [scheme |-> IF cfg.ssl_enabled THEN "https" ELSE "http", host |-> cfg.host,
        port |-> IF cfg.ssl_enabled THEN "15671" ELSE "15672"]

\* What may go wrong once a management request has been sent, and what is raised: an
\* error while the response is read is no URLError.
ManagementErrors ==
  [http |-> "ConnectionError", unreachable |-> "ConnectionError",
   json |-> "ConnectionError", read |-> "Foreign"]

\* How _management_get ends, if the request is answered by r ("ok" or a kind of error).
ManagementGet(cfg, r) ==
  LET scheme == ManagementHttpUrl(cfg).scheme
  IN  IF scheme = "none" THEN "ConfigurationError"
      ELSE IF scheme \notin {"http", "https"} THEN "ConnectionError"
      ELSE IF r = "ok" THEN "ok" ELSE ManagementErrors[r]
=============================================================================
