------------------------------ MODULE MCToolkit ------------------------------
(***************************************************************************)
(* Instances of Toolkit for TLC.                                            *)
(***************************************************************************)
EXTENDS Toolkit

MCHosts == {"localhost", "b", "broker"}

PlainUrl == [scheme |-> "amqp", host |-> "broker", port |-> "5672"]
TlsUrl == [scheme |-> "amqps", host |-> "broker", port |-> "5671"]
Management(scheme) == [scheme |-> scheme, host |-> "b", port |-> "15672"]

\* What decides where to connect (next to a URL, the host matters only with TLS); an odd
\* setting of every other variable, alone or together; and what from_env refuses.
Targets ==
  { [Default EXCEPT !.url = u, !.ssl = "true", !.host = h] :
      u \in {None, PlainUrl, TlsUrl}, h \in {None, "b"} }
    \cup { [Default EXCEPT !.url = u] : u \in {PlainUrl, TlsUrl} }
    \cup { [Default EXCEPT !.host = h] : h \in {None, "b"} }
Odd ==
  { [Default EXCEPT !.url = BadUrl, !.management = Management("none")],
    [Default EXCEPT !.url = EmptyUrl, !.management = Management("ftp")],
    [Default EXCEPT !.ssl = "true", !.verify = "off", !.host = "b"],
    [Default EXCEPT !.ssl = "true", !.management = Management("https")] }
Refused ==
  { [Default EXCEPT !.ssl = "maybe"], [Default EXCEPT !.port = "70000"],
    [Default EXCEPT !.vhost = ""], [Default EXCEPT !.timeout = "nan"],
    [Default EXCEPT !.heartbeat = "-1"] }
MCEnvironments == Targets \cup Odd \cup Refused

\* RabbitMQConfig() and RabbitMQConfig(ssl_enabled=True), whose port is 5672 all the same.
MCConfigurations == { Config(Default), [Config(Default) EXCEPT !.ssl_enabled = TRUE] }
=============================================================================
