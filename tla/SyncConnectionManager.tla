------------------------ MODULE SyncConnectionManager ------------------------
(***************************************************************************)
(* utilities.py: SyncConnectionManager, the lazy wrapper around one         *)
(* pika.BlockingConnection that every synchronous tool of a toolkit shares. *)
(*                                                                          *)
(* BaseRabbitMQTool._arun runs each call in a worker thread of its own and   *)
(* the manager takes no lock, so the model is a set of Threads, each running *)
(* one call at a time, that interleave at every access to the shared field   *)
(* self._connection.  With a single thread the model is the sequential       *)
(* program (_run).                                                           *)
(*                                                                          *)
(* A call is "tool" (a tool body under `with manager.channel()`), "enter"    *)
(* (`with manager:` or connect()), "info" (is_open()) or "close" (close(),   *)
(* __exit__).  The broker and pika are external: Faults names what they may  *)
(* do to the client in a run.                                               *)
(***************************************************************************)
EXTENDS Naturals

CONSTANTS
  Threads,   \* the worker threads that call tools
  Conns,     \* connections the broker is willing to hold at the same time
  None,      \* Python's None
  Faults     \* the faults that may occur, a subset of FaultKinds

FaultKinds == {
  "url",        \* RABBITMQ_URL does not parse
  "tls",        \* build_ssl_context raises (a missing certificate file)
  "refuse",     \* the broker cannot be reached: AMQPConnectionError
  "protocol",   \* any other AMQPError while connecting
  "resolve",    \* an exception pika does not wrap (socket.gaierror)
  "drop",       \* an established connection dies unnoticed
  "limit",      \* the connection has no free channel
  "reject",     \* the broker refuses what the tool body asks for
  "raise",      \* the tool body raises something that is no AMQPError
  "race"}       \* two threads inside the same connection: not supported by pika

ASSUME NoneAssumption == None \notin Conns
ASSUME FaultsAssumption == Faults \subseteq FaultKinds

VARIABLES
  connection,  \* the field self._connection
  status,      \* of each connection; "lost": gone, but the client has not noticed
  channels,    \* <<t, c>>: a channel that t opened on c and has not closed
  pc,          \* where in its call each thread is
  kind,        \* the call each thread is in
  conn,        \* the local that holds a connection: BlockingConnection's result, conn
  attempts,    \* attempts made by the tenacity loop of this call
  outcome,     \* how the call ended, or is about to
  casualties,  \* history: how many calls of a thread the death of a connection failed
  overlap      \* history: have two threads been inside the manager at the same time?

calls == <<connection, status, channels, pc, kind, conn, attempts, outcome, casualties>>
vars == <<calls, overlap>>

CallKinds == {"tool", "enter", "info", "close"}

Labels == {"idle", "is_open", "is_open_prop", "params", "dial", "store", "assert",
           "return", "channel", "body", "finally",
           "close", "close_prop", "close_conn", "close_clear"}

Outcomes == {"none", "ok", "ConnectionError", "ChannelError", "ToolError", "Foreign"}

CallsOK ==
  /\ connection \in Conns \cup {None}
  /\ status \in [Conns -> {"closed", "open", "lost"}]
  /\ channels \subseteq Threads \X Conns
  /\ pc \in [Threads -> Labels]
  /\ kind \in [Threads -> CallKinds]
  /\ conn \in [Threads -> Conns \cup {None}]
  /\ attempts \in [Threads -> 0..3]
  /\ outcome \in [Threads -> Outcomes]
  /\ casualties \in [Threads -> [Conns -> 0..2]]

TypeOK == CallsOK /\ overlap \in BOOLEAN

-----------------------------------------------------------------------------
(* Helpers. *)

\* Mutant: is_open() only asks whether there is a connection.
ReportsOpenAlways(c) == TRUE

\* BlockingConnection.is_open: pika reports a dead peer only once it has done I/O.
ReportsOpen(c) == status[c] # "closed"

\* Mutants: one attempt fewer, one more.
StopAfterTwo(n) == n >= 2
StopAfterFour(n) == n >= 4

\* stop_after_attempt(3), asked after attempt n has failed.
StopAfterAttempt(n) == n >= 3

CountAttempt(t) == attempts' = [attempts EXCEPT ![t] = @ + 1]

\* A connection the broker can hand out: it holds none under this name, and the
\* client has kept no reference to an earlier one.
Free(c) ==
  /\ status[c] # "open"
  /\ connection # c
  /\ \A t \in Threads : conn[t] # c

Goto(t, label) == pc' = [pc EXCEPT ![t] = label]

\* The call of t returns, or raises, with outcome r.
Finish(t, r) ==
  /\ Goto(t, "idle")
  /\ outcome' = [outcome EXCEPT ![t] = r]
  /\ conn' = [conn EXCEPT ![t] = None]

\* pika finds out that c is dead, and the call of t fails for it.
Discover(t, c) ==
  /\ status' = [status EXCEPT ![c] = "closed"]
  /\ casualties' = [casualties EXCEPT ![t][c] = IF @ = 0 THEN 1 ELSE 2]

Init ==
  /\ connection = None
  /\ status = [c \in Conns |-> "closed"]
  /\ channels = {}
  /\ pc = [t \in Threads |-> "idle"]
  /\ kind = [t \in Threads |-> "info"]
  /\ conn = [t \in Threads |-> None]
  /\ attempts = [t \in Threads |-> 0]
  /\ outcome = [t \in Threads |-> "none"]
  /\ casualties = [t \in Threads |-> [c \in Conns |-> 0]]
  /\ overlap = FALSE

\* The agent invokes a tool, or the program enters or leaves the manager.
Invoke(t, k) ==
  /\ pc[t] = "idle"
  /\ Goto(t, IF k = "close" THEN "close" ELSE "is_open")
  /\ kind' = [kind EXCEPT ![t] = k]
  /\ attempts' = [attempts EXCEPT ![t] = 0]
  /\ outcome' = [outcome EXCEPT ![t] = "none"]
  /\ UNCHANGED <<connection, status, channels, conn, casualties>>

-----------------------------------------------------------------------------
(* is_open(): the field is read twice, once for `is not None` and once for   *)
(* `.is_open`.                                                               *)

\* Mutant: connect() dials without asking whether it is connected.
DialAnyway(t, isOpen) ==
  IF kind[t] = "info" THEN Finish(t, "ok") ELSE Goto(t, "params") /\ UNCHANGED <<conn, outcome>>

\* What follows is_open(): connect() goes on, get_connection_info reports it.
AfterIsOpen(t, isOpen) ==
  IF kind[t] = "info"
  THEN Finish(t, "ok")
  ELSE /\ Goto(t, IF isOpen THEN "assert" ELSE "params")
       /\ UNCHANGED <<conn, outcome>>

\* Mutant: the field is used without a test for None.
HasConnectionAlways == TRUE

\* The test both is_open() and close() begin with.
HasConnection == connection # None

IsOpen(t) ==
  /\ pc[t] = "is_open"
  /\ IF HasConnection
     THEN /\ Goto(t, "is_open_prop")
          /\ UNCHANGED <<conn, outcome>>
     ELSE AfterIsOpen(t, FALSE)
  /\ UNCHANGED <<connection, status, channels, kind, attempts, casualties>>

\* None.is_open is an AttributeError.
IsOpenProp(t) ==
  /\ pc[t] = "is_open_prop"
  /\ IF connection = None
     THEN Finish(t, "Foreign")
     ELSE AfterIsOpen(t, ReportsOpen(connection))
  /\ UNCHANGED <<connection, status, channels, kind, attempts, casualties>>

-----------------------------------------------------------------------------
(* connect() *)

\* TLS context and connection parameters.  Only a URL that does not parse is
\* converted; what build_ssl_context raises is not.
Params(t) ==
  /\ pc[t] = "params"
  /\ \/ /\ Goto(t, "dial")
        /\ UNCHANGED <<conn, outcome>>
     \/ "url" \in Faults /\ Finish(t, "ConnectionError")
     \/ "tls" \in Faults /\ Finish(t, "Foreign")
  /\ UNCHANGED <<connection, status, channels, kind, attempts, casualties>>

\* BlockingConnection(params) returns a connection that only t knows yet.
DialSucceeds(t, c) ==
  /\ pc[t] = "dial"
  /\ Free(c)
  /\ status' = [status EXCEPT ![c] = "open"]
  /\ channels' = {ch \in channels : ch[2] # c}
  /\ casualties' = [u \in Threads |-> [casualties[u] EXCEPT ![c] = 0]]
  /\ conn' = [conn EXCEPT ![t] = c]
  /\ CountAttempt(t)
  /\ Goto(t, "store")
  /\ UNCHANGED <<connection, kind, outcome>>

\* A retryable error, also when the broker is at its connection limit: tenacity
\* sleeps and tries again, or reraises the last error, which connect() converts.
DialRefused(t) ==
  /\ pc[t] = "dial"
  /\ "refuse" \in Faults \/ \A c \in Conns : ~Free(c)
  /\ CountAttempt(t)
  /\ IF StopAfterAttempt(attempts[t] + 1)
     THEN Finish(t, "ConnectionError")
     ELSE UNCHANGED <<pc, conn, outcome>>
  /\ UNCHANGED <<connection, status, channels, kind, casualties>>

\* An error tenacity does not retry: an AMQPError is converted, others escape.
DialFails(t) ==
  /\ pc[t] = "dial"
  /\ \/ "protocol" \in Faults /\ Finish(t, "ConnectionError")
     \/ "resolve" \in Faults /\ Finish(t, "Foreign")
  /\ CountAttempt(t)
  /\ UNCHANGED <<connection, status, channels, kind, casualties>>

\* self._connection = ..., whatever the field holds by now.
Store(t) ==
  /\ pc[t] = "store"
  /\ connection' = conn[t]
  /\ conn' = [conn EXCEPT ![t] = None]
  /\ Goto(t, "assert")
  /\ UNCHANGED <<status, channels, kind, attempts, outcome, casualties>>

\* assert self._connection is not None, in both branches of connect().
AssertNotNone(t) ==
  /\ pc[t] = "assert"
  /\ IF connection = None
     THEN Finish(t, "Foreign")
     ELSE /\ Goto(t, "return")
          /\ UNCHANGED <<conn, outcome>>
  /\ UNCHANGED <<connection, status, channels, kind, attempts, casualties>>

\* return self._connection: a read of its own, which may yield None.
Return(t) ==
  /\ pc[t] = "return"
  /\ IF kind[t] = "enter"
     THEN Finish(t, "ok")
     ELSE /\ conn' = [conn EXCEPT ![t] = connection]
          /\ Goto(t, "channel")
          /\ UNCHANGED outcome
  /\ UNCHANGED <<connection, status, channels, kind, attempts, casualties>>

-----------------------------------------------------------------------------
(* channel(): the context manager around every tool body *)

\* conn.channel() on a live connection.
ChannelOpens(t) ==
  /\ pc[t] = "channel"
  /\ conn[t] # None /\ status[conn[t]] = "open"
  /\ channels' = channels \cup {<<t, conn[t]>>}
  /\ Goto(t, "body")
  /\ UNCHANGED <<connection, status, kind, conn, attempts, outcome, casualties>>

\* Mutant: channel() connects again for as long as it meets a dead connection.
RetryOnDead(t) ==
  /\ pc[t] = "channel"
  /\ conn[t] # None /\ status[conn[t]] # "open"
  /\ status' = [status EXCEPT ![conn[t]] = "closed"]
  /\ attempts' = [attempts EXCEPT ![t] = 0]
  /\ conn' = [conn EXCEPT ![t] = None]
  /\ Goto(t, "is_open")
  /\ UNCHANGED <<connection, channels, kind, outcome, casualties>>

\* conn.channel() on a dead connection: the AMQPError is converted, not retried.
ChannelFindsDead(t) ==
  /\ pc[t] = "channel"
  /\ conn[t] # None /\ status[conn[t]] # "open"
  /\ Discover(t, conn[t])
  /\ Finish(t, "ChannelError")
  /\ UNCHANGED <<connection, channels, kind, attempts>>

\* No channel number is left; or connect() returned None and None.channel raises.
ChannelRefused(t) ==
  /\ pc[t] = "channel"
  /\ \/ conn[t] = None /\ Finish(t, "Foreign")
     \/ conn[t] # None /\ "limit" \in Faults /\ Finish(t, "ChannelError")
  /\ UNCHANGED <<connection, status, channels, kind, attempts, casualties>>

Raise(t, r) ==
  /\ outcome' = [outcome EXCEPT ![t] = r]
  /\ Goto(t, "finally")

\* The tool body, between yield and the end of the with statement.  A body that
\* does no I/O, or only writes, does not notice that the connection is dead.
Body(t) ==
  /\ pc[t] = "body"
  /\ \/ Raise(t, "ok") /\ UNCHANGED <<status, casualties>>
     \/ "reject" \in Faults /\ Raise(t, "ToolError") /\ UNCHANGED <<status, casualties>>
     \/ "raise" \in Faults /\ Raise(t, "Foreign") /\ UNCHANGED <<status, casualties>>
     \/ /\ status[conn[t]] # "open"
        /\ Discover(t, conn[t])
        /\ Raise(t, "ToolError")
  /\ UNCHANGED <<connection, channels, kind, conn, attempts>>

\* Mutant: the channel is closed at the end of the body, not in a finally clause.
ReleaseOnSuccess(t) ==
  channels' = IF outcome[t] = "ok" THEN channels \ {<<t, conn[t]>>} ELSE channels

ReleaseChannel(t) == channels' = channels \ {<<t, conn[t]>>}

\* The finally clause: ch.close(), its AMQPErrors swallowed; a dead connection is
\* noticed here without failing the call.
CloseChannel(t) ==
  /\ pc[t] = "finally"
  /\ ReleaseChannel(t)
  /\ status' = [status EXCEPT ![conn[t]] = IF @ = "open" THEN "open" ELSE "closed"]
  /\ Finish(t, outcome[t])
  /\ UNCHANGED <<connection, kind, attempts, casualties>>

-----------------------------------------------------------------------------
(* close(): four accesses to the field *)

Close(t) ==
  /\ pc[t] = "close"
  /\ Goto(t, IF HasConnection THEN "close_prop" ELSE "close_clear")
  /\ UNCHANGED <<connection, status, channels, kind, conn, attempts, outcome, casualties>>

CloseProp(t) ==
  /\ pc[t] = "close_prop"
  /\ IF connection = None
     THEN Finish(t, "Foreign")
     ELSE /\ Goto(t, IF ReportsOpen(connection) THEN "close_conn" ELSE "close_clear")
          /\ UNCHANGED <<conn, outcome>>
  /\ UNCHANGED <<connection, status, channels, kind, attempts, casualties>>

\* self._connection.close(), its AMQPErrors swallowed.
CloseConnection(t) ==
  /\ pc[t] = "close_conn"
  /\ IF connection = None
     THEN /\ Finish(t, "Foreign")
          /\ UNCHANGED status
     ELSE /\ status' = [status EXCEPT ![connection] = "closed"]
          /\ Goto(t, "close_clear")
          /\ UNCHANGED <<conn, outcome>>
  /\ UNCHANGED <<connection, channels, kind, attempts, casualties>>

\* self._connection = None, whatever the field holds by now.
CloseClear(t) ==
  /\ pc[t] = "close_clear"
  /\ connection' = None
  /\ Finish(t, "ok")
  /\ UNCHANGED <<status, channels, kind, attempts, casualties>>

-----------------------------------------------------------------------------
(* External: the broker, the network, and pika used from two threads *)

\* A connection dies (broker restart, heartbeat missed while no call ran, network).
Drop(c) ==
  /\ "drop" \in Faults
  /\ status[c] = "open"
  /\ status' = [status EXCEPT ![c] = "lost"]
  /\ UNCHANGED <<connection, channels, pc, kind, conn, attempts, outcome, casualties>>

\* The connection thread t is doing I/O on.
InUse(t) ==
  CASE pc[t] \in {"channel", "body", "finally"} -> conn[t]
    [] pc[t] = "close_conn" -> connection
    [] OTHER -> None

\* Two threads do I/O on one connection.  What pika then does is undefined: an
\* exception that is no AMQPError may escape from any of its calls, and the
\* connection may be unusable afterwards.
Race(t) ==
  /\ "race" \in Faults
  /\ InUse(t) # None
  /\ \E u \in Threads \ {t} : InUse(u) = InUse(t)
  /\ \/ UNCHANGED status
     \/ status' = [status EXCEPT ![InUse(t)] = "closed"]
  /\ IF pc[t] = "body"
     THEN Raise(t, "Foreign") /\ UNCHANGED conn
     ELSE Finish(t, "Foreign")
  /\ UNCHANGED <<connection, channels, kind, attempts, casualties>>

-----------------------------------------------------------------------------

Connect(t) ==
  \/ IsOpen(t) \/ IsOpenProp(t) \/ Params(t)
  \/ \E c \in Conns : DialSucceeds(t, c)
  \/ DialRefused(t) \/ DialFails(t) \/ Store(t) \/ AssertNotNone(t) \/ Return(t)

Channel(t) ==
  ChannelOpens(t) \/ ChannelFindsDead(t) \/ ChannelRefused(t) \/ Body(t) \/ CloseChannel(t)

CloseCall(t) == Close(t) \/ CloseProp(t) \/ CloseConnection(t) \/ CloseClear(t)

\* A thread that is in a call runs on.
Step(t) == Connect(t) \/ Channel(t) \/ CloseCall(t)

\* Threads in is_open(), connect() or close(), not in a channel or a tool body.
InManager(t) == pc[t] \notin {"idle", "channel", "body", "finally"}
Serialized == \A t, u \in Threads : InManager(t) /\ InManager(u) => t = u

Next ==
  /\ \/ \E t \in Threads : (\E k \in CallKinds : Invoke(t, k)) \/ Step(t) \/ Race(t)
     \/ \E c \in Conns : Drop(c)
  /\ overlap' = (overlap \/ ~Serialized')

Spec == Init /\ [][Next]_vars

\* The operating system schedules every thread, and socket_timeout, the heartbeat
\* and blocked_connection_timeout bound each call into pika.
FairSpec == Spec /\ \A t \in Threads : WF_calls(Step(t))

-----------------------------------------------------------------------------
(* Properties.  SharedConnection, HandsOutOpen and NoneNeverUsed are what a    *)
(* single thread can rely on; all others but OnlyLibraryErrors hold for any    *)
(* number of threads.                                                        *)

\* The connection a tool works on: the one connect() has found open, or stored, and goes
\* on to return, up to the end of the finally clause.
Lent(t) ==
  IF kind[t] = "tool" /\ pc[t] \in {"assert", "return"} THEN connection
  ELSE IF pc[t] \in {"channel", "body", "finally"} THEN conn[t] ELSE None

\* The connections it has stored and does not know to be closed.
Known ==
  {c \in Conns : status[c] # "closed" /\ ~\E t \in Threads : pc[t] = "store" /\ conn[t] = c}

\* What the manager promises, in terms of its connections.
Lifecycle == INSTANCE ConnectionLifecycle WITH
  Callers <- Threads,
  held <- connection,
  live <- Known,
  lent <- [t \in Threads |-> Lent(t)]

\* Until two threads are inside is_open(), connect() or close() at once, the manager
\* implements its abstract specification: whatever fails, it opens a connection only when
\* it knows of no other, and lends no other than the one it keeps.
ImplementsLifecycle ==
  Lifecycle!Init /\ [][Lifecycle!Next \/ overlap']_(Lifecycle!vars)

\* The sequential program: _run, called by one thread.
OneThread == \A t, u \in Threads : t = u

\* "One shared connection": a connection the broker holds for this client is the
\* one in the field, or is about to be stored there.  None is forgotten open.
SharedConnection ==
  \A c \in Conns : status[c] = "open" =>
    \/ connection = c
    \/ \E t \in Threads : pc[t] = "store" /\ conn[t] = c

\* connect() hands the channel manager a connection that the client does not know
\* to be dead, and the one the field holds: never None, never a closed one.
HandsOutOpen ==
  \A t \in Threads : pc[t] = "channel" =>
    conn[t] # None /\ conn[t] = connection /\ status[conn[t]] # "closed"

\* No re-read of the field meets a None where the code has excluded it, so no
\* AttributeError or AssertionError escapes from is_open, connect or close.
NoneNeverUsed ==
  \A t \in Threads :
    pc[t] \in {"is_open_prop", "assert", "return", "close_prop", "close_conn"} =>
      connection # None

\* What a lock around is_open(), connect() and close() would be enough for: until two
\* threads are in them at once, there is one connection, and no None is used, though tool
\* bodies run, race and find their connection dead meanwhile (utilities.py:94-144, 167-175).
SharesUntilOverlap == ~overlap => SharedConnection /\ NoneNeverUsed

\* channel() "always closes" the channel it yields: as long as pika is not used
\* from two threads at once, a live channel belongs to a tool body that is running,
\* or to its finally clause, however the body ended.
NoChannelLeak ==
  "race" \notin Faults =>
    \A t \in Threads, c \in Conns :
      <<t, c>> \in channels /\ status[c] = "open" =>
        pc[t] \in {"body", "finally"} /\ conn[t] = c

\* A connection that has died fails at most one call of each thread: the failed call
\* is not retried, but is_open() then knows, and the next call connects afresh.
FailsOncePerDeath == \A t \in Threads, c \in Conns : casualties[t][c] <= 1

\* Where every failure to connect is transient, a call gives up with a
\* RabbitMQConnectionError only after the three attempts tenacity is told to make.
GivesUpAfterThree ==
  Faults \cap {"url", "protocol"} = {} =>
    \A t \in Threads : outcome[t] = "ConnectionError" => attempts[t] = 3

\* Every call returns or raises: the retry loop and the channel manager terminate.
CallsReturn == \A t \in Threads : pc[t] # "idle" ~> pc[t] = "idle"

\* Only errors of the library's own hierarchy reach the caller (exceptions.py:
\* "All exceptions raised by the tools, utilities and toolkit inherit from
\* RabbitMQToolException").
OnlyLibraryErrors == \A t \in Threads : outcome[t] # "Foreign"
=============================================================================
