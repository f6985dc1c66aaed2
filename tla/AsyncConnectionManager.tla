------------------------ MODULE AsyncConnectionManager ------------------------
(***************************************************************************)
(* utilities.py: AsyncConnectionManager, the lazy wrapper around one robust  *)
(* aio-pika connection, and message_tools.py: AsyncPublishMessageTool, the   *)
(* only tool that uses it.                                                  *)
(*                                                                          *)
(* Everything runs in one event loop, so a step of a task is what it does    *)
(* between two awaits: a check and an assignment without an await in between *)
(* are one step, an await lets any other task run.  A call is "publish" (the *)
(* tool), "enter" (`async with manager:`) or "close" (close(), __aexit__).   *)
(*                                                                          *)
(* aio-pika is external.  A robust connection that breaks down reconnects by *)
(* itself; until it is closed it does not report itself closed.             *)
(***************************************************************************)
EXTENDS Naturals

CONSTANTS
  Tasks,     \* the tasks of the event loop that make calls
  Conns,     \* connections the broker is willing to hold at the same time
  None,      \* Python's None
  Messages,  \* what may be published: is it mandatory, does it lead to a queue?
  Faults     \* the faults that may occur, a subset of FaultKinds

FaultKinds == {
  "tls",        \* build_ssl_context raises
  "refuse",     \* aio-pika's AMQPConnectionError while connecting
  "reset",      \* a ConnectionError of Python's that is no AMQPError
  "protocol",   \* any other AMQPError while connecting
  "timeout",    \* connect_robust runs into its timeout
  "break",      \* an established connection breaks down
  "limit",      \* the connection has no free channel
  "reject",     \* the broker refuses what the tool asks for
  "cancel"}     \* a task is cancelled while it awaits

ASSUME NoneAssumption == None \notin Conns
ASSUME MessagesAssumption == Messages \subseteq [mandatory : BOOLEAN, routable : BOOLEAN]
ASSUME FaultsAssumption == Faults \subseteq FaultKinds

VARIABLES
  connection,  \* the field self._connection
  status,      \* of each connection; "down": broken, and trying to reconnect
  channels,    \* <<t, c>>: a channel that t opened on c and has not closed
  pc,          \* what each task awaits
  kind,        \* the call each task is in
  message,     \* what a publish call sends
  conn,        \* the local conn of channel(), the connection close() awaits
  attempts,    \* attempts made by the tenacity loop of this call
  outcome,     \* how the call ended, or is about to
  routed,      \* history: has the broker put the message of this call in a queue?
  overlap      \* history: has a task dialed or closed while another one did?

vars ==
  <<connection, status, channels, pc, kind, message, conn, attempts, outcome, routed, overlap>>

CallKinds == {"publish", "enter", "close"}

Labels == {"idle", "start", "dial", "channel", "exchange", "publish", "finally", "closing"}

Outcomes == {"none", "ok", "ConnectionError", "ChannelError", "MessageError", "Foreign",
             "Cancelled"}

TypeOK ==
  /\ connection \in Conns \cup {None}
  /\ status \in [Conns -> {"closed", "open", "down", "closing"}]
  /\ channels \subseteq Tasks \X Conns
  /\ pc \in [Tasks -> Labels]
  /\ kind \in [Tasks -> CallKinds]
  /\ message \in [Tasks -> Messages]
  /\ conn \in [Tasks -> Conns \cup {None}]
  /\ attempts \in [Tasks -> 0..3]
  /\ outcome \in [Tasks -> Outcomes]
  /\ routed \in [Tasks -> BOOLEAN]
  /\ overlap \in BOOLEAN

-----------------------------------------------------------------------------
(* Helpers. *)

\* Neither closed nor being closed: what aio-pika's is_closed denies.
Alive(c) == status[c] \in {"open", "down"}

\* Mutants: is_open() only asks whether there is a connection; or it asks whether the
\* connection is up, rather than not closed.
HasConnection == connection # None
IsUp == connection # None /\ status[connection] = "open"

IsOpen == connection # None /\ Alive(connection)

\* Mutant: one attempt more.
StopAfterFour(n) == n >= 4

\* stop_after_attempt(3), asked after attempt n has failed.
StopAfterAttempt(n) == n >= 3

CountAttempt(t) == attempts' = [attempts EXCEPT ![t] = @ + 1]

\* A connection the broker can hand out, and no reference to an earlier one is left.
Free(c) ==
  /\ status[c] = "closed"
  /\ connection # c
  /\ \A t \in Tasks : conn[t] # c

Goto(t, label) == pc' = [pc EXCEPT ![t] = label]

\* A task is in one of the two awaits that change the field or the connection in it.
Busy(t) == pc[t] \in {"dial", "closing"}

\* t enters such an await; note whether another task is in one.
EnterAwait(t, label) ==
  /\ Goto(t, label)
  /\ overlap' = (overlap \/ \E u \in Tasks \ {t} : Busy(u))

\* The call of t returns, or raises, with outcome r.
Finish(t, r) ==
  /\ Goto(t, "idle")
  /\ outcome' = [outcome EXCEPT ![t] = r]
  /\ conn' = [conn EXCEPT ![t] = None]

\* The body of the tool is done, or raises: the finally clause comes next.
Leave(t, r) ==
  /\ Goto(t, "finally")
  /\ outcome' = [outcome EXCEPT ![t] = r]

\* connect() returns c, and channel() goes on with it, without an await in between.
Handed(t, c) ==
  IF kind[t] = "enter"
  THEN Finish(t, "ok")
  ELSE /\ Goto(t, "channel")
       /\ conn' = [conn EXCEPT ![t] = c]
       /\ UNCHANGED outcome

Init ==
  /\ connection = None
  /\ status = [c \in Conns |-> "closed"]
  /\ channels = {}
  /\ pc = [t \in Tasks |-> "idle"]
  /\ kind = [t \in Tasks |-> "enter"]
  /\ message \in [Tasks -> Messages]
  /\ conn = [t \in Tasks |-> None]
  /\ attempts = [t \in Tasks |-> 0]
  /\ outcome = [t \in Tasks |-> "none"]
  /\ routed = [t \in Tasks |-> FALSE]
  /\ overlap = FALSE

\* A task begins a call; what the call does comes when the loop runs it.
Invoke(t, k, m) ==
  /\ pc[t] = "idle"
  /\ Goto(t, "start")
  /\ kind' = [kind EXCEPT ![t] = k]
  /\ message' = [message EXCEPT ![t] = m]
  /\ attempts' = [attempts EXCEPT ![t] = 0]
  /\ outcome' = [outcome EXCEPT ![t] = "none"]
  /\ routed' = [routed EXCEPT ![t] = FALSE]
  /\ UNCHANGED <<connection, status, channels, conn, overlap>>

\* Neither body nor json_body: _serialize_payload raises before the first await.
InvokeEmpty(t) ==
  /\ pc[t] = "idle"
  /\ kind' = [kind EXCEPT ![t] = "publish"]
  /\ attempts' = [attempts EXCEPT ![t] = 0]
  /\ routed' = [routed EXCEPT ![t] = FALSE]
  /\ Finish(t, "MessageError")
  /\ UNCHANGED <<connection, status, channels, message, overlap>>

-----------------------------------------------------------------------------
(* connect() *)

\* Up to the first await: an open connection is returned, or the dialing begins.
ConnectBegins(t) ==
  /\ pc[t] = "start" /\ kind[t] # "close"
  /\ IF IsOpen
     THEN Handed(t, connection) /\ UNCHANGED overlap
     ELSE \/ EnterAwait(t, "dial") /\ UNCHANGED <<conn, outcome>>
          \/ "tls" \in Faults /\ Finish(t, "Foreign") /\ UNCHANGED overlap
  /\ UNCHANGED <<connection, status, channels, kind, message, attempts, routed>>

\* connect_robust returns: the connection is stored, whatever the field holds by now.
DialSucceeds(t, c) ==
  /\ pc[t] = "dial"
  /\ Free(c)
  /\ status' = [status EXCEPT ![c] = "open"]
  /\ connection' = c
  /\ CountAttempt(t)
  /\ Handed(t, c)
  /\ UNCHANGED <<channels, kind, message, routed, overlap>>

\* An error tenacity retries; after the last attempt it is raised as result r.
Retry(t, r) ==
  /\ CountAttempt(t)
  /\ IF StopAfterAttempt(attempts[t] + 1)
     THEN Finish(t, r)
     ELSE UNCHANGED <<pc, conn, outcome>>

\* An AMQPError is converted in the end; a bare ConnectionError is retried as well, but
\* the except clause does not know it.
DialRefused(t) ==
  /\ pc[t] = "dial"
  /\ \/ /\ "refuse" \in Faults \/ \A c \in Conns : ~Free(c)
        /\ Retry(t, "ConnectionError")
     \/ "reset" \in Faults /\ Retry(t, "Foreign")
  /\ UNCHANGED <<connection, status, channels, kind, message, routed, overlap>>

\* An error tenacity does not retry.
DialFails(t) ==
  /\ pc[t] = "dial"
  /\ \/ "protocol" \in Faults /\ Finish(t, "ConnectionError")
     \/ "timeout" \in Faults /\ Finish(t, "Foreign")
  /\ CountAttempt(t)
  /\ UNCHANGED <<connection, status, channels, kind, message, routed, overlap>>

-----------------------------------------------------------------------------
(* channel() and the tool *)

\* A channel opens once the connection is up.  A named exchange is looked up first.
ChannelOpens(t) ==
  /\ pc[t] = "channel"
  /\ status[conn[t]] = "open"
  /\ channels' = channels \cup {<<t, conn[t]>>}
  /\ \E next \in {"exchange", "publish"} : Goto(t, next)
  /\ UNCHANGED <<connection, status, kind, message, conn, attempts, outcome, routed, overlap>>

\* Mutant: a channel that does not open is asked for again, from the beginning.
ChannelRetried(t) ==
  /\ pc[t] = "channel"
  /\ status[conn[t]] # "open" \/ "limit" \in Faults
  /\ Goto(t, "start")
  /\ conn' = [conn EXCEPT ![t] = None]
  /\ attempts' = [attempts EXCEPT ![t] = 0]
  /\ UNCHANGED <<connection, status, channels, kind, message, outcome, routed, overlap>>

\* Whatever is raised instead is converted, and not retried.
ChannelFails(t) ==
  /\ pc[t] = "channel"
  /\ status[conn[t]] # "open" \/ "limit" \in Faults
  /\ Finish(t, "ChannelError")
  /\ UNCHANGED <<connection, status, channels, kind, message, attempts, routed, overlap>>

\* get_exchange(ensure=True) asks the broker.
GetExchange(t) ==
  /\ pc[t] = "exchange"
  /\ status[conn[t]] = "open"
  /\ \/ Goto(t, "publish") /\ UNCHANGED outcome
     \/ "reject" \in Faults /\ Leave(t, "MessageError")
  /\ UNCHANGED <<connection, status, channels, kind, message, conn, attempts, routed, overlap>>

\* publish() awaits the broker's confirmation.  A mandatory message that is returned is
\* confirmed as well, and raises nothing unless the channel has on_return_raises.
Publish(t) ==
  /\ pc[t] = "publish"
  /\ status[conn[t]] = "open"
  /\ \/ Leave(t, "ok") /\ routed' = [routed EXCEPT ![t] = message[t].routable]
     \/ "reject" \in Faults /\ Leave(t, "MessageError") /\ UNCHANGED routed
  /\ UNCHANGED <<connection, status, channels, kind, message, conn, attempts, overlap>>

\* What was awaited fails with its connection; for a publish the message may have
\* arrived.  The error may be an AMQPError, which is converted, or none.
BodyFails(t) ==
  /\ pc[t] \in {"exchange", "publish"}
  /\ status[conn[t]] # "open"
  /\ Leave(t, "MessageError") \/ Leave(t, "Foreign")
  /\ \/ UNCHANGED routed
     \/ pc[t] = "publish" /\ routed' = [routed EXCEPT ![t] = message[t].routable]
  /\ UNCHANGED <<connection, status, channels, kind, message, conn, attempts, overlap>>

\* Mutant: the channel is closed at the end of the body, not in a finally clause.
ReleaseOnSuccess(t) ==
  channels' = IF outcome[t] = "ok" THEN channels \ {<<t, conn[t]>>} ELSE channels

\* channel.close(); a robust channel that was closed is not restored.
ReleaseChannel(t) == channels' = channels \ {<<t, conn[t]>>}

\* The finally clause.
CloseChannel(t) ==
  /\ pc[t] = "finally"
  /\ status[conn[t]] = "open"
  /\ ReleaseChannel(t)
  /\ Finish(t, outcome[t])
  /\ UNCHANGED <<connection, status, kind, message, attempts, routed, overlap>>

\* On a connection that is gone, closing the channel may raise, and what it raises
\* replaces the outcome of the body.
CloseChannelFails(t) ==
  /\ pc[t] = "finally"
  /\ status[conn[t]] # "open"
  /\ ReleaseChannel(t)
  /\ \E r \in {outcome[t], "MessageError", "Foreign"} : Finish(t, r)
  /\ UNCHANGED <<connection, status, kind, message, attempts, routed, overlap>>

-----------------------------------------------------------------------------
(* close() *)

\* Up to the await: the connection reports itself closed from here on.
CloseBegins(t) ==
  /\ pc[t] = "start" /\ kind[t] = "close"
  /\ IF IsOpen
     THEN /\ status' = [status EXCEPT ![connection] = "closing"]
          /\ conn' = [conn EXCEPT ![t] = connection]
          /\ EnterAwait(t, "closing")
          /\ UNCHANGED <<connection, outcome>>
     ELSE /\ connection' = None
          /\ Finish(t, "ok")
          /\ UNCHANGED <<status, overlap>>
  /\ UNCHANGED <<channels, kind, message, attempts, routed>>

\* The connection is closed.
Closed(c) ==
  /\ status' = [status EXCEPT ![c] = "closed"]
  /\ channels' = {ch \in channels : ch[2] # c}

\* After it, with or without an exception: the field is cleared, whatever it holds.
CloseEnds(t) ==
  /\ pc[t] = "closing"
  /\ Closed(conn[t])
  /\ connection' = None
  /\ Finish(t, "ok")
  /\ UNCHANGED <<kind, message, attempts, routed, overlap>>

-----------------------------------------------------------------------------
(* External: the network, the broker, and whoever cancels a task *)

Break(c) ==
  /\ "break" \in Faults
  /\ status[c] = "open"
  /\ status' = [status EXCEPT ![c] = "down"]
  /\ UNCHANGED <<connection, channels, pc, kind, message, conn, attempts, outcome, routed, overlap>>

\* The robust connection is back, and with it the channels that were not closed.
Reconnect(c) ==
  /\ status[c] = "down"
  /\ status' = [status EXCEPT ![c] = "open"]
  /\ UNCHANGED <<connection, channels, pc, kind, message, conn, attempts, outcome, routed, overlap>>

\* CancelledError is raised at the await.  aio-pika is assumed to leave nothing half
\* open: no connection or channel that nobody gets, none that is only half closed.
Cancel(t) ==
  /\ "cancel" \in Faults
  /\ \/ /\ pc[t] \in {"dial", "channel"}
        /\ Finish(t, "Cancelled")
        /\ UNCHANGED <<status, channels>>
     \/ /\ pc[t] \in {"exchange", "publish"}
        /\ Leave(t, "Cancelled")
        /\ UNCHANGED <<status, channels, conn>>
     \/ /\ pc[t] = "finally"
        /\ ReleaseChannel(t)
        /\ Finish(t, "Cancelled")
        /\ UNCHANGED status
     \/ /\ pc[t] = "closing"
        /\ Closed(conn[t])
        /\ Finish(t, "Cancelled")
  /\ UNCHANGED <<connection, kind, message, attempts, routed, overlap>>

-----------------------------------------------------------------------------

Connect(t) ==
  \/ ConnectBegins(t)
  \/ \E c \in Conns : DialSucceeds(t, c)
  \/ DialRefused(t) \/ DialFails(t)

Tool(t) ==
  \/ ChannelOpens(t) \/ ChannelFails(t)
  \/ GetExchange(t) \/ Publish(t) \/ BodyFails(t)
  \/ CloseChannel(t) \/ CloseChannelFails(t)

\* The event loop runs a task whose await is over.
Step(t) == Connect(t) \/ Tool(t) \/ CloseBegins(t) \/ CloseEnds(t)

Next ==
  \/ \E t \in Tasks :
       \/ \E k \in CallKinds \ {"publish"} : Invoke(t, k, message[t])
       \/ \E m \in Messages : Invoke(t, "publish", m)
       \/ InvokeEmpty(t) \/ Step(t) \/ Cancel(t)
  \/ \E c \in Conns : Break(c) \/ Reconnect(c)

Spec == Init /\ [][Next]_vars

\* The call awaits something that a connection which is down does not deliver: the
\* robust connection restores it, and the code sets no timeout.
Waits(t) ==
  pc[t] \in {"channel", "exchange", "publish", "finally"} /\ status[conn[t]] = "down"

\* connect_robust has a timeout, a closed connection raises in whoever awaits it, and
\* the loop runs every task that can go on.
FairSpec == Spec /\ \A t \in Tasks : WF_vars(Step(t) /\ ~Waits(t))

-----------------------------------------------------------------------------
(* Properties *)

\* The connection a call works on, from connect() to its finally clause.
Lent(t) ==
  IF pc[t] \in {"channel", "exchange", "publish", "finally"} THEN conn[t] ELSE None

\* The connections that are neither closed nor being closed.
Living == {c \in Conns : Alive(c)}

\* What the manager promises, in terms of its connections.
Lifecycle == INSTANCE ConnectionLifecycle WITH
  Callers <- Tasks,
  held <- connection,
  live <- Living,
  lent <- [t \in Tasks |-> Lent(t)]

\* Until a task dials or closes while another one does, the manager implements its
\* abstract specification, however many tasks call it and however they interleave.
ImplementsLifecycle ==
  Lifecycle!Init /\ [][Lifecycle!Next \/ overlap']_(Lifecycle!vars)

\* A connection that lives, and would reconnect for ever, is the one in the field, or
\* is being closed: none is forgotten, unless two tasks dialed or closed at a time.
SharedConnection == ~overlap => \A c \in Conns : Alive(c) => connection = c

\* "A single (and a single async) connection manager ... so the agent reuses one connection"
\* (README.md): the same with nothing said about overlap.  It does not hold of tasks that
\* interleave at the awaits of connect() and close().
SingleConnection == \A c \in Conns : Alive(c) => connection = c

\* channel() is given only a connection that nobody has begun to close, though another
\* task that awaits its close() still has it in the field.
NeverHandsOutClosing ==
  [][\A t \in Tasks : pc[t] # "channel" /\ pc'[t] = "channel" => Alive(conn[t])']_vars

\* A channel that a robust connection keeps alive belongs to a tool that is running, or
\* to its finally clause, also if its task was cancelled.
NoChannelLeak ==
  \A t \in Tasks, c \in Conns :
    <<t, c>> \in channels => pc[t] \in {"exchange", "publish", "finally"} /\ conn[t] = c

\* Once connections stay up, every call returns or raises.
ReturnsWhenStable ==
  <>[](\A c \in Conns : status[c] # "down") =>
    \A t \in Tasks : pc[t] # "idle" ~> pc[t] = "idle"

\* A publish with mandatory=True that reports "published" has been put in a queue: it is
\* the "async variant" of a tool of which MessageTools shows that (ConfirmedIsRouted).
MandatoryIsRouted ==
  \A t \in Tasks :
    pc[t] = "idle" /\ kind[t] = "publish" /\ outcome[t] = "ok" /\ message[t].mandatory =>
      routed[t]
=============================================================================
