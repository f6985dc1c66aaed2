----------------------------- MODULE MessageTools -----------------------------
(***************************************************************************)
(* message_tools.py: the synchronous publish, consume, ack, nack and reject  *)
(* tools, against the broker they talk to.                                  *)
(*                                                                          *)
(* Every call runs on a channel of its own (`with self.manager.channel()`),  *)
(* so a delivery tag means something only until the call that got it ends.   *)
(* A call and the broker run concurrently: a frame the client has written is *)
(* handled later, in order, and only some operations wait for the answer     *)
(* (basic_get, basic_publish in confirm mode, ch.close()); the others return *)
(* once the frame is flushed.                                                *)
(*                                                                          *)
(* What SyncConnectionManager does with its connection is modelled there;    *)
(* here a channel opens or does not, and may be lost with its connection.    *)
(* The broker (AMQP 0-9-1 as RabbitMQ implements it) is external.            *)
(***************************************************************************)
EXTENDS Integers, FiniteSets

CONSTANTS
  Agents,      \* whoever runs tools: threads or programs
  Queues,      \* the queues that are declared
  NoQueue,     \* the name of a queue that is not
  Dests,       \* <exchange, routing key> pairs messages are published to
  Routes,      \* the queues each destination is bound to
  Undeclared,  \* the destinations whose exchange does not exist
  Requests,    \* bound: the calls each agent makes, in any order
  Unreliable,  \* may connections fail to open, or die?
  MaxMsgs,     \* bound: how many publish calls are made
  MaxFetch,    \* bound: the largest max_messages an agent asks for
  Nobody       \* the channel of a lost connection the broker still keeps

VARIABLES
  \* the broker
  ready,     \* copies the queues hold ready, as <<queue, message>>
  unacked,   \* deliveries it waits for an acknowledgement of
  given,     \* of each agent's channel: the last delivery tag, i.e. messages handed out
  pending,   \* agents with a written frame the broker has not handled
  \* the calls
  pc, call,
  channel,   \* "error": closed by the broker; "lost": gone with its connection
  reply,     \* the broker's answer, when one is on its way
  arriving,  \* the delivery a basic_get answer carries
  got,       \* the list `messages` of consume
  outcome,   \* how the call ended, or is about to
  inbox,     \* what the agent's last successful auto_ack=False consume returned
  \* history
  issued,    \* publish calls made; each is one message, known by its number
  mine,      \* the message each agent published last
  enqueued,  \* copies the broker ever took
  removed    \* copies it gave up: auto-acked on delivery, or settled

vars == <<ready, unacked, given, pending, pc, call, channel, reply, arriving, got,
          outcome, inbox, issued, mine, enqueued, removed>>

\* What only the broker's handling of a publish, get or settlement changes.
store == <<ready, unacked, given, enqueued, removed>>

\* What only a new call, or the end of one, changes.
request == <<call, inbox, issued, mine>>

Msgs == 1..MaxMsgs
Copies == Queues \X Msgs
Tags == 0..MaxFetch

\* A message of a basic_get answer, and the same while the broker waits for its ack.
Gets == [tag : Nat, copy : Copies]
Deliveries == [channel : Agents \cup {Nobody}, tag : Nat, copy : Copies]

NoCall == [op |-> "none"]
PublishCalls == [op : {"publish"}, dest : Dests, mandatory : BOOLEAN]
ConsumeCalls ==
  [op : {"consume"}, queue : Queues \cup {NoQueue}, max : 1..MaxFetch, auto : BOOLEAN]
SettleCalls ==
  [op : {"ack"}, tag : Tags, multiple : BOOLEAN, requeue : {FALSE}]
    \cup [op : {"nack"}, tag : Tags, multiple : BOOLEAN, requeue : BOOLEAN]
    \cup [op : {"reject"}, tag : Tags, multiple : {FALSE}, requeue : BOOLEAN]
Calls == PublishCalls \cup ConsumeCalls \cup SettleCalls

ASSUME QueuesAssumption == NoQueue \notin Queues
ASSUME DestsAssumption == Routes \in [Dests -> SUBSET Queues] /\ Undeclared \subseteq Dests
ASSUME BoundsAssumption == MaxMsgs \in Nat /\ MaxFetch \in Nat
ASSUME UnreliableAssumption == Unreliable \in BOOLEAN
ASSUME NobodyAssumption == Nobody \notin Agents
ASSUME RequestsAssumption == Requests \in [Agents -> SUBSET Calls]

Labels == {"idle", "open", "write", "flush", "confirm", "get", "wait", "close"}

TypeOK ==
  /\ ready \subseteq Copies
  /\ unacked \subseteq Deliveries
  /\ given \in [Agents -> Nat]
  /\ pending \subseteq Agents
  /\ pc \in [Agents -> Labels]
  /\ call \in [Agents -> Calls \cup {NoCall}]
  /\ channel \in [Agents -> {"none", "open", "error", "lost"}]
  /\ reply \in [Agents -> {"none", "acked", "returned", "empty", "delivered"}]
  /\ arriving \in [Agents -> SUBSET Gets]
  /\ got \in [Agents -> SUBSET Gets]
  /\ outcome \in [Agents -> {"none", "ok", "error"}]
  /\ inbox \in [Agents -> SUBSET Gets]
  /\ issued \in 0..MaxMsgs
  /\ mine \in [Agents -> 0..MaxMsgs]
  /\ enqueued \subseteq Copies
  /\ removed \subseteq Copies

Init ==
  /\ ready = {}
  /\ unacked = {}
  /\ given = [a \in Agents |-> 0]
  /\ pending = {}
  /\ pc = [a \in Agents |-> "idle"]
  /\ call = [a \in Agents |-> NoCall]
  /\ channel = [a \in Agents |-> "none"]
  /\ reply = [a \in Agents |-> "none"]
  /\ arriving = [a \in Agents |-> {}]
  /\ got = [a \in Agents |-> {}]
  /\ outcome = [a \in Agents |-> "none"]
  /\ inbox = [a \in Agents |-> {}]
  /\ issued = 0
  /\ mine = [a \in Agents |-> 0]
  /\ enqueued = {}
  /\ removed = {}

-----------------------------------------------------------------------------
(* Helpers. *)

Goto(a, label) == pc' = [pc EXCEPT ![a] = label]

SetOutcome(a, r) == outcome' = [outcome EXCEPT ![a] = r]

\* An AMQPError is raised inside the with statement: its finally clause comes next.
Raise(a) == Goto(a, "close") /\ SetOutcome(a, "error")

\* The code has reached the return statement inside the with statement.
Succeed(a) == Goto(a, "close") /\ SetOutcome(a, "ok")

\* The client writes a frame, which the broker handles later; on a lost connection it
\* goes nowhere.
Write(a) == pending' = IF channel[a] = "open" THEN pending \cup {a} ELSE pending

\* The broker has handled the frame.
Handled(a) ==
  /\ a \in pending
  /\ channel[a] = "open"
  /\ pending' = pending \ {a}

Answer(a, r) == reply' = [reply EXCEPT ![a] = r]

\* The deliveries the broker waits for on a channel.
Outstanding(ch) == {d \in unacked : d.channel = ch}

CopiesOf(ds) == {d.copy : d \in ds}

\* A channel ends: what is outstanding on it goes back to its place in the queue.
Requeue(ch) ==
  /\ ready' = ready \cup CopiesOf(Outstanding(ch))
  /\ unacked' = unacked \ Outstanding(ch)

\* The broker closes the channel of a with an exception (404, 406).
ChannelException(a) ==
  /\ Requeue(a)
  /\ channel' = [channel EXCEPT ![a] = "error"]

\* Does an acknowledgement for a tag (and all before it, if multiple) cover t?
\* Tag 0 with multiple stands for everything outstanding.
Covers(tag, multiple, t) ==
  IF multiple THEN tag = 0 \/ t <= tag ELSE t = tag

-----------------------------------------------------------------------------
(* A tool is invoked *)

\* Mutant: confirm_delivery() is never called.
ConfirmingNever(c) == FALSE

\* Only `mandatory` publishes wait for the broker to confirm the message.
Confirming(c) == c.mandatory

Start(a, c) ==
  /\ pc[a] = "idle"
  /\ call' = [call EXCEPT ![a] = c]
  /\ got' = [got EXCEPT ![a] = {}]
  /\ SetOutcome(a, "none")

InvokePublish(a, c) ==
  /\ issued < MaxMsgs
  /\ Start(a, c)
  /\ Goto(a, "open")
  /\ issued' = issued + 1
  /\ mine' = [mine EXCEPT ![a] = issued']
  /\ UNCHANGED <<store, pending, channel, reply, arriving, inbox>>

\* Neither body nor json_body: _serialize_payload raises before a channel is opened.
InvokeEmptyPublish(a, c) ==
  /\ pc[a] = "idle"
  /\ call' = [call EXCEPT ![a] = c]
  /\ got' = [got EXCEPT ![a] = {}]
  /\ SetOutcome(a, "error")
  /\ mine' = [mine EXCEPT ![a] = 0]
  /\ UNCHANGED <<store, pending, pc, channel, reply, arriving, inbox, issued>>

InvokeOther(a, c) ==
  /\ Start(a, c)
  /\ Goto(a, "open")
  /\ UNCHANGED <<store, pending, channel, reply, arriving, inbox, issued, mine>>

\* `with self.manager.channel() as ch`: a fresh channel, whose tags start at 1.
OpenChannel(a) ==
  /\ pc[a] = "open"
  /\ channel' = [channel EXCEPT ![a] = "open"]
  /\ given' = [given EXCEPT ![a] = 0]
  /\ Goto(a, IF call[a].op = "consume" THEN "get" ELSE "write")
  /\ UNCHANGED <<ready, unacked, enqueued, removed, pending, reply, arriving, got, outcome,
                 request>>

\* The manager could not connect or open a channel, and raises.
OpenFails(a) ==
  /\ Unreliable
  /\ pc[a] = "open"
  /\ Goto(a, "idle")
  /\ SetOutcome(a, "error")
  /\ UNCHANGED <<store, pending, channel, reply, arriving, got, request>>

-----------------------------------------------------------------------------
(* Publish and settle: one frame, its answer awaited only in confirm mode *)

WriteFrame(a) ==
  /\ pc[a] = "write"
  /\ Write(a)
  /\ Goto(a, IF call[a].op = "publish" /\ Confirming(call[a]) THEN "confirm" ELSE "flush")
  /\ UNCHANGED <<store, channel, reply, arriving, got, outcome, request>>

\* Flushing the socket does not wait for the broker.
Flush(a) ==
  /\ pc[a] = "flush"
  /\ Succeed(a)
  /\ UNCHANGED <<store, pending, channel, reply, arriving, got, request>>

\* While it flushes pika may learn that the channel or the connection is gone.
FlushFails(a) ==
  /\ pc[a] = "flush"
  /\ channel[a] \in {"error", "lost"}
  /\ Raise(a)
  /\ UNCHANGED <<store, pending, channel, reply, arriving, got, request>>

\* basic_publish in confirm mode: a returned message is an UnroutableError.
Confirmed(a) ==
  /\ pc[a] = "confirm"
  /\ reply[a] \in {"acked", "returned"}
  /\ IF reply[a] = "acked" THEN Succeed(a) ELSE Raise(a)
  /\ Answer(a, "none")
  /\ UNCHANGED <<store, pending, channel, arriving, got, request>>

\* The channel or the connection is gone while the call waits for an answer.
WaitFails(a) ==
  /\ pc[a] \in {"confirm", "wait"}
  /\ channel[a] \in {"error", "lost"}
  /\ reply[a] = "none"
  /\ Raise(a)
  /\ UNCHANGED <<store, pending, channel, reply, arriving, got, request>>

-----------------------------------------------------------------------------
(* Consume: for _ in range(max_messages) *)

\* Mutant: one round too many.
FetchedTooMany(a) == Cardinality(got[a]) > call[a].max

\* The loop has made as many rounds as it may.
FetchedAll(a) == Cardinality(got[a]) >= call[a].max

Get(a) ==
  /\ pc[a] = "get"
  /\ ~FetchedAll(a)
  /\ Write(a)
  /\ Goto(a, "wait")
  /\ UNCHANGED <<store, channel, reply, arriving, got, outcome, request>>

\* Mutant: the delivery tag is left out.
AppendUntagged(a) ==
  got' = [got EXCEPT ![a] = @ \cup {[copy |-> d.copy] : d \in arriving[a]}]

\* Mutant: only the last message is kept.
AppendLatest(a) == got' = [got EXCEPT ![a] = arriving[a]]

\* messages.append(...)
Append(a) == got' = [got EXCEPT ![a] = @ \cup arriving[a]]

Receive(a) ==
  /\ pc[a] = "wait"
  /\ reply[a] = "delivered"
  /\ Append(a)
  /\ Goto(a, "get")
  /\ Answer(a, "none")
  /\ arriving' = [arriving EXCEPT ![a] = {}]
  /\ UNCHANGED <<store, pending, channel, outcome, request>>

\* Mutant: the loop asks again.
PollAgain(a) == Goto(a, "get") /\ UNCHANGED outcome

\* break
Break(a) == Succeed(a)

\* method is None: break.
ReceiveEmpty(a) ==
  /\ pc[a] = "wait"
  /\ reply[a] = "empty"
  /\ Break(a)
  /\ Answer(a, "none")
  /\ UNCHANGED <<store, pending, channel, arriving, got, request>>

LoopEnds(a) ==
  /\ pc[a] = "get"
  /\ FetchedAll(a)
  /\ Succeed(a)
  /\ UNCHANGED <<store, pending, channel, reply, arriving, got, request>>

-----------------------------------------------------------------------------
(* The end of a call *)

\* What a successful consume without auto_ack leaves the agent with: tags.
Remember(a) ==
  inbox' = [inbox EXCEPT ![a] =
              IF outcome[a] = "ok" /\ call[a].op = "consume" /\ ~call[a].auto
              THEN got[a] ELSE @]

\* Mutants: the channel is kept; what was fetched is published again instead.
KeepChannel(a) == UNCHANGED <<ready, unacked>>
Republish(a) == ready' = ready \cup CopiesOf(Outstanding(a)) /\ UNCHANGED unacked

\* What ch.close() does at the broker.
ReleaseDeliveries(a) == Requeue(a)

\* ch.close() waits for the broker, which handles earlier frames first.
CloseChannel(a) ==
  /\ pc[a] = "close"
  /\ channel[a] = "open" /\ a \notin pending
  /\ ReleaseDeliveries(a)
  /\ channel' = [channel EXCEPT ![a] = "none"]
  /\ Remember(a)
  /\ Goto(a, "idle")
  /\ UNCHANGED <<given, enqueued, removed, pending, reply, arriving, got, outcome, call,
                 issued, mine>>

\* Nothing is left to close, or ch.close() fails; the error is swallowed either way.
CloseSwallowed(a) ==
  /\ pc[a] = "close"
  /\ channel[a] \in {"error", "lost"}
  /\ channel' = [channel EXCEPT ![a] = "none"]
  /\ Remember(a)
  /\ Goto(a, "idle")
  /\ UNCHANGED <<store, pending, reply, arriving, got, outcome, call, issued, mine>>

-----------------------------------------------------------------------------
(* The broker (external) *)

\* A message goes to every queue its destination is bound to, or to none.
BrokerPublish(a) ==
  /\ Handled(a)
  /\ call[a].op = "publish"
  /\ IF call[a].dest \in Undeclared
     THEN /\ ChannelException(a)
          /\ UNCHANGED <<enqueued, reply>>
     ELSE LET copies == Routes[call[a].dest] \X {mine[a]} IN
          /\ ready' = ready \cup copies
          /\ enqueued' = enqueued \cup copies
          /\ Answer(a, CASE ~Confirming(call[a]) -> "none"
                         [] Confirming(call[a]) /\ copies = {} -> "returned"
                         [] OTHER -> "acked")
          /\ UNCHANGED <<unacked, channel>>
  /\ UNCHANGED <<given, removed, pc, arriving, got, outcome, request>>

\* The copies ready in queue q, and the one it hands out next.
ReadyIn(q) == {c \in ready : c[1] = q}
IsHead(c) == \A other \in ReadyIn(c[1]) : c[2] <= other[2]

\* basic_get(auto_ack): the next message leaves its queue under the next tag.
Deliver(a, c, auto) ==
  LET tag == given[a] + 1 IN
  /\ ready' = ready \ {c}
  /\ given' = [given EXCEPT ![a] = tag]
  /\ arriving' = [arriving EXCEPT ![a] = {[tag |-> tag, copy |-> c]}]
  /\ Answer(a, "delivered")
  /\ IF auto
     THEN /\ removed' = removed \cup {c}
          /\ UNCHANGED unacked
     ELSE /\ unacked' = unacked \cup {[channel |-> a, tag |-> tag, copy |-> c]}
          /\ UNCHANGED removed

\* Mutant: the tool always fetches with auto_ack=True.
AlwaysAutoAck(c) == TRUE

\* The auto_ack argument of basic_get.
AutoAck(c) == c.auto

BrokerGet(a) ==
  /\ Handled(a)
  /\ call[a].op = "consume"
  /\ \E c \in ReadyIn(call[a].queue) : IsHead(c) /\ Deliver(a, c, AutoAck(call[a]))
  /\ UNCHANGED <<enqueued, pc, channel, got, outcome, request>>

BrokerGetNothing(a) ==
  /\ Handled(a)
  /\ call[a].op = "consume"
  /\ ReadyIn(call[a].queue) = {}
  /\ IF call[a].queue = NoQueue
     THEN /\ ChannelException(a)
          /\ UNCHANGED reply
     ELSE /\ Answer(a, "empty")
          /\ UNCHANGED <<ready, unacked, channel>>
  /\ UNCHANGED <<given, enqueued, removed, pc, arriving, got, outcome, request>>

\* basic.ack, basic.nack and basic.reject count only on the channel of the delivery;
\* a tag that is unknown there closes the channel (406 PRECONDITION_FAILED).
Covered(a) ==
  {d \in Outstanding(a) : Covers(call[a].tag, call[a].multiple, d.tag)}

BrokerSettle(a) ==
  /\ Handled(a)
  /\ call[a].op \in {"ack", "nack", "reject"}
  /\ IF Covered(a) = {} /\ ~(call[a].multiple /\ call[a].tag = 0)
     THEN /\ ChannelException(a)
          /\ UNCHANGED removed
     ELSE /\ unacked' = unacked \ Covered(a)
          /\ IF call[a].requeue
             THEN ready' = ready \cup CopiesOf(Covered(a)) /\ UNCHANGED removed
             ELSE removed' = removed \cup CopiesOf(Covered(a)) /\ UNCHANGED ready
          /\ UNCHANGED channel
  /\ UNCHANGED <<given, enqueued, pc, reply, arriving, got, outcome, request>>

\* A delivery, once the connection of a is gone.
CutOff(a, d) == IF d.channel = a THEN [d EXCEPT !.channel = Nobody] ELSE d

\* The connection dies under a call.  A frame not yet handled and an answer not yet
\* read may go with it; the broker keeps the deliveries until it notices.
Lose(a) ==
  /\ Unreliable
  /\ channel[a] = "open"
  /\ channel' = [channel EXCEPT ![a] = "lost"]
  /\ pending' = pending \ {a}
  /\ unacked' = {CutOff(a, d) : d \in unacked}
  /\ \/ UNCHANGED <<reply, arriving>>
     \/ Answer(a, "none") /\ arriving' = [arriving EXCEPT ![a] = {}]
  /\ UNCHANGED <<ready, given, enqueued, removed, pc, got, outcome, request>>

Reap ==
  /\ Outstanding(Nobody) # {}
  /\ Requeue(Nobody)
  /\ UNCHANGED <<given, enqueued, removed, pending, pc, channel, reply, arriving, got,
                 outcome, request>>

-----------------------------------------------------------------------------

Invoke(a) ==
  \/ \E c \in Requests[a] \cap PublishCalls : InvokePublish(a, c) \/ InvokeEmptyPublish(a, c)
  \/ \E c \in Requests[a] \ PublishCalls : InvokeOther(a, c)

\* The thread that runs the call of a.
Client(a) ==
  \/ OpenChannel(a) \/ OpenFails(a)
  \/ WriteFrame(a) \/ Flush(a) \/ FlushFails(a) \/ Confirmed(a) \/ WaitFails(a)
  \/ Get(a) \/ Receive(a) \/ ReceiveEmpty(a) \/ LoopEnds(a)
  \/ CloseChannel(a) \/ CloseSwallowed(a)

\* The broker's process for the channel of a.
Broker(a) == BrokerPublish(a) \/ BrokerGet(a) \/ BrokerGetNothing(a) \/ BrokerSettle(a)

Next ==
  \/ \E a \in Agents : Invoke(a) \/ Client(a) \/ Broker(a) \/ Lose(a)
  \/ Reap

Spec == Init /\ [][Next]_vars

\* Threads are scheduled, the broker answers what reaches it, and notices in the end
\* that a connection is gone (heartbeat).  Nobody has to invoke anything.
FairSpec ==
  /\ Spec
  /\ \A a \in Agents : WF_vars(Client(a)) /\ WF_vars(Broker(a))
  /\ WF_vars(Reap)

-----------------------------------------------------------------------------
(* Properties *)

Idle(a) == pc[a] = "idle"
Succeeded(a, op) == Idle(a) /\ outcome[a] = "ok" /\ call[a].op = op

\* Every copy the broker ever took is in exactly one place: ready, held for one
\* channel under one tag, or given up.  No interleaving of calls, closing channels and
\* lost connections duplicates a copy or makes one vanish.
Conservation ==
  /\ enqueued = ready \cup CopiesOf(unacked) \cup removed
  /\ ready \cap CopiesOf(unacked) = {}
  /\ removed \cap (ready \cup CopiesOf(unacked)) = {}
  /\ \A d, e \in unacked : d.copy = e.copy => d = e

\* Between its calls an agent has no channel with deliveries on it.  What consume took with
\* auto_ack=False went back to its queue with the tool's channel (utilities.py:159-164) or,
\* if the connection died, is left to the broker, which requeues it when it notices
\* (UnackedComesBack).
NothingHeldBetweenCalls == \A a \in Agents : Idle(a) => Outstanding(a) = {}

\* A publish with mandatory=True that reports "published" has been put in a queue.
ConfirmedIsRouted ==
  \A a \in Agents :
    Succeeded(a, "publish") /\ call[a].mandatory => \E q \in Queues : <<q, mine[a]>> \in enqueued

\* A consume that returns has returned everything the broker took from the queue for
\* it, each copy once, and no more than it was asked for.
ConsumeReportsAll ==
  \A a \in Agents : Succeeded(a, "consume") =>
    /\ {d.tag : d \in got[a]} = 1..given[a]
    /\ \A d, e \in got[a] : d.copy = e.copy => d = e
    /\ given[a] <= call[a].max

\* A copy leaves the broker only by a delivery that needs no acknowledgement: if it
\* was not the answer to a consume with auto_ack=True, it is never given up.
AutoAckOnlyRemoves ==
  [][\A c \in removed' \ removed :
       \E a \in Agents : call[a].op = "consume" /\ call[a].auto /\ c \in CopiesOf(arriving'[a])]_vars

\* Every call returns or raises, and what was fetched without acknowledgement becomes
\* available again even if the connection is lost.
CallsReturn == \A a \in Agents : ~Idle(a) ~> Idle(a)
UnackedComesBack == \A c \in Copies : c \in CopiesOf(unacked) ~> c \in ready

\* A consume with auto_ack=True, whose answers the broker does not give twice.
Takes(a) == call[a].op = "consume" /\ call[a].auto

\* The call of a has raised, or waits for an answer that went with its channel.
Doomed(a) ==
  \/ outcome[a] = "error"
  \/ pc[a] = "wait" /\ channel[a] \in {"error", "lost"} /\ reply[a] = "none"

Taking(a) == Takes(a) /\ ~Idle(a) /\ ~Doomed(a)
Holding(a) == IF Taking(a) THEN CopiesOf(got[a] \cup arriving[a]) ELSE {}

Returned(a) ==
  IF Takes(a) /\ Idle(a) /\ outcome[a] = "ok" THEN {CopiesOf(got[a])} ELSE {}

Box == INSTANCE Mailbox WITH
  known <- enqueued,
  stored <- ready \cup CopiesOf(unacked),
  taking <- {a \in Agents : Taking(a)},
  holding <- [a \in Agents |-> Holding(a)],
  returned <- [a \in Agents |-> Returned(a)]

\* The tools are a Mailbox: a message is taken by one call at most, which returns all it
\* has taken or fails; fetching without auto_ack, settling, closing channels, and losing
\* what is not taken, do not show (message_tools.py:139-170).
ImplementsMailbox == Box!Spec

\* A message acknowledged successfully, by the tag consume returned for it, is no
\* longer in its queue.
AckedIsSettled ==
  \A a \in Agents : Succeeded(a, "ack") =>
    \A d \in inbox[a] : Covers(call[a].tag, call[a].multiple, d.tag) => d.copy \notin ready
=============================================================================
