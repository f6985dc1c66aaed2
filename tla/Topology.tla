------------------------------- MODULE Topology -------------------------------
(***************************************************************************)
(* queue_tools.py and exchange_tools.py: the tools that declare, delete,    *)
(* purge, bind, unbind and look at queues and exchanges, with the arguments *)
(* models.py lets through.                                                  *)
(*                                                                          *)
(* Every call opens a channel, sends one request and waits for the answer:  *)
(* it changes everything it is to change, or is refused (404, 405, 406) and *)
(* raises RabbitMQChannelError.  The answer may be lost with the connection, *)
(* and then the caller does not know which.                                 *)
(*                                                                          *)
(* An agent is a program with a connection manager of its own.  The broker   *)
(* (RabbitMQ) is external, and so is who publishes and subscribes; of a       *)
(* subscriber it matters that it is there, not what it takes.  The broker is *)
(* assumed to handle a request before the caller learns that the connection *)
(* is gone, or never.  Of a binding the model keeps the two ends.           *)
(***************************************************************************)
EXTENDS Integers, FiniteSets

CONSTANTS
  Agents,
  Queues, Exchanges,  \* the names the calls use
  Default,            \* the default exchange, which nobody may change
  Nobody,             \* the owner of a queue that is not exclusive
  Ghost,              \* a connection that is gone, which the broker has not noticed
  Requests,           \* bound: the calls each agent makes, in any order
  MaxMsgs             \* bound: how many messages arrive

\* models.py: ExchangeType.
ExchangeTypes == {"direct", "fanout", "topic", "headers"}

NoCall == [op |-> "none"]
QueueCalls ==
  [op : {"declare_queue"}, queue : Queues, durable : BOOLEAN, exclusive : BOOLEAN,
   auto_delete : BOOLEAN]
    \cup [op : {"delete_queue"}, queue : Queues, if_unused : BOOLEAN, if_empty : BOOLEAN]
    \cup [op : {"purge_queue", "get_queue_info"}, queue : Queues]
    \cup [op : {"bind_queue", "unbind_queue"}, exchange : Exchanges \cup {Default}, queue : Queues]
ExchangeCalls ==
  [op : {"declare_exchange"}, exchange : Exchanges \cup {Default},
   type : ExchangeTypes \cup {"unknown"}, durable : BOOLEAN, auto_delete : BOOLEAN,
   internal : BOOLEAN]
    \cup [op : {"delete_exchange"}, exchange : Exchanges \cup {Default}, if_unused : BOOLEAN]
    \cup [op : {"bind_exchange"}, source : Exchanges \cup {Default}, destination : Exchanges]
Calls == QueueCalls \cup ExchangeCalls \cup [op : {"close_connection"}]

ASSUME NamesAssumption ==
  /\ Queues \cap Exchanges = {} /\ Default \notin Queues \cup Exchanges
  /\ (Queues \cup Exchanges) \cap (Exchanges \X (Queues \cup Exchanges)) = {}
ASSUME OwnersAssumption == Nobody # Ghost /\ Agents \cap {Nobody, Ghost} = {}
ASSUME RequestsAssumption == Requests \in [Agents -> SUBSET Calls]
ASSUME MaxMsgsAssumption == MaxMsgs \in Nat

VARIABLES
  \* the broker
  queues,     \* the queues that exist, each with its attributes and contents
  exchanges,  \* the exchanges that exist, each with its attributes
  bindings,   \* <<exchange, queue or exchange>>
  \* the agents
  link,       \* the manager's connection: "none", "up", or "dead" without being known to be
  sent,       \* the call an agent is in, or NoCall
  reply,      \* the broker's answer, when it has handled the request
  told,       \* the message count the answer carries
  \* history
  promised,   \* queues, exchanges and bindings declared to last, and not removed since
  arrived,    \* how many messages ever were put in a queue; each is known by its number
  removed,    \* the messages that the purge and delete calls of each agent removed
  reported    \* how many each agent was told they removed

counts == <<removed, reported>>
vars == <<queues, exchanges, bindings, link, sent, reply, told, promised, arrived, counts>>

topology == <<queues, exchanges, bindings, promised>>
calls == <<sent, reply, told>>

Nodes == Queues \cup Exchanges
Bindings == Exchanges \X Nodes
Messages == 1..MaxMsgs
QueueAttributes == [durable : BOOLEAN, owner : Agents \cup {Nobody, Ghost}, auto : BOOLEAN]
QueueStates ==
  [durable : BOOLEAN, owner : Agents \cup {Nobody, Ghost}, auto : BOOLEAN,
   messages : SUBSET Messages, consumed : BOOLEAN]
ExchangeStates ==
  [type : ExchangeTypes, durable : BOOLEAN, auto : BOOLEAN, internal : BOOLEAN]

TypeOK ==
  /\ DOMAIN queues \subseteq Queues /\ queues \in [DOMAIN queues -> QueueStates]
  /\ DOMAIN exchanges \subseteq Exchanges /\ exchanges \in [DOMAIN exchanges -> ExchangeStates]
  /\ bindings \subseteq (DOMAIN exchanges) \X (DOMAIN queues \cup DOMAIN exchanges)
  /\ link \in [Agents -> {"none", "up", "dead"}]
  /\ sent \in [Agents -> Calls \cup {NoCall}]
  /\ reply \in [Agents -> {"none", "ok", "refused"}]
  /\ told \in [Agents -> Nat]
  /\ promised \subseteq Nodes \cup Bindings
  /\ arrived \in 0..MaxMsgs
  /\ removed \in [Agents -> SUBSET Messages]
  /\ reported \in [Agents -> Nat]

Init ==
  /\ queues = <<>> /\ exchanges = <<>> /\ bindings = {}
  /\ link = [a \in Agents |-> "none"]
  /\ sent = [a \in Agents |-> NoCall]
  /\ reply = [a \in Agents |-> "none"]
  /\ told = [a \in Agents |-> 0]
  /\ promised = {}
  /\ arrived = 0
  /\ removed = [a \in Agents |-> {}]
  /\ reported = [a \in Agents |-> 0]

-----------------------------------------------------------------------------
(* Helpers: the broker's queues, exchanges and bindings *)

With(f, k, v) == [i \in DOMAIN f \cup {k} |-> IF i = k THEN v ELSE f[i]]
Without(f, ks) == [i \in DOMAIN f \ ks |-> f[i]]

\* The message count of q.
Depth(q) == Cardinality(queues[q].messages)

\* May a use q?  It exists, and is not exclusive to another connection.
Usable(a, q) == q \in DOMAIN queues /\ queues[q].owner \in {a, Nobody}
Locked(a, q) == q \in DOMAIN queues /\ queues[q].owner \notin {a, Nobody}

\* Mutant: a binding stays when what it leads to is gone.
LeadingFrom(ns) == {b \in bindings : b[1] \in ns}

From(x) == {b \in bindings : b[1] = x}
Touching(ns) == {b \in bindings : b[1] \in ns \/ b[2] \in ns}

\* What goes with the nodes ns and the bindings bs: an auto-delete exchange, when the
\* last binding from it does.  The least set that is closed under this.
Closed(S, ns, bs) ==
  /\ ns \subseteq S
  /\ \A x \in DOMAIN exchanges :
       exchanges[x].auto /\ From(x) # {} /\ From(x) \subseteq bs \cup Touching(S) => x \in S
Cascade(ns, bs) == {n \in Nodes : \A S \in SUBSET Nodes : Closed(S, ns, bs) => n \in S}

\* Nodes and bindings are removed, and what goes with them.
Remove(ns, bs) ==
  LET dead == Cascade(ns, bs)
  IN  /\ queues' = Without(queues, dead)
      /\ exchanges' = Without(exchanges, dead)
      /\ bindings' = bindings \ (bs \cup Touching(dead))

\* Note what a caller asked to last, and what one asked to remove.
Promise(ps) == promised' = promised \cup ps
Withdraw(ns, bs) == promised' = promised \ (ns \cup bs \cup Touching(ns))

\* The connection of a is gone; the broker still counts it as the owner of its queues.
Orphaned(a) ==
  [q \in DOMAIN queues |->
     IF queues[q].owner = a THEN [queues[q] EXCEPT !.owner = Ghost] ELSE queues[q]]
Orphan(a) ==
  /\ queues' = Orphaned(a)
  /\ Withdraw({q \in DOMAIN queues : queues[q].owner = a}, {})

Accept(a, n) ==
  /\ reply' = [reply EXCEPT ![a] = "ok"]
  /\ told' = [told EXCEPT ![a] = n]
  /\ UNCHANGED link

\* A channel exception: the call raises, the connection stays.
Refuse(a) ==
  /\ reply' = [reply EXCEPT ![a] = "refused"]
  /\ UNCHANGED <<topology, told, link>>
-----------------------------------------------------------------------------
(* What each tool asks of the broker *)

\* Mutant: durable and auto_delete are mixed up.
AttributesSwapped(a, c) ==
  [durable |-> c.auto_delete, owner |-> IF c.exclusive THEN a ELSE Nobody, auto |-> c.durable]

\* The attributes a declare call of a asks for.
Attributes(a, c) ==
  [durable |-> c.durable, owner |-> IF c.exclusive THEN a ELSE Nobody, auto |-> c.auto_delete]

\* Does a queue have them?
Equivalent(q, as) ==
  queues[q].durable = as.durable /\ queues[q].owner = as.owner /\ queues[q].auto = as.auto

NewQueue(as) ==
  [durable |-> as.durable, owner |-> as.owner, auto |-> as.auto, messages |-> {}, consumed |-> FALSE]

\* Was the caller asking for a queue, or exchange, that only a delete call removes - or,
\* if it is exclusive, the end of the connection?
AskedToLast(c) ==
  ~c.auto_delete /\ (c.durable \/ (c.op = "declare_queue" /\ c.exclusive))

DeclareQueue(a, c) ==
  LET as == Attributes(a, c)
  IN  IF c.queue \in DOMAIN queues /\ ~Equivalent(c.queue, as)
      THEN Refuse(a)
      ELSE /\ queues' = IF c.queue \in DOMAIN queues
                        THEN queues ELSE With(queues, c.queue, NewQueue(as))
           /\ Accept(a, 0)
           /\ Promise(IF AskedToLast(c) THEN {c.queue} ELSE {})
           /\ UNCHANGED <<exchanges, bindings>>

MayDelete(c) ==
  /\ c.if_unused => ~queues[c.queue].consumed
  /\ c.if_empty => queues[c.queue].messages = {}

\* Deleting a queue that does not exist is no error.
DeleteQueue(a, c) ==
  IF c.queue \notin DOMAIN queues
  THEN Accept(a, 0) /\ UNCHANGED topology
  ELSE IF Locked(a, c.queue) \/ ~MayDelete(c)
       THEN Refuse(a)
       ELSE /\ Remove({c.queue}, {})
            /\ Withdraw({c.queue}, {})
            /\ Accept(a, Depth(c.queue))

\* Mutant: the tool looks at the queue instead.
PurgeByLooking(q) == queues

Purged(q) == [queues EXCEPT ![q].messages = {}]

PurgeQueue(a, c) ==
  IF ~Usable(a, c.queue)
  THEN Refuse(a)
  ELSE /\ queues' = Purged(c.queue)
       /\ Accept(a, Depth(c.queue))
       /\ UNCHANGED <<exchanges, bindings, promised>>

\* Mutant: the declare is not passive.
InfoDeclares(a, c) ==
  DeclareQueue(a, [op |-> "declare_queue", queue |-> c.queue, durable |-> FALSE,
                   exclusive |-> FALSE, auto_delete |-> FALSE])

\* A passive declare.
GetQueueInfo(a, c) ==
  IF ~Usable(a, c.queue)
  THEN Refuse(a)
  ELSE Accept(a, Depth(c.queue)) /\ UNCHANGED topology

\* A binding lasts if both ends do.
Bind(a, x, n) ==
  /\ bindings' = bindings \cup {<<x, n>>}
  /\ Accept(a, 0)
  /\ Promise(IF {x, n} \subseteq promised THEN {<<x, n>>} ELSE {})
  /\ UNCHANGED <<queues, exchanges>>

BindQueue(a, c) ==
  IF ~Usable(a, c.queue) \/ c.exchange \notin DOMAIN exchanges
  THEN Refuse(a)
  ELSE Bind(a, c.exchange, c.queue)

\* Removing a binding that does not exist is no error.
UnbindQueue(a, c) ==
  IF Locked(a, c.queue) \/ c.exchange = Default
  THEN Refuse(a)
  ELSE /\ Remove({}, {<<c.exchange, c.queue>>})
       /\ Withdraw({}, {<<c.exchange, c.queue>>})
       /\ Accept(a, 0)

NewExchange(c) ==
  [type |-> c.type, durable |-> c.durable, auto |-> c.auto_delete, internal |-> c.internal]

\* A type the broker does not know costs the connection (503), and every exclusive queue.
DeclareExchange(a, c) ==
  IF c.type \notin ExchangeTypes
  THEN /\ link' = [link EXCEPT ![a] = "dead"]
       /\ queues' = Orphaned(a)
       /\ UNCHANGED <<exchanges, bindings, promised, reply, told>>
  ELSE IF \/ c.exchange = Default
          \/ c.exchange \in DOMAIN exchanges /\ exchanges[c.exchange] # NewExchange(c)
       THEN Refuse(a)
       ELSE /\ exchanges' = With(exchanges, c.exchange, NewExchange(c))
            /\ Accept(a, 0)
            /\ Promise(IF AskedToLast(c) THEN {c.exchange} ELSE {})
            /\ UNCHANGED <<queues, bindings>>

DeleteExchange(a, c) ==
  IF c.exchange = Default \/ (c.if_unused /\ From(c.exchange) # {})
  THEN Refuse(a)
  ELSE /\ Remove({c.exchange}, {})
       /\ Withdraw({c.exchange}, {})
       /\ Accept(a, 0)

BindExchange(a, c) ==
  IF ~({c.source, c.destination} \subseteq DOMAIN exchanges)
  THEN Refuse(a)
  ELSE Bind(a, c.source, c.destination)
-----------------------------------------------------------------------------
(* A call *)

\* Mutant: the type of an exchange is any string.
AnythingGoes(c) == TRUE

\* Otherwise pydantic raises before the tool runs.
Validated(c) == c.op = "declare_exchange" => c.type \in ExchangeTypes

\* The manager connects if it knows of no connection; the request is on its way.
Invoke(a, c) ==
  /\ sent[a] = NoCall
  /\ c.op # "close_connection" /\ Validated(c)
  /\ sent' = [sent EXCEPT ![a] = c]
  /\ reply' = [reply EXCEPT ![a] = "none"]
  /\ told' = [told EXCEPT ![a] = 0]
  /\ link' = [link EXCEPT ![a] = IF @ = "none" THEN "up" ELSE @]
  /\ UNCHANGED <<topology, arrived, counts>>

Asks(a, op) == sent[a].op = op

\* What the broker removes from a queue if it accepts a purge or delete request of a.
Removes(a) ==
  IF (Asks(a, "purge_queue") \/ Asks(a, "delete_queue")) /\ sent[a].queue \in DOMAIN queues
  THEN queues[sent[a].queue].messages
  ELSE {}

\* The broker handles the request of a.
Handle(a) ==
  /\ sent[a] # NoCall /\ reply[a] = "none" /\ link[a] = "up"
  /\ \/ Asks(a, "declare_queue") /\ DeclareQueue(a, sent[a])
     \/ Asks(a, "delete_queue") /\ DeleteQueue(a, sent[a])
     \/ Asks(a, "purge_queue") /\ PurgeQueue(a, sent[a])
     \/ Asks(a, "get_queue_info") /\ GetQueueInfo(a, sent[a])
     \/ Asks(a, "bind_queue") /\ BindQueue(a, sent[a])
     \/ Asks(a, "unbind_queue") /\ UnbindQueue(a, sent[a])
     \/ Asks(a, "declare_exchange") /\ DeclareExchange(a, sent[a])
     \/ Asks(a, "delete_exchange") /\ DeleteExchange(a, sent[a])
     \/ Asks(a, "bind_exchange") /\ BindExchange(a, sent[a])
  /\ removed' = [removed EXCEPT ![a] = IF reply'[a] = "ok" THEN @ \cup Removes(a) ELSE @]
  /\ UNCHANGED <<sent, arrived, reported>>

\* The messages the call of a has removed, according to its answer.
Counted(a) == IF Asks(a, "purge_queue") \/ Asks(a, "delete_queue") THEN told[a] ELSE 0

\* The tool returns what the answer says, or raises.
Receive(a) ==
  /\ reply[a] # "none"
  /\ sent' = [sent EXCEPT ![a] = NoCall]
  /\ reply' = [reply EXCEPT ![a] = "none"]
  /\ told' = [told EXCEPT ![a] = 0]
  /\ reported' = [reported EXCEPT ![a] = @ + Counted(a)]
  /\ UNCHANGED <<topology, link, arrived, removed>>

\* Mutant: the dead connection is kept, and used by the next call.
KeepDead(a) == UNCHANGED link

\* is_open is False from now on, and the next call connects again.
NoticeDead(a) == link' = [link EXCEPT ![a] = "none"]

\* The call finds out that its connection is dead, and raises.
Fail(a) ==
  /\ sent[a] # NoCall /\ link[a] = "dead"
  /\ sent' = [sent EXCEPT ![a] = NoCall]
  /\ reply' = [reply EXCEPT ![a] = "none"]
  /\ told' = [told EXCEPT ![a] = 0]
  /\ NoticeDead(a)
  /\ UNCHANGED <<topology, arrived, counts>>

\* CloseConnectionTool.
CloseConnection(a) ==
  /\ sent[a] = NoCall /\ link[a] # "none"
  /\ link' = [link EXCEPT ![a] = "none"]
  /\ Orphan(a)
  /\ UNCHANGED <<exchanges, bindings, calls, arrived, counts>>
-----------------------------------------------------------------------------
(* External: the network, the broker, publishers and subscribers *)

Lose(a) ==
  /\ link[a] = "up"
  /\ link' = [link EXCEPT ![a] = "dead"]
  /\ Orphan(a)
  /\ UNCHANGED <<exchanges, bindings, calls, arrived, counts>>

\* The broker notices that the owner of an exclusive queue is gone.
Reap(q) ==
  /\ q \in DOMAIN queues /\ queues[q].owner = Ghost
  /\ Remove({q}, {})
  /\ UNCHANGED <<promised, link, calls, arrived, counts>>

\* What is durable survives a restart, of the messages those that are persistent.
Restart ==
  LET keptQs == {q \in DOMAIN queues : queues[q].durable /\ queues[q].owner = Nobody}
      keptXs == {x \in DOMAIN exchanges : exchanges[x].durable}
  IN  /\ \E persistent \in BOOLEAN :
           queues' = [q \in keptQs |-> [queues[q] EXCEPT !.messages = IF persistent THEN @ ELSE {},
                                                         !.consumed = FALSE]]
      /\ exchanges' = [x \in keptXs |-> exchanges[x]]
      /\ bindings' = {b \in bindings : b[1] \in keptXs /\ b[2] \in keptXs \cup keptQs}
      /\ link' = [a \in Agents |-> IF link[a] = "up" THEN "dead" ELSE link[a]]
      /\ Withdraw({q \in DOMAIN queues : queues[q].owner # Nobody}, {})
  /\ UNCHANGED <<calls, arrived, counts>>

Arrive(q) ==
  /\ q \in DOMAIN queues /\ arrived < MaxMsgs
  /\ arrived' = arrived + 1
  /\ queues' = [queues EXCEPT ![q].messages = @ \cup {arrived'}]
  /\ UNCHANGED <<exchanges, bindings, promised, link, calls, counts>>

Subscribe(q) ==
  /\ Usable(Nobody, q) /\ ~queues[q].consumed
  /\ queues' = [queues EXCEPT ![q].consumed = TRUE]
  /\ UNCHANGED <<exchanges, bindings, promised, link, calls, arrived, counts>>

\* The last consumer leaves, and with it an auto-delete queue.
Unsubscribe(q) ==
  /\ q \in DOMAIN queues /\ queues[q].consumed
  /\ IF queues[q].auto
     THEN Remove({q}, {})
     ELSE queues' = [queues EXCEPT ![q].consumed = FALSE] /\ UNCHANGED <<exchanges, bindings>>
  /\ UNCHANGED <<promised, link, calls, arrived, counts>>

Next ==
  \/ \E a \in Agents :
       \/ \E c \in Requests[a] : Invoke(a, c)
       \/ Handle(a) \/ Receive(a) \/ Fail(a) \/ Lose(a)
       \/ [op |-> "close_connection"] \in Requests[a] /\ CloseConnection(a)
  \/ \E q \in Queues : Reap(q) \/ Arrive(q) \/ Subscribe(q) \/ Unsubscribe(q)
  \/ Restart

Spec == Init /\ [][Next]_vars

\* The broker notices a dead connection: its heartbeats stop.
FairSpec == Spec /\ \A q \in Queues : WF_vars(Reap(q))

-----------------------------------------------------------------------------
(* Properties *)

\* What an agent declared to last, and the bindings it made between such ends, exist
\* until a call removes them: no restart takes them, no other agent's refused call, no
\* other queue or exchange that goes; an exclusive queue lasts as long as its connection.
PromisesKept ==
  promised \subseteq DOMAIN queues \cup DOMAIN exchanges \cup bindings

\* Whatever exists was asked for as it is, by some agent: a tool that only looks creates
\* nothing, and two agents that declare the same name differently never get a mixture.
AsAsked ==
  /\ \A q \in DOMAIN queues : \E a \in Agents : \E c \in Requests[a] :
       /\ c.op = "declare_queue" /\ c.queue = q
       /\ c.durable = queues[q].durable /\ c.auto_delete = queues[q].auto
       /\ c.exclusive = (queues[q].owner # Nobody) /\ queues[q].owner \in {a, Nobody, Ghost}
  /\ \A x \in DOMAIN exchanges : \E a \in Agents : \E c \in Requests[a] :
       c.op = "declare_exchange" /\ c.exchange = x /\ exchanges[x] = NewExchange(c)
  /\ \A b \in bindings : \E a \in Agents : \E c \in Requests[a] :
       \/ c.op = "bind_queue" /\ b = <<c.exchange, c.queue>>
       \/ c.op = "bind_exchange" /\ b = <<c.source, c.destination>>

\* The counts that purge and delete calls of an agent return add up to no more than the
\* messages they removed, whatever was lost in between; and no message counts for two
\* agents, or is still, or again, in a queue (queue_tools.py:71-74, 92-94).
CountsAreReal ==
  \A a \in Agents :
    /\ reported[a] + Counted(a) <= Cardinality(removed[a])
    /\ \A b \in Agents \ {a} : removed[a] \cap removed[b] = {}
    /\ \A q \in DOMAIN queues : removed[a] \cap queues[q].messages = {}

MessagesOf(q) == IF q \in DOMAIN queues THEN queues[q].messages ELSE {}

\* A call of a that is to take the messages out of q is accepted; with if_empty it is to
\* take none.
Empties(a, q) ==
  /\ Asks(a, "purge_queue") \/ (Asks(a, "delete_queue") /\ ~sent[a].if_empty)
  /\ sent[a].queue = q
  /\ reply[a] = "none" /\ reply'[a] = "ok"

\* No message leaves a queue that was declared to last, but when the broker restarts, or
\* accepts a purge or a delete of this very queue: not when another agent declares the
\* queue again, the same or differently, or looks at it, nor when a delete with if_empty
\* comes after the message, when the last consumer or a connection goes, or when what is
\* bound to the queue is removed (queue_tools.py:42-52, 69-74).
MessagesStay ==
  [][\A q \in promised \cap Queues :
       \/ MessagesOf(q) \subseteq MessagesOf(q)'
       \/ Restart
       \/ \E a \in Agents : Empties(a, q)]_vars

\* No agent declares the queue of c in another way, or for itself.
Uncontested(a, c) ==
  /\ c.op = "declare_queue"
  /\ \A b \in Agents : \A d \in Requests[b] :
       d.op = "declare_queue" /\ d.queue = c.queue => d = c /\ (c.exclusive => b = a)

Disconnects == \E a \in Agents : link[a] = "up" /\ link'[a] # "up"
Fails(a, c) == sent[a] = c /\ sent'[a] = NoCall /\ reply[a] # "ok"

\* A declare call may be retried: once connections stay up it fails only finitely often,
\* though the first attempt may have succeeded unnoticed, and though an exclusive queue
\* of the lost connection may still be there and locked.
RetrySettles ==
  \A a \in Agents : \A c \in Requests[a] : Uncontested(a, c) =>
    (<>[][~Disconnects]_vars => <>[][~Fails(a, c)]_vars)
=============================================================================
