---------------------------- MODULE TopologyProofs ----------------------------
(***************************************************************************)
(* Theorems about Topology, for any number of agents, names and messages.    *)
(*                                                                          *)
(* That promises are kept is not inductive as it stands.  The invariant adds *)
(* what a promised queue or exchange is like (it is not auto-delete, it      *)
(* survives a restart or is locked by a living connection), that a promised  *)
(* binding has promised ends, and that what an agent sends has been          *)
(* validated.  The heart of the proof is that a cascade of auto-deletions,   *)
(* whatever starts it, stops short of everything that is not auto-delete.    *)
(***************************************************************************)
EXTENDS Topology, FiniteSetTheorems, TLAPS

BrokerOK ==
  /\ DOMAIN queues \subseteq Queues /\ queues \in [DOMAIN queues -> QueueStates]
  /\ DOMAIN exchanges \subseteq Exchanges /\ exchanges \in [DOMAIN exchanges -> ExchangeStates]
  /\ bindings \subseteq (DOMAIN exchanges) \X (DOMAIN queues \cup DOMAIN exchanges)

AnswersOK ==
  /\ link \in [Agents -> {"none", "up", "dead"}]
  /\ reply \in [Agents -> {"none", "ok", "refused"}]
  /\ told \in [Agents -> Nat]

PromisedOK == promised \subseteq Nodes \cup Bindings

\* The rest of TypeOK.
CallsOK ==
  /\ sent \in [Agents -> Calls \cup {NoCall}]
  /\ arrived \in 0..MaxMsgs
  /\ removed \in [Agents -> SUBSET Messages]
  /\ reported \in [Agents -> Nat]

SentInv ==
  \A a \in Agents : sent[a] # NoCall =>
    sent[a] \in Requests[a] /\ sent[a].op # "close_connection" /\ Validated(sent[a])

\* What lasts until it is removed.
QueueLasts(q) ==
  /\ q \in DOMAIN queues
  /\ ~queues[q].auto /\ queues[q].owner # Ghost
  /\ queues[q].owner = Nobody => queues[q].durable
ExchangeLasts(x) == x \in DOMAIN exchanges /\ ~exchanges[x].auto /\ exchanges[x].durable

EndsPromised == \A b \in promised \cap Bindings : b[1] \in promised /\ b[2] \in promised

PromiseInv ==
  /\ \A q \in promised \cap Queues : QueueLasts(q)
  /\ \A x \in promised \cap Exchanges : ExchangeLasts(x)
  /\ promised \cap Bindings \subseteq bindings
  /\ EndsPromised

BrokerInv == BrokerOK /\ PromisedOK /\ PromiseInv

Inv == BrokerInv /\ AnswersOK /\ CallsOK /\ SentInv
-----------------------------------------------------------------------------
(* Lemmas about the helpers *)

\* What a queue holds can be counted.
LEMMA DepthType ==
  ASSUME BrokerOK, NEW q \in DOMAIN queues
  PROVE  IsFiniteSet(queues[q].messages) /\ Depth(q) \in Nat
<1>1. queues[q].messages \subseteq 1..MaxMsgs
  BY DEF BrokerOK, QueueStates, Messages
<1>2. IsFiniteSet(1..MaxMsgs)
  BY MaxMsgsAssumption, FS_Interval
<1> QED
  BY <1>1, <1>2, FS_Subset, FS_CardinalityType DEF Depth

LEMMA TypeParts == TypeOK <=> BrokerOK /\ AnswersOK /\ PromisedOK /\ CallsOK
  BY DEF TypeOK, BrokerOK, AnswersOK, PromisedOK, CallsOK

\* The fields of a call (models.py:27-114).
LEMMA CallFields ==
  ASSUME NEW c \in Calls
  PROVE  /\ c.op = "declare_queue" => /\ c.queue \in Queues /\ c.durable \in BOOLEAN
                                      /\ c.exclusive \in BOOLEAN /\ c.auto_delete \in BOOLEAN
         /\ c.op \in {"delete_queue", "purge_queue", "get_queue_info"} => c.queue \in Queues
         /\ c.op \in {"bind_queue", "unbind_queue"} =>
              c.queue \in Queues /\ c.exchange \in Exchanges \cup {Default}
         /\ c.op = "declare_exchange" => /\ c.exchange \in Exchanges \cup {Default}
                                         /\ c.durable \in BOOLEAN /\ c.auto_delete \in BOOLEAN
                                         /\ c.internal \in BOOLEAN
         /\ c.op = "delete_exchange" => c.exchange \in Exchanges \cup {Default}
         /\ c.op = "bind_exchange" =>
              c.source \in Exchanges \cup {Default} /\ c.destination \in Exchanges
  BY DEF Calls, QueueCalls, ExchangeCalls

\* A cascade takes auto-delete exchanges only, besides what it starts from.
LEMMA CascadeBound ==
  ASSUME BrokerOK, NEW ns \in SUBSET Nodes, NEW bs
  PROVE  /\ Cascade(ns, bs) \subseteq Nodes
         /\ \A n \in Cascade(ns, bs) : n \in ns \/ (n \in DOMAIN exchanges /\ exchanges[n].auto)
<1> DEFINE S == ns \cup {x \in DOMAIN exchanges : exchanges[x].auto}
<1>1. S \in SUBSET Nodes
  BY DEF BrokerOK, Nodes
<1>2. Closed(S, ns, bs)
  BY DEF Closed
<1> HIDE DEF S
<1>3. Cascade(ns, bs) \subseteq S
  BY <1>1, <1>2 DEF Cascade
<1> QED
  BY <1>3, <1>1 DEF S

LEMMA RemoveTypes ==
  ASSUME BrokerOK, NEW ns, NEW bs, Remove(ns, bs)
  PROVE  BrokerOK'
<1> DEFINE dead == Cascade(ns, bs)
<1>1. /\ queues' = [q \in DOMAIN queues \ dead |-> queues[q]]
      /\ exchanges' = [x \in DOMAIN exchanges \ dead |-> exchanges[x]]
      /\ bindings' = bindings \ (bs \cup Touching(dead))
  BY DEF Remove, Without
<1> HIDE DEF dead
<1>2. DOMAIN queues' = DOMAIN queues \ dead /\ DOMAIN exchanges' = DOMAIN exchanges \ dead
  BY <1>1
<1>3. queues' \in [DOMAIN queues' -> QueueStates]
  BY <1>1, <1>2 DEF BrokerOK
<1>4. exchanges' \in [DOMAIN exchanges' -> ExchangeStates]
  BY <1>1, <1>2 DEF BrokerOK
<1>5. ASSUME NEW b \in bindings'
      PROVE  b \in (DOMAIN exchanges') \X (DOMAIN queues' \cup DOMAIN exchanges')
  <2>1. b \in bindings /\ b[1] \notin dead /\ b[2] \notin dead
    BY <1>1, <1>5 DEF Touching
  <2>2. b \in (DOMAIN exchanges) \X (DOMAIN queues \cup DOMAIN exchanges)
    BY <2>1 DEF BrokerOK
  <2> QED
    BY <2>1, <2>2, <1>2
<1> QED
  BY <1>2, <1>3, <1>4, <1>5 DEF BrokerOK

\* What is withdrawn takes its promised bindings with it.
LEMMA WithdrawCloses ==
  ASSUME BrokerInv, NEW ns \in SUBSET Nodes, NEW bs \in SUBSET Bindings, Withdraw(ns, bs)
  PROVE  /\ promised' \subseteq promised
         /\ promised' \cap (ns \cup bs) = {}
         /\ EndsPromised'
<1>1. promised' = promised \ (ns \cup bs \cup Touching(ns))
  BY DEF Withdraw
<1>2. ASSUME NEW b \in promised' \cap Bindings
      PROVE  b[1] \in promised' /\ b[2] \in promised'
  <2>1. b \in bindings /\ b[1] \in promised /\ b[2] \in promised
    BY <1>1, <1>2 DEF BrokerInv, PromiseInv, EndsPromised
  <2>2. b[1] \notin ns /\ b[2] \notin ns
    BY <2>1, <1>1, <1>2 DEF Touching
  <2>3. b[1] \in Nodes /\ b[2] \in Nodes
    BY <1>2 DEF Bindings, Nodes
  <2>4. Nodes \cap Bindings = {}
    BY NamesAssumption DEF Nodes, Bindings
  <2>5. Touching(ns) \subseteq Bindings
    BY DEF Touching, BrokerInv, BrokerOK, Bindings, Nodes
  <2> QED
    BY <2>1, <2>2, <2>3, <2>4, <2>5, <1>1
<1> QED
  BY <1>1, <1>2 DEF EndsPromised

\* Removing what is not promised any more, and what goes with it, breaks no promise.
LEMMA RemoveKeeps ==
  ASSUME BrokerInv, NEW ns \in SUBSET Nodes, NEW bs \in SUBSET Bindings, Remove(ns, bs),
         promised' \subseteq promised, promised' \cap (ns \cup bs) = {}, EndsPromised'
  PROVE  BrokerInv'
<1> DEFINE dead == Cascade(ns, bs)
<1>1. /\ queues' = [q \in DOMAIN queues \ dead |-> queues[q]]
      /\ exchanges' = [x \in DOMAIN exchanges \ dead |-> exchanges[x]]
      /\ bindings' = bindings \ (bs \cup Touching(dead))
  BY DEF Remove, Without
<1>2. \A n \in dead : n \in ns \/ (n \in DOMAIN exchanges /\ exchanges[n].auto)
  BY CascadeBound DEF BrokerInv
<1> HIDE DEF dead
<1>3. BrokerOK' /\ PromisedOK'
  BY RemoveTypes DEF BrokerInv, PromisedOK, Nodes, Bindings
<1>4. ASSUME NEW n \in promised' \cap Nodes
      PROVE  n \notin dead
  <2>1. n \notin ns /\ n \in promised
    BY <1>4
  <2>2. n \in DOMAIN exchanges => n \in Exchanges
    BY DEF BrokerInv, BrokerOK
  <2>3. n \in DOMAIN exchanges => ~exchanges[n].auto
    BY <2>1, <2>2 DEF BrokerInv, PromiseInv, ExchangeLasts
  <2> QED
    BY <2>1, <2>3, <1>2
<1>5. ASSUME NEW q \in promised' \cap Queues
      PROVE  QueueLasts(q)'
  <2>1. QueueLasts(q) /\ q \notin dead
    BY <1>4, <1>5 DEF BrokerInv, PromiseInv, Nodes
  <2>2. q \in DOMAIN queues' /\ queues'[q] = queues[q]
    BY <2>1, <1>1 DEF QueueLasts
  <2> QED
    BY <2>1, <2>2 DEF QueueLasts
<1>6. ASSUME NEW x \in promised' \cap Exchanges
      PROVE  ExchangeLasts(x)'
  <2>1. ExchangeLasts(x) /\ x \notin dead
    BY <1>4, <1>6 DEF BrokerInv, PromiseInv, Nodes
  <2>2. x \in DOMAIN exchanges' /\ exchanges'[x] = exchanges[x]
    BY <2>1, <1>1 DEF ExchangeLasts
  <2> QED
    BY <2>1, <2>2 DEF ExchangeLasts
<1>7. ASSUME NEW b \in promised' \cap Bindings
      PROVE  b \in bindings'
  <2>1. b \in bindings /\ b \notin bs
    BY <1>7 DEF BrokerInv, PromiseInv
  <2>2. b[1] \in promised' \cap Nodes /\ b[2] \in promised' \cap Nodes
    BY <1>7 DEF EndsPromised, Bindings, Nodes
  <2>3. b[1] \notin dead /\ b[2] \notin dead
    BY <2>2, <1>4
  <2> QED
    BY <2>1, <2>3, <1>1 DEF Touching
<1> QED
  BY <1>3, <1>5, <1>6, <1>7 DEF BrokerInv, PromiseInv

\* A queue, exchange or binding that was promised to nobody goes.
LEMMA RemoveUnpromised ==
  ASSUME BrokerInv, NEW q \in Queues, q \notin promised, Remove({q}, {}), UNCHANGED promised
  PROVE  BrokerInv'
<1>1. EndsPromised'
  BY DEF BrokerInv, PromiseInv, EndsPromised
<1> QED
  BY <1>1, RemoveKeeps DEF Nodes

\* A call removes what it says, and withdraws the promises.
LEMMA RemoveWithdrawn ==
  ASSUME BrokerInv, NEW ns \in SUBSET Nodes, NEW bs \in SUBSET Bindings,
         Remove(ns, bs), Withdraw(ns, bs)
  PROVE  BrokerInv'
  BY WithdrawCloses, RemoveKeeps

LEMMA TopologySame ==
  ASSUME BrokerInv, UNCHANGED topology
  PROVE  BrokerInv'
  BY DEF topology, BrokerInv, BrokerOK, PromisedOK, PromiseInv, EndsPromised, QueueLasts,
         ExchangeLasts, Nodes, Bindings

LEMMA AcceptTypes ==
  ASSUME AnswersOK, NEW a \in Agents, NEW n \in Nat, Accept(a, n)
  PROVE  AnswersOK'
  BY DEF Accept, AnswersOK

LEMMA RefuseKeeps ==
  ASSUME BrokerInv, AnswersOK, NEW a \in Agents, Refuse(a)
  PROVE  BrokerInv' /\ AnswersOK'
<1>1. BrokerInv'
  BY TopologySame DEF Refuse
<1>2. AnswersOK'
  BY DEF Refuse, AnswersOK
<1> QED
  BY <1>1, <1>2

\* A queue keeps what its promises rest on, and the others stay as they are.
LEMMA QueueChanges ==
  ASSUME BrokerInv, NEW q \in DOMAIN queues, NEW state \in QueueStates,
         queues' = [queues EXCEPT ![q] = state],
         state.durable = queues[q].durable, state.owner = queues[q].owner,
         state.auto = queues[q].auto,
         UNCHANGED <<exchanges, bindings, promised>>
  PROVE  BrokerInv'
<1>1. DOMAIN queues' = DOMAIN queues
  OBVIOUS
<1>2. BrokerOK' /\ PromisedOK'
  BY <1>1 DEF BrokerInv, BrokerOK, PromisedOK, Nodes, Bindings
<1>3. ASSUME NEW p \in promised \cap Queues
      PROVE  QueueLasts(p)'
  <2>1. QueueLasts(p)
    BY DEF BrokerInv, PromiseInv
  <2> QED
    BY <2>1, <1>1 DEF QueueLasts
<1>4. PromiseInv'
  BY <1>3 DEF BrokerInv, PromiseInv, ExchangeLasts, EndsPromised
<1> QED
  BY <1>2, <1>4 DEF BrokerInv

\* The queues of a connection that is gone are not promised any more.
LEMMA OrphanKeeps ==
  ASSUME BrokerInv, NEW a \in Agents, Orphan(a), UNCHANGED <<exchanges, bindings>>
  PROVE  BrokerInv'
<1> DEFINE lost == {q \in DOMAIN queues : queues[q].owner = a}
<1>1. lost \in SUBSET Nodes
  BY DEF BrokerInv, BrokerOK, Nodes
<1>2. Withdraw(lost, {})
  BY DEF Orphan
<1>3. promised' \subseteq promised /\ promised' \cap lost = {} /\ EndsPromised'
  BY <1>1, <1>2, WithdrawCloses
<1>4. /\ DOMAIN queues' = DOMAIN queues
      /\ \A q \in DOMAIN queues :
           /\ queues'[q] = IF q \in lost THEN [queues[q] EXCEPT !.owner = Ghost] ELSE queues[q]
  BY DEF Orphan, Orphaned
<1> HIDE DEF lost
<1>5. \A q \in DOMAIN queues : [queues[q] EXCEPT !.owner = Ghost] \in QueueStates
  BY DEF BrokerInv, BrokerOK, QueueStates
<1>6. \A q \in DOMAIN queues : queues'[q] \in QueueStates
  BY <1>4, <1>5 DEF BrokerInv, BrokerOK
<1>7. queues' = [q \in DOMAIN queues' |-> queues'[q]]
  BY <1>4 DEF Orphan, Orphaned
<1>8. BrokerOK' /\ PromisedOK'
  BY <1>3, <1>4, <1>6, <1>7 DEF BrokerInv, BrokerOK, PromisedOK, Nodes, Bindings
<1>9. ASSUME NEW q \in promised' \cap Queues
      PROVE  QueueLasts(q)'
  <2>1. QueueLasts(q) /\ q \notin lost
    BY <1>3 DEF BrokerInv, PromiseInv
  <2> QED
    BY <2>1, <1>4 DEF QueueLasts
<1>10. PromiseInv'
  BY <1>3, <1>9 DEF BrokerInv, PromiseInv, ExchangeLasts
<1> QED
  BY <1>8, <1>10 DEF BrokerInv
-----------------------------------------------------------------------------
(* The tools *)

LEMMA DeclareQueueKeeps ==
  ASSUME BrokerInv, AnswersOK, NEW a \in Agents, NEW c \in Calls, c.op = "declare_queue",
         DeclareQueue(a, c)
  PROVE  BrokerInv' /\ AnswersOK'
<1> DEFINE as == Attributes(a, c)
           q == c.queue
<1>1. /\ q \in Queues /\ c.durable \in BOOLEAN /\ c.exclusive \in BOOLEAN
      /\ c.auto_delete \in BOOLEAN
  BY CallFields
<1>2. CASE q \in DOMAIN queues /\ ~Equivalent(q, as)
  BY <1>2, RefuseKeeps DEF DeclareQueue
<1>3. CASE ~(q \in DOMAIN queues /\ ~Equivalent(q, as))
  <2>1. /\ queues' = IF q \in DOMAIN queues THEN queues ELSE With(queues, q, NewQueue(as))
        /\ Accept(a, 0)
        /\ promised' = promised \cup (IF AskedToLast(c) THEN {q} ELSE {})
        /\ UNCHANGED <<exchanges, bindings>>
    BY <1>3 DEF DeclareQueue, Promise
  <2>2. AnswersOK'
    BY <2>1, AcceptTypes
  <2>3. NewQueue(as) \in QueueStates
    BY <1>1 DEF NewQueue, Attributes, QueueStates
  <2>4. /\ DOMAIN queues' = DOMAIN queues \cup {q}
        /\ \A p \in DOMAIN queues : queues'[p] = queues[p]
        /\ q \notin DOMAIN queues => queues'[q] = NewQueue(as)
        /\ queues' = [p \in DOMAIN queues' |-> queues'[p]]
    <3>1. CASE q \in DOMAIN queues
      BY <3>1, <2>1 DEF BrokerInv, BrokerOK
    <3>2. CASE q \notin DOMAIN queues
      BY <3>2, <2>1 DEF With
    <3> QED
      BY <3>1, <3>2
  <2>5. BrokerOK'
    BY <2>1, <2>3, <2>4, <1>1 DEF BrokerInv, BrokerOK
  <2>6. PromisedOK'
    BY <2>1, <1>1 DEF BrokerInv, PromisedOK, Nodes, Bindings
  <2>7. AskedToLast(c) => QueueLasts(q)'
    <3>1. queues'[q].auto = c.auto_delete /\ queues'[q].durable = c.durable
          /\ queues'[q].owner = (IF c.exclusive THEN a ELSE Nobody)
      BY <1>3, <2>4 DEF Equivalent, NewQueue, Attributes
    <3> QED
      BY <3>1, <2>4, <1>1, OwnersAssumption DEF AskedToLast, QueueLasts
  <2>8. ASSUME NEW p \in promised' \cap Queues
        PROVE  QueueLasts(p)'
    <3>1. CASE p \in promised
      BY <3>1, <2>4, <2>8 DEF BrokerInv, PromiseInv, QueueLasts
    <3>2. CASE p \notin promised
      BY <3>2, <2>1, <2>7, <2>8
    <3> QED
      BY <3>1, <3>2
  <2>9. ASSUME NEW x \in promised' \cap Exchanges
        PROVE  ExchangeLasts(x)'
    BY <2>1, <1>1, NamesAssumption DEF BrokerInv, PromiseInv, ExchangeLasts
  <2>10. promised' \cap Bindings = promised \cap Bindings
    BY <2>1, <1>1, NamesAssumption DEF Bindings, Nodes
  <2>11. PromiseInv'
    BY <2>1, <2>8, <2>9, <2>10 DEF BrokerInv, PromiseInv, EndsPromised
  <2> QED
    BY <2>2, <2>5, <2>6, <2>11 DEF BrokerInv
<1> QED
  BY <1>2, <1>3

LEMMA DeleteQueueKeeps ==
  ASSUME BrokerInv, AnswersOK, NEW a \in Agents, NEW c \in Calls, c.op = "delete_queue",
         DeleteQueue(a, c)
  PROVE  BrokerInv' /\ AnswersOK'
<1>1. c.queue \in Queues
  BY CallFields
<1>2. CASE c.queue \notin DOMAIN queues
  BY <1>2, TopologySame, AcceptTypes DEF DeleteQueue
<1>3. CASE c.queue \in DOMAIN queues /\ (Locked(a, c.queue) \/ ~MayDelete(c))
  BY <1>3, RefuseKeeps DEF DeleteQueue
<1>4. CASE c.queue \in DOMAIN queues /\ ~(Locked(a, c.queue) \/ ~MayDelete(c))
  <2>1. /\ Remove({c.queue}, {}) /\ Withdraw({c.queue}, {})
        /\ Accept(a, Depth(c.queue))
    BY <1>4 DEF DeleteQueue
  <2>2. Depth(c.queue) \in Nat
    BY <1>4, DepthType DEF BrokerInv
  <2>3. {c.queue} \in SUBSET Nodes
    BY <1>1 DEF Nodes
  <2> QED
    BY <2>1, <2>2, <2>3, RemoveWithdrawn, AcceptTypes
<1> QED
  BY <1>2, <1>3, <1>4

LEMMA PurgeQueueKeeps ==
  ASSUME BrokerInv, AnswersOK, NEW a \in Agents, NEW c \in Calls, c.op = "purge_queue",
         PurgeQueue(a, c)
  PROVE  BrokerInv' /\ AnswersOK'
<1>1. CASE ~Usable(a, c.queue)
  BY <1>1, RefuseKeeps DEF PurgeQueue
<1>2. CASE Usable(a, c.queue)
  <2> DEFINE state == [queues[c.queue] EXCEPT !.messages = {}]
  <2>1. /\ queues' = [queues EXCEPT ![c.queue] = state]
        /\ Accept(a, Depth(c.queue))
        /\ UNCHANGED <<exchanges, bindings, promised>>
    BY <1>2 DEF PurgeQueue, Purged
  <2>2. c.queue \in DOMAIN queues
    BY <1>2 DEF Usable
  <2>3. queues[c.queue] \in QueueStates
    BY <2>2 DEF BrokerInv, BrokerOK
  <2>4. /\ state \in QueueStates /\ state.durable = queues[c.queue].durable
        /\ state.owner = queues[c.queue].owner /\ state.auto = queues[c.queue].auto
    BY <2>3 DEF QueueStates
  <2> HIDE DEF state
  <2>5. BrokerInv'
    BY <2>1, <2>2, <2>4, QueueChanges
  <2>6. Depth(c.queue) \in Nat
    BY <2>2, DepthType DEF BrokerInv
  <2> QED
    BY <2>1, <2>5, <2>6, AcceptTypes
<1> QED
  BY <1>1, <1>2

LEMMA GetQueueInfoKeeps ==
  ASSUME BrokerInv, AnswersOK, NEW a \in Agents, NEW c \in Calls, GetQueueInfo(a, c)
  PROVE  BrokerInv' /\ AnswersOK'
<1>1. CASE ~Usable(a, c.queue)
  BY <1>1, RefuseKeeps DEF GetQueueInfo
<1>2. CASE Usable(a, c.queue)
  <2>1. Depth(c.queue) \in Nat
    BY <1>2, DepthType DEF Usable, BrokerInv
  <2> QED
    BY <1>2, <2>1, TopologySame, AcceptTypes DEF GetQueueInfo
<1> QED
  BY <1>1, <1>2

\* A binding is promised only if both its ends are.
LEMMA BindKeeps ==
  ASSUME BrokerInv, AnswersOK, NEW a \in Agents, NEW x \in DOMAIN exchanges,
         NEW n \in DOMAIN queues \cup DOMAIN exchanges, Bind(a, x, n)
  PROVE  BrokerInv' /\ AnswersOK'
<1>1. /\ bindings' = bindings \cup {<<x, n>>}
      /\ promised' = promised \cup (IF {x, n} \subseteq promised THEN {<<x, n>>} ELSE {})
      /\ UNCHANGED <<queues, exchanges>>
  BY DEF Bind, Promise
<1>2. AnswersOK'
  BY AcceptTypes DEF Bind
<1>3. <<x, n>> \in Bindings /\ Nodes \cap Bindings = {}
  BY NamesAssumption DEF BrokerInv, BrokerOK, Bindings, Nodes
<1>4. BrokerOK' /\ PromisedOK'
  BY <1>1, <1>3 DEF BrokerInv, BrokerOK, PromisedOK, Nodes, Bindings
<1>5. promised' \cap Nodes = promised \cap Nodes
  BY <1>1, <1>3
<1>6. \A q \in promised' \cap Queues : QueueLasts(q)'
  BY <1>1, <1>5 DEF BrokerInv, PromiseInv, QueueLasts, Nodes
<1>7. \A y \in promised' \cap Exchanges : ExchangeLasts(y)'
  BY <1>1, <1>5 DEF BrokerInv, PromiseInv, ExchangeLasts, Nodes
<1>8. promised' \cap Bindings \subseteq bindings'
  BY <1>1 DEF BrokerInv, PromiseInv
<1>9. EndsPromised'
  BY <1>1 DEF BrokerInv, PromiseInv, EndsPromised
<1> QED
  BY <1>2, <1>4, <1>6, <1>7, <1>8, <1>9 DEF BrokerInv, PromiseInv

LEMMA BindQueueKeeps ==
  ASSUME BrokerInv, AnswersOK, NEW a \in Agents, NEW c \in Calls, BindQueue(a, c)
  PROVE  BrokerInv' /\ AnswersOK'
  BY RefuseKeeps, BindKeeps DEF BindQueue, Usable

LEMMA BindExchangeKeeps ==
  ASSUME BrokerInv, AnswersOK, NEW a \in Agents, NEW c \in Calls, BindExchange(a, c)
  PROVE  BrokerInv' /\ AnswersOK'
  BY RefuseKeeps, BindKeeps DEF BindExchange

LEMMA UnbindQueueKeeps ==
  ASSUME BrokerInv, AnswersOK, NEW a \in Agents, NEW c \in Calls, c.op = "unbind_queue",
         UnbindQueue(a, c)
  PROVE  BrokerInv' /\ AnswersOK'
<1>1. CASE Locked(a, c.queue) \/ c.exchange = Default
  BY <1>1, RefuseKeeps DEF UnbindQueue
<1>2. CASE ~(Locked(a, c.queue) \/ c.exchange = Default)
  <2>1. <<c.exchange, c.queue>> \in Bindings
    BY <1>2, CallFields DEF Bindings, Nodes
  <2> QED
    BY <1>2, <2>1, RemoveWithdrawn, AcceptTypes DEF UnbindQueue
<1> QED
  BY <1>1, <1>2

LEMMA DeclareExchangeKeeps ==
  ASSUME BrokerInv, AnswersOK, NEW a \in Agents, NEW c \in Calls, c.op = "declare_exchange",
         Validated(c), DeclareExchange(a, c)
  PROVE  BrokerInv' /\ AnswersOK'
<1> DEFINE x == c.exchange
           new == NewExchange(c)
<1>1. /\ c.type \in ExchangeTypes /\ x \in Exchanges \cup {Default} /\ c.durable \in BOOLEAN
      /\ c.auto_delete \in BOOLEAN /\ c.internal \in BOOLEAN
  BY CallFields DEF Validated
<1>2. CASE x = Default \/ (x \in DOMAIN exchanges /\ exchanges[x] # new)
  BY <1>1, <1>2, RefuseKeeps DEF DeclareExchange
<1>3. CASE ~(x = Default \/ (x \in DOMAIN exchanges /\ exchanges[x] # new))
  <2>1. /\ exchanges' = With(exchanges, x, new)
        /\ Accept(a, 0)
        /\ promised' = promised \cup (IF AskedToLast(c) THEN {x} ELSE {})
        /\ UNCHANGED <<queues, bindings>>
    BY <1>1, <1>3 DEF DeclareExchange, Promise
  <2>2. AnswersOK'
    BY <2>1, AcceptTypes
  <2>3. new \in ExchangeStates /\ x \in Exchanges
    BY <1>1, <1>3 DEF NewExchange, ExchangeStates
  <2>4. /\ DOMAIN exchanges' = DOMAIN exchanges \cup {x}
        /\ \A y \in DOMAIN exchanges : exchanges'[y] = exchanges[y]
        /\ exchanges'[x] = new
        /\ exchanges' = [y \in DOMAIN exchanges' |-> exchanges'[y]]
    BY <1>3, <2>1 DEF With
  <2>5. BrokerOK'
    BY <2>1, <2>3, <2>4 DEF BrokerInv, BrokerOK
  <2>6. PromisedOK'
    BY <2>1, <2>3 DEF BrokerInv, PromisedOK, Nodes, Bindings
  <2>7. AskedToLast(c) => ExchangeLasts(x)'
    BY <2>4 DEF AskedToLast, ExchangeLasts, NewExchange
  <2>8. ASSUME NEW y \in promised' \cap Exchanges
        PROVE  ExchangeLasts(y)'
    <3>1. CASE y \in promised
      BY <3>1, <2>4, <2>8 DEF BrokerInv, PromiseInv, ExchangeLasts
    <3>2. CASE y \notin promised
      BY <3>2, <2>1, <2>7, <2>8
    <3> QED
      BY <3>1, <3>2
  <2>9. ASSUME NEW q \in promised' \cap Queues
        PROVE  QueueLasts(q)'
    BY <2>1, <2>3, NamesAssumption DEF BrokerInv, PromiseInv, QueueLasts
  <2>10. promised' \cap Bindings = promised \cap Bindings
    BY <2>1, <2>3, NamesAssumption DEF Bindings, Nodes
  <2>11. PromiseInv'
    BY <2>1, <2>8, <2>9, <2>10 DEF BrokerInv, PromiseInv, EndsPromised
  <2> QED
    BY <2>2, <2>5, <2>6, <2>11 DEF BrokerInv
<1> QED
  BY <1>2, <1>3

LEMMA DeleteExchangeKeeps ==
  ASSUME BrokerInv, AnswersOK, NEW a \in Agents, NEW c \in Calls, c.op = "delete_exchange",
         DeleteExchange(a, c)
  PROVE  BrokerInv' /\ AnswersOK'
<1>1. CASE c.exchange = Default \/ (c.if_unused /\ From(c.exchange) # {})
  BY <1>1, RefuseKeeps DEF DeleteExchange
<1>2. CASE ~(c.exchange = Default \/ (c.if_unused /\ From(c.exchange) # {}))
  <2>1. {c.exchange} \in SUBSET Nodes
    BY <1>2, CallFields DEF Nodes
  <2> QED
    BY <1>2, <2>1, RemoveWithdrawn, AcceptTypes DEF DeleteExchange
<1> QED
  BY <1>1, <1>2
-----------------------------------------------------------------------------
(* The actions *)

\* In a call, the request is one of those of the agent, and has been validated.
LEMMA InCall ==
  ASSUME Inv, NEW a \in Agents, sent[a] # NoCall
  PROVE  sent[a] \in Calls /\ sent[a] \in Requests[a] /\ Validated(sent[a])
  BY DEF Inv, CallsOK, SentInv

LEMMA HandleKeeps ==
  ASSUME Inv, NEW a \in Agents, Handle(a)
  PROVE  Inv'
<1> DEFINE c == sent[a]
<1>1. c \in Calls /\ Validated(c)
  BY InCall DEF Handle
<1>2. BrokerInv /\ AnswersOK
  BY DEF Inv
<1>3. BrokerInv' /\ AnswersOK'
  <2>1. CASE Asks(a, "declare_queue") /\ DeclareQueue(a, c)
    BY <2>1, <1>1, <1>2, DeclareQueueKeeps DEF Asks
  <2>2. CASE Asks(a, "delete_queue") /\ DeleteQueue(a, c)
    BY <2>2, <1>1, <1>2, DeleteQueueKeeps DEF Asks
  <2>3. CASE Asks(a, "purge_queue") /\ PurgeQueue(a, c)
    BY <2>3, <1>1, <1>2, PurgeQueueKeeps DEF Asks
  <2>4. CASE Asks(a, "get_queue_info") /\ GetQueueInfo(a, c)
    BY <2>4, <1>1, <1>2, GetQueueInfoKeeps
  <2>5. CASE Asks(a, "bind_queue") /\ BindQueue(a, c)
    BY <2>5, <1>1, <1>2, BindQueueKeeps
  <2>6. CASE Asks(a, "unbind_queue") /\ UnbindQueue(a, c)
    BY <2>6, <1>1, <1>2, UnbindQueueKeeps DEF Asks
  <2>7. CASE Asks(a, "declare_exchange") /\ DeclareExchange(a, c)
    BY <2>7, <1>1, <1>2, DeclareExchangeKeeps DEF Asks
  <2>8. CASE Asks(a, "delete_exchange") /\ DeleteExchange(a, c)
    BY <2>8, <1>1, <1>2, DeleteExchangeKeeps DEF Asks
  <2>9. CASE Asks(a, "bind_exchange") /\ BindExchange(a, c)
    BY <2>9, <1>1, <1>2, BindExchangeKeeps
  <2> QED
    BY <2>1, <2>2, <2>3, <2>4, <2>5, <2>6, <2>7, <2>8, <2>9 DEF Handle
<1>4. CallsOK' /\ SentInv'
  <2>1. Removes(a) \subseteq Messages
    BY DEF Inv, BrokerInv, BrokerOK, QueueStates, Removes
  <2> QED
    BY <2>1 DEF Handle, Inv, CallsOK, SentInv, Validated
<1> QED
  BY <1>3, <1>4 DEF Inv

LEMMA InvokeKeeps ==
  ASSUME Inv, NEW a \in Agents, NEW c \in Requests[a], Invoke(a, c)
  PROVE  Inv'
<1>1. c \in Calls
  BY RequestsAssumption
<1>2. BrokerInv'
  BY TopologySame DEF Inv, Invoke
<1>3. AnswersOK' /\ CallsOK'
  BY <1>1 DEF Inv, Invoke, counts, AnswersOK, CallsOK
<1>4. SentInv'
  BY DEF Inv, Invoke, SentInv, CallsOK, Validated
<1> QED
  BY <1>2, <1>3, <1>4 DEF Inv

LEMMA ReceiveKeeps ==
  ASSUME Inv, NEW a \in Agents, Receive(a)
  PROVE  Inv'
<1>1. BrokerInv'
  BY TopologySame DEF Inv, Receive
<1>2. AnswersOK'
  BY DEF Inv, Receive, AnswersOK
<1>3. Counted(a) \in Nat
  BY DEF Inv, AnswersOK, Counted
<1>4. CallsOK'
  BY <1>3 DEF Inv, Receive, CallsOK
<1>5. SentInv'
  BY DEF Inv, Receive, SentInv, CallsOK, Validated
<1> QED
  BY <1>1, <1>2, <1>4, <1>5 DEF Inv

LEMMA FailKeeps ==
  ASSUME Inv, NEW a \in Agents, Fail(a)
  PROVE  Inv'
<1>1. BrokerInv'
  BY TopologySame DEF Inv, Fail
<1>2. AnswersOK' /\ CallsOK'
  BY DEF Inv, Fail, NoticeDead, counts, AnswersOK, CallsOK
<1>3. SentInv'
  BY DEF Inv, Fail, SentInv, CallsOK, Validated
<1> QED
  BY <1>1, <1>2, <1>3 DEF Inv

\* The connection of an agent ends.
LEMMA DisconnectKeeps ==
  ASSUME Inv, NEW a \in Agents, Lose(a) \/ CloseConnection(a)
  PROVE  Inv'
<1>1. BrokerInv'
  BY OrphanKeeps DEF Inv, Lose, CloseConnection
<1>2. AnswersOK' /\ CallsOK'
  BY DEF Inv, Lose, CloseConnection, calls, counts, AnswersOK, CallsOK
<1>3. SentInv'
  BY DEF Inv, Lose, CloseConnection, calls, SentInv, Validated
<1> QED
  BY <1>1, <1>2, <1>3 DEF Inv

\* What leaves the agents alone.
LEMMA AgentsSame ==
  ASSUME Inv, BrokerInv', arrived' \in 0..MaxMsgs, UNCHANGED <<calls, counts, link>>
  PROVE  Inv'
  BY DEF Inv, calls, counts, AnswersOK, CallsOK, SentInv, Validated

LEMMA ReapKeeps ==
  ASSUME Inv, NEW q \in Queues, Reap(q)
  PROVE  Inv'
<1>1. q \notin promised
  BY DEF Reap, Inv, BrokerInv, PromiseInv, QueueLasts
<1>2. BrokerInv'
  BY <1>1, RemoveUnpromised DEF Reap, Inv
<1> QED
  BY <1>2, AgentsSame DEF Reap, Inv, CallsOK

LEMMA UnsubscribeKeeps ==
  ASSUME Inv, NEW q \in Queues, Unsubscribe(q)
  PROVE  Inv'
<1>1. CASE queues[q].auto
  <2>1. q \notin promised
    BY <1>1 DEF Unsubscribe, Inv, BrokerInv, PromiseInv, QueueLasts
  <2>2. BrokerInv'
    BY <1>1, <2>1, RemoveUnpromised DEF Unsubscribe, Inv
  <2> QED
    BY <2>2, AgentsSame DEF Unsubscribe, Inv, CallsOK
<1>2. CASE ~queues[q].auto
  <2> DEFINE state == [queues[q] EXCEPT !.consumed = FALSE]
  <2>1. q \in DOMAIN queues /\ queues' = [queues EXCEPT ![q] = state]
        /\ UNCHANGED <<exchanges, bindings, promised>>
    BY <1>2 DEF Unsubscribe
  <2>2. queues[q] \in QueueStates
    BY <2>1 DEF Inv, BrokerInv, BrokerOK
  <2>3. /\ state \in QueueStates /\ state.durable = queues[q].durable
        /\ state.owner = queues[q].owner /\ state.auto = queues[q].auto
    BY <2>2 DEF QueueStates
  <2> HIDE DEF state
  <2>4. BrokerInv'
    BY <2>1, <2>3, QueueChanges DEF Inv
  <2> QED
    BY <2>4, AgentsSame DEF Unsubscribe, Inv, CallsOK
<1> QED
  BY <1>1, <1>2

LEMMA SubscribeKeeps ==
  ASSUME Inv, NEW q \in Queues, Subscribe(q)
  PROVE  Inv'
<1> DEFINE state == [queues[q] EXCEPT !.consumed = TRUE]
<1>1. q \in DOMAIN queues /\ queues' = [queues EXCEPT ![q] = state]
      /\ UNCHANGED <<exchanges, bindings, promised>>
  BY DEF Subscribe, Usable
<1>2. queues[q] \in QueueStates
  BY <1>1 DEF Inv, BrokerInv, BrokerOK
<1>3. /\ state \in QueueStates /\ state.durable = queues[q].durable
      /\ state.owner = queues[q].owner /\ state.auto = queues[q].auto
  BY <1>2 DEF QueueStates
<1> HIDE DEF state
<1>4. BrokerInv'
  BY <1>1, <1>3, QueueChanges DEF Inv
<1> QED
  BY <1>4, AgentsSame DEF Subscribe, Inv, CallsOK

LEMMA ArriveKeeps ==
  ASSUME Inv, NEW q \in Queues, Arrive(q)
  PROVE  Inv'
<1> DEFINE state == [queues[q] EXCEPT !.messages = @ \cup {arrived'}]
<1>0. arrived' \in 1..MaxMsgs
  BY MaxMsgsAssumption DEF Arrive, Inv, CallsOK
<1>1. q \in DOMAIN queues /\ queues' = [queues EXCEPT ![q] = state]
      /\ UNCHANGED <<exchanges, bindings, promised>>
  BY DEF Arrive
<1>2. queues[q] \in QueueStates
  BY <1>1 DEF Inv, BrokerInv, BrokerOK
<1>3. /\ state \in QueueStates /\ state.durable = queues[q].durable
      /\ state.owner = queues[q].owner /\ state.auto = queues[q].auto
  BY <1>0, <1>2 DEF QueueStates, Messages
<1> HIDE DEF state
<1>4. BrokerInv'
  BY <1>1, <1>3, QueueChanges DEF Inv
<1> QED
  BY <1>0, <1>4, AgentsSame, MaxMsgsAssumption DEF Arrive

LEMMA RestartKeeps ==
  ASSUME Inv, Restart
  PROVE  Inv'
<1> DEFINE keptQs == {q \in DOMAIN queues : queues[q].durable /\ queues[q].owner = Nobody}
           keptXs == {x \in DOMAIN exchanges : exchanges[x].durable}
           lost == {q \in DOMAIN queues : queues[q].owner # Nobody}
<1>1. /\ \E persistent \in BOOLEAN :
           queues' = [q \in keptQs |-> [queues[q] EXCEPT !.messages = IF persistent THEN @ ELSE {},
                                                         !.consumed = FALSE]]
      /\ exchanges' = [x \in keptXs |-> exchanges[x]]
      /\ bindings' = {b \in bindings : b[1] \in keptXs /\ b[2] \in keptXs \cup keptQs}
      /\ Withdraw(lost, {})
  BY DEF Restart
<1>2. BrokerInv
  BY DEF Inv
<1>3. promised' \subseteq promised /\ promised' \cap lost = {} /\ EndsPromised'
  <2>1. lost \in SUBSET Nodes
    BY <1>2 DEF BrokerInv, BrokerOK, Nodes
  <2>2. Withdraw(lost, {})
    BY <1>1
  <2> HIDE DEF lost
  <2>3. promised' \cap (lost \cup {}) = {} /\ promised' \subseteq promised /\ EndsPromised'
    BY <2>1, <2>2, <1>2, WithdrawCloses
  <2> QED
    BY <2>3
<1>4. /\ DOMAIN queues' = keptQs
      /\ queues' = [q \in DOMAIN queues' |-> queues'[q]]
      /\ \A q \in keptQs : /\ queues'[q] \in QueueStates
                           /\ queues'[q].durable /\ queues'[q].auto = queues[q].auto
                           /\ queues'[q].owner = Nobody
  <2>1. PICK persistent \in BOOLEAN :
          queues' = [q \in keptQs |-> [queues[q] EXCEPT !.messages = IF persistent THEN @ ELSE {},
                                                        !.consumed = FALSE]]
    BY <1>1
  <2>2. \A q \in keptQs : queues[q] \in QueueStates
    BY <1>2 DEF BrokerInv, BrokerOK
  <2>3. DOMAIN queues' = keptQs /\ queues' = [q \in DOMAIN queues' |-> queues'[q]]
    BY <2>1
  <2>4. ASSUME NEW q \in keptQs
        PROVE  /\ queues'[q] \in QueueStates
               /\ queues'[q].durable /\ queues'[q].auto = queues[q].auto
               /\ queues'[q].owner = Nobody
    <3> DEFINE left == IF persistent THEN queues[q].messages ELSE {}
    <3>1. queues'[q] = [queues[q] EXCEPT !.messages = IF persistent THEN @ ELSE {}, !.consumed = FALSE]
      BY <2>1
    <3>2. queues'[q] = [queues[q] EXCEPT !.messages = left, !.consumed = FALSE]
      BY <3>1
    <3>3. left \in SUBSET Messages
      BY <2>2 DEF QueueStates
    <3> HIDE DEF left
    <3>4. queues[q] \in QueueStates /\ queues[q].durable /\ queues[q].owner = Nobody
      BY <2>2
    <3> QED
      BY <3>2, <3>3, <3>4 DEF QueueStates
  <2> QED
    BY <2>3, <2>4
<1>5. /\ DOMAIN exchanges' = keptXs
      /\ \A x \in keptXs : exchanges'[x] = exchanges[x]
  BY <1>1
<1>6. BrokerOK' /\ PromisedOK'
  <2>1. exchanges' \in [DOMAIN exchanges' -> ExchangeStates]
    BY <1>1, <1>2, <1>5 DEF BrokerInv, BrokerOK
  <2>2. \A b \in bindings' : b \in keptXs \X (keptQs \cup keptXs)
    BY <1>1, <1>2 DEF BrokerInv, BrokerOK
  <2> QED
    BY <2>1, <2>2, <1>2, <1>3, <1>4, <1>5 DEF BrokerInv, BrokerOK, PromisedOK, Nodes, Bindings
<1>7. ASSUME NEW q \in promised' \cap Queues
      PROVE  q \in keptQs /\ QueueLasts(q)'
  <2>1. QueueLasts(q) /\ q \notin lost
    BY <1>2, <1>3 DEF BrokerInv, PromiseInv
  <2>2. q \in keptQs
    BY <2>1 DEF QueueLasts
  <2> QED
    BY <2>1, <2>2, <1>4, OwnersAssumption DEF QueueLasts
<1>8. ASSUME NEW x \in promised' \cap Exchanges
      PROVE  x \in keptXs /\ ExchangeLasts(x)'
  BY <1>2, <1>3, <1>5 DEF BrokerInv, PromiseInv, ExchangeLasts
<1>9. ASSUME NEW b \in promised' \cap Bindings
      PROVE  b \in bindings'
  <2>1. b \in bindings
    BY <1>2, <1>3 DEF BrokerInv, PromiseInv
  <2>2. b[1] \in promised' \cap Exchanges /\ b[2] \in promised' \cap Nodes
    BY <1>3 DEF EndsPromised, Bindings, Nodes
  <2>3. b[1] \in keptXs /\ b[2] \in keptXs \cup keptQs
    BY <2>2, <1>7, <1>8 DEF Nodes
  <2> QED
    BY <2>1, <2>3, <1>1
<1>10. BrokerInv'
  BY <1>3, <1>6, <1>7, <1>8, <1>9 DEF BrokerInv, PromiseInv
<1>11. AnswersOK' /\ CallsOK' /\ SentInv'
  BY DEF Restart, calls, counts, Inv, AnswersOK, CallsOK, SentInv, Validated
<1> QED
  BY <1>10, <1>11 DEF Inv
-----------------------------------------------------------------------------
(* Theorems *)

LEMMA InitInv == Init => Inv
<1> SUFFICES ASSUME Init
             PROVE  Inv
  OBVIOUS
<1>1. DOMAIN queues = {} /\ DOMAIN exchanges = {}
  BY DEF Init
<1>2. queues \in [DOMAIN queues -> QueueStates] /\ exchanges \in [DOMAIN exchanges -> ExchangeStates]
  BY <1>1 DEF Init
<1>3. BrokerInv
  BY <1>1, <1>2 DEF Init, BrokerInv, BrokerOK, PromisedOK, PromiseInv, EndsPromised
<1>4. AnswersOK /\ CallsOK /\ SentInv
  BY MaxMsgsAssumption DEF Init, AnswersOK, CallsOK, SentInv
<1> QED
  BY <1>3, <1>4 DEF Inv

LEMMA NextInv == Inv /\ [Next]_vars => Inv'
<1> SUFFICES ASSUME Inv, [Next]_vars
             PROVE  Inv'
  OBVIOUS
<1>1. ASSUME NEW a \in Agents, NEW c \in Requests[a], Invoke(a, c)
      PROVE  Inv'
  BY <1>1, InvokeKeeps
<1>2. ASSUME NEW a \in Agents,
             Handle(a) \/ Receive(a) \/ Fail(a) \/ Lose(a) \/ CloseConnection(a)
      PROVE  Inv'
  BY <1>2, HandleKeeps, ReceiveKeeps, FailKeeps, DisconnectKeeps
<1>3. ASSUME NEW q \in Queues, Reap(q) \/ Arrive(q) \/ Subscribe(q) \/ Unsubscribe(q)
      PROVE  Inv'
  BY <1>3, ReapKeeps, ArriveKeeps, SubscribeKeeps, UnsubscribeKeeps
<1>4. CASE Restart
  BY <1>4, RestartKeeps
<1>5. CASE UNCHANGED vars
  <2>1. BrokerInv'
    BY <1>5, TopologySame DEF vars, topology, Inv
  <2> QED
    BY <1>5, <2>1, AgentsSame DEF vars, calls, counts, Inv, CallsOK
<1> QED
  BY <1>1, <1>2, <1>3, <1>4, <1>5 DEF Next

LEMMA Invariant == Spec => []Inv
  BY InitInv, NextInv, PTL DEF Spec

\* The broker's topology keeps its types: in particular no binding outlives its ends.
THEOREM TypeCorrect == Spec => []TypeOK
<1>1. Inv => TypeOK
  BY TypeParts DEF Inv, BrokerInv
<1> QED
  BY <1>1, Invariant, PTL

\* What the tools declared to last, and the bindings between, last until a call removes
\* them, whatever other agents, restarts and cascades of auto-deletions do.
THEOREM PromisesLast == Spec => []PromisesKept
<1>1. Inv => PromisesKept
  BY DEF Inv, BrokerInv, PromisedOK, PromiseInv, PromisesKept, QueueLasts, ExchangeLasts, Nodes
<1> QED
  BY <1>1, Invariant, PTL

\* The broker answers the agent that asked, and nobody else.
LEMMA HandleAnswers ==
  ASSUME NEW a, Handle(a)
  PROVE  (\E n : Accept(a, n)) \/ Refuse(a) \/ UNCHANGED <<reply, told>>
<1> DEFINE c == sent[a]
<1>1. CASE DeclareQueue(a, c)
  BY <1>1 DEF DeclareQueue
<1>2. CASE DeleteQueue(a, c)
  BY <1>2 DEF DeleteQueue
<1>3. CASE PurgeQueue(a, c) \/ GetQueueInfo(a, c)
  BY <1>3 DEF PurgeQueue, GetQueueInfo
<1>4. CASE BindQueue(a, c) \/ BindExchange(a, c)
  BY <1>4 DEF BindQueue, BindExchange, Bind
<1>5. CASE UnbindQueue(a, c)
  BY <1>5 DEF UnbindQueue
<1>6. CASE DeclareExchange(a, c)
  BY <1>6 DEF DeclareExchange
<1>7. CASE DeleteExchange(a, c)
  BY <1>7 DEF DeleteExchange
<1> QED
  BY <1>1, <1>2, <1>3, <1>4, <1>5, <1>6, <1>7 DEF Handle

-----------------------------------------------------------------------------

\* What exists after a step existed before, as it is, but for an owner that is gone.
NoneNew ==
  /\ \A q \in DOMAIN queues' :
       /\ q \in DOMAIN queues
       /\ queues'[q].durable = queues[q].durable /\ queues'[q].auto = queues[q].auto
       /\ \/ queues'[q].owner = queues[q].owner
          \/ queues[q].owner # Nobody /\ queues'[q].owner = Ghost
  /\ \A x \in DOMAIN exchanges' : x \in DOMAIN exchanges /\ exchanges'[x] = exchanges[x]
  /\ bindings' \subseteq bindings

\* AsAsked, of one queue, of one exchange and of one binding.
QueueAsked(q) ==
  \E a \in Agents : \E c \in Requests[a] :
    /\ c.op = "declare_queue" /\ c.queue = q
    /\ c.durable = queues[q].durable /\ c.auto_delete = queues[q].auto
    /\ c.exclusive = (queues[q].owner # Nobody) /\ queues[q].owner \in {a, Nobody, Ghost}
ExchangeAsked(x) ==
  \E a \in Agents : \E c \in Requests[a] :
    c.op = "declare_exchange" /\ c.exchange = x /\ exchanges[x] = NewExchange(c)
BindingAsked(b) ==
  \E a \in Agents : \E c \in Requests[a] :
    \/ c.op = "bind_queue" /\ b = <<c.exchange, c.queue>>
    \/ c.op = "bind_exchange" /\ b = <<c.source, c.destination>>

LEMMA AskedParts ==
  AsAsked <=> /\ \A q \in DOMAIN queues : QueueAsked(q)
              /\ \A x \in DOMAIN exchanges : ExchangeAsked(x)
              /\ \A b \in bindings : BindingAsked(b)
  BY DEF AsAsked, QueueAsked, ExchangeAsked, BindingAsked

LEMMA AskedNext ==
  ASSUME \A q \in DOMAIN queues' : QueueAsked(q)',
         \A x \in DOMAIN exchanges' : ExchangeAsked(x)',
         \A b \in bindings' : BindingAsked(b)'
  PROVE  AsAsked'
  BY DEF AsAsked, QueueAsked, ExchangeAsked, BindingAsked

LEMMA NoneNewKeeps ==
  ASSUME AsAsked, NoneNew
  PROVE  AsAsked'
<1>1. ASSUME NEW q \in DOMAIN queues'
      PROVE  QueueAsked(q)'
  <2>0. PICK a \in Agents : \E c \in Requests[a] :
          /\ c.op = "declare_queue" /\ c.queue = q
          /\ c.durable = queues[q].durable /\ c.auto_delete = queues[q].auto
          /\ c.exclusive = (queues[q].owner # Nobody) /\ queues[q].owner \in {a, Nobody, Ghost}
    BY DEF AsAsked, NoneNew
  <2>1. PICK c \in Requests[a] :
          /\ c.op = "declare_queue" /\ c.queue = q
          /\ c.durable = queues[q].durable /\ c.auto_delete = queues[q].auto
          /\ c.exclusive = (queues[q].owner # Nobody) /\ queues[q].owner \in {a, Nobody, Ghost}
    BY <2>0
  <2>2. /\ (queues'[q].owner # Nobody) = (queues[q].owner # Nobody)
        /\ queues'[q].owner \in {a, Nobody, Ghost}
    BY <2>1, OwnersAssumption DEF NoneNew
  <2> QED
    BY <2>1, <2>2 DEF QueueAsked, NoneNew
<1>2. ASSUME NEW b \in bindings'
      PROVE  BindingAsked(b)'
  BY DEF AsAsked, NoneNew, BindingAsked
<1>3. ASSUME NEW x \in DOMAIN exchanges'
      PROVE  ExchangeAsked(x)'
  BY AskedParts DEF NoneNew, ExchangeAsked
<1> QED
  BY <1>1, <1>2, <1>3, AskedNext

LEMMA RemoveNew == ASSUME NEW ns, NEW bs, Remove(ns, bs) PROVE NoneNew
<1> DEFINE dead == Cascade(ns, bs)
<1>1. /\ queues' = [q \in DOMAIN queues \ dead |-> queues[q]]
      /\ exchanges' = [x \in DOMAIN exchanges \ dead |-> exchanges[x]]
      /\ bindings' \subseteq bindings
  BY DEF Remove, Without
<1> HIDE DEF dead
<1> QED
  BY <1>1 DEF NoneNew

LEMMA OrphanNew ==
  ASSUME BrokerOK, NEW a \in Agents, queues' = Orphaned(a), UNCHANGED <<exchanges, bindings>>
  PROVE  NoneNew
<1>1. DOMAIN queues' = DOMAIN queues
  BY DEF Orphaned
<1>2. ASSUME NEW q \in DOMAIN queues, queues[q].owner # a
      PROVE  queues'[q] = queues[q]
  BY <1>2 DEF Orphaned
<1>3. ASSUME NEW q \in DOMAIN queues, queues[q].owner = a
      PROVE  queues'[q] = [queues[q] EXCEPT !.owner = Ghost]
  BY <1>3 DEF Orphaned
<1>4. \A q \in DOMAIN queues : queues[q] \in QueueStates
  BY DEF BrokerOK
<1> QED
  BY <1>1, <1>2, <1>3, <1>4, OwnersAssumption DEF NoneNew, QueueStates

LEMMA AcceptSame == ASSUME UNCHANGED topology PROVE NoneNew
  BY DEF topology, NoneNew

\* A request creates what it asks for, or nothing.
LEMMA HandleAsked ==
  ASSUME Inv, AsAsked, NEW a \in Agents, Handle(a)
  PROVE  AsAsked'
<1>1. PICK c \in Requests[a] : c = sent[a]
  BY DEF Handle, Inv, SentInv
<1>2. c \in Calls
  BY <1>1 DEF Inv, CallsOK, Handle
<1>3. ASSUME Refuse(a)
      PROVE  AsAsked'
  BY <1>3, AcceptSame, NoneNewKeeps DEF Refuse
<1>4. ASSUME c.op = "declare_queue", DeclareQueue(a, c)
      PROVE  AsAsked'
  <2>1. CASE Refuse(a)
    BY <2>1, <1>3
  <2>2. CASE c.queue \in DOMAIN queues /\ UNCHANGED <<queues, exchanges, bindings>>
    BY <2>2, NoneNewKeeps DEF NoneNew
  <2>3. CASE /\ c.queue \notin DOMAIN queues /\ UNCHANGED <<exchanges, bindings>>
             /\ queues' = With(queues, c.queue, NewQueue(Attributes(a, c)))
    <3>1. /\ DOMAIN queues' = DOMAIN queues \cup {c.queue}
          /\ \A q \in DOMAIN queues : queues'[q] = queues[q]
          /\ queues'[c.queue] = NewQueue(Attributes(a, c))
      BY <2>3 DEF With
    <3>2. c.exclusive \in BOOLEAN
      BY <1>2, <1>4, CallFields
    <3>3. QueueAsked(c.queue)'
      <4>1. /\ queues'[c.queue].durable = c.durable /\ queues'[c.queue].auto = c.auto_delete
            /\ queues'[c.queue].owner = IF c.exclusive THEN a ELSE Nobody
        BY <3>1 DEF NewQueue, Attributes
      <4>2. c.exclusive = (queues'[c.queue].owner # Nobody)
            /\ queues'[c.queue].owner \in {a, Nobody, Ghost}
        BY <4>1, <3>2, OwnersAssumption
      <4> QED
        BY <4>1, <4>2, <1>4 DEF QueueAsked
    <3>4. \A q \in DOMAIN queues : QueueAsked(q)'
      BY <3>1, AskedParts DEF QueueAsked
    <3>5. /\ \A x \in DOMAIN exchanges' : ExchangeAsked(x)'
          /\ \A b \in bindings' : BindingAsked(b)'
      BY <2>3, AskedParts DEF ExchangeAsked, BindingAsked
    <3> QED
      BY <3>1, <3>3, <3>4, <3>5, AskedNext
  <2> QED
    BY <1>4, <2>1, <2>2, <2>3 DEF DeclareQueue
<1>5. ASSUME NEW x, NEW n, Bind(a, x, n), BindingAsked(<<x, n>>)
      PROVE  AsAsked'
  <2>1. UNCHANGED <<queues, exchanges>> /\ bindings' = bindings \cup {<<x, n>>}
    BY <1>5 DEF Bind
  <2>2. /\ \A q \in DOMAIN queues' : QueueAsked(q)'
        /\ \A y \in DOMAIN exchanges' : ExchangeAsked(y)'
    BY <2>1, AskedParts DEF QueueAsked, ExchangeAsked
  <2>3. \A b \in bindings' : BindingAsked(b)'
    BY <2>1, <1>5, AskedParts DEF BindingAsked
  <2> QED
    BY <2>2, <2>3, AskedNext
<1>6. ASSUME c.op = "bind_queue", BindQueue(a, c)
      PROVE  AsAsked'
  <2>1. BindingAsked(<<c.exchange, c.queue>>)
    BY <1>6 DEF BindingAsked
  <2> QED
    BY <2>1, <1>3, <1>5, <1>6 DEF BindQueue
<1>7. ASSUME c.op = "bind_exchange", BindExchange(a, c)
      PROVE  AsAsked'
  <2>1. BindingAsked(<<c.source, c.destination>>)
    BY <1>7 DEF BindingAsked
  <2> QED
    BY <2>1, <1>3, <1>5, <1>7 DEF BindExchange
<1>8. ASSUME DeleteQueue(a, c) \/ UnbindQueue(a, c) \/ DeleteExchange(a, c)
      PROVE  AsAsked'
  BY <1>8, <1>3, AcceptSame, RemoveNew, NoneNewKeeps DEF DeleteQueue, UnbindQueue, DeleteExchange
<1>9. ASSUME c.op = "purge_queue", PurgeQueue(a, c)
      PROVE  AsAsked'
  <2>1. CASE Refuse(a)
    BY <2>1, <1>3
  <2>2. CASE /\ c.queue \in DOMAIN queues /\ queues' = Purged(c.queue)
             /\ UNCHANGED <<exchanges, bindings>>
    <3>1. \A q \in DOMAIN queues : queues[q] \in QueueStates
      BY DEF Inv, BrokerInv, BrokerOK
    <3>2. NoneNew
      BY <2>2, <3>1 DEF Purged, NoneNew, QueueStates
    <3> QED
      BY <3>2, NoneNewKeeps
  <2> QED
    BY <1>9, <2>1, <2>2 DEF PurgeQueue, Usable
<1>10. ASSUME GetQueueInfo(a, c)
       PROVE  AsAsked'
  BY <1>10, <1>3, AcceptSame, NoneNewKeeps DEF GetQueueInfo
<1>11. ASSUME c.op = "declare_exchange", DeclareExchange(a, c)
       PROVE  AsAsked'
  <2>1. CASE queues' = Orphaned(a) /\ UNCHANGED <<exchanges, bindings>>
    BY <2>1, OrphanNew, NoneNewKeeps DEF Inv, BrokerInv
  <2>2. CASE /\ exchanges' = With(exchanges, c.exchange, NewExchange(c))
             /\ UNCHANGED <<queues, bindings>>
    <3>1. /\ DOMAIN exchanges' = DOMAIN exchanges \cup {c.exchange}
          /\ \A x \in DOMAIN exchanges \ {c.exchange} : exchanges'[x] = exchanges[x]
          /\ exchanges'[c.exchange] = NewExchange(c)
      BY <2>2 DEF With
    <3>2. ExchangeAsked(c.exchange)'
      BY <1>11, <3>1 DEF ExchangeAsked
    <3>3. \A x \in DOMAIN exchanges \ {c.exchange} : ExchangeAsked(x)'
      BY <3>1, AskedParts DEF ExchangeAsked
    <3>4. /\ \A q \in DOMAIN queues' : QueueAsked(q)'
          /\ \A b \in bindings' : BindingAsked(b)'
      BY <2>2, AskedParts DEF QueueAsked, BindingAsked
    <3> QED
      BY <3>1, <3>2, <3>3, <3>4, AskedNext
  <2> QED
    BY <1>11, <1>3, <2>1, <2>2 DEF DeclareExchange
<1> QED
  BY <1>1, <1>4, <1>6, <1>7, <1>8, <1>9, <1>10, <1>11 DEF Handle, Asks

\* queue_tools.py, exchange_tools.py: nothing exists that some agent's call did not ask for
\* as it is, and the tools that only look ask for nothing.
THEOREM NothingUnasked == Spec => []AsAsked
<1>1. Init => AsAsked
  BY DEF Init, AsAsked
<1>2. Inv /\ AsAsked /\ [Next]_vars => AsAsked'
  <2> SUFFICES ASSUME Inv, AsAsked, [Next]_vars
               PROVE  AsAsked'
    OBVIOUS
  <2>0. BrokerOK /\ \A q \in DOMAIN queues : queues[q] \in QueueStates
    BY DEF Inv, BrokerInv, BrokerOK
  <2>1. ASSUME UNCHANGED topology
        PROVE  AsAsked'
    BY <2>1, AcceptSame, NoneNewKeeps
  <2>2. ASSUME NEW a \in Agents, NEW c \in Requests[a], Invoke(a, c)
        PROVE  AsAsked'
    BY <2>2, <2>1 DEF Invoke
  <2>3. ASSUME NEW a \in Agents, Handle(a)
        PROVE  AsAsked'
    BY <2>3, HandleAsked
  <2>4. ASSUME NEW a \in Agents, Receive(a) \/ Fail(a)
        PROVE  AsAsked'
    BY <2>4, <2>1 DEF Receive, Fail
  <2>5. ASSUME NEW a \in Agents, Lose(a) \/ CloseConnection(a)
        PROVE  AsAsked'
    BY <2>5, <2>0, OrphanNew, NoneNewKeeps DEF Lose, CloseConnection, Orphan
  <2>6. ASSUME NEW q \in Queues, Reap(q) \/ Arrive(q) \/ Subscribe(q) \/ Unsubscribe(q)
        PROVE  AsAsked'
    <3>1. CASE \E ns, bs : Remove(ns, bs)
      BY <3>1, RemoveNew, NoneNewKeeps
    <3>2. CASE /\ q \in DOMAIN queues /\ UNCHANGED <<exchanges, bindings>>
               /\ \/ queues' = [queues EXCEPT ![q].messages = @ \cup {arrived'}]
                  \/ queues' = [queues EXCEPT ![q].consumed = TRUE]
                  \/ queues' = [queues EXCEPT ![q].consumed = FALSE]
      <4>1. NoneNew
        BY <3>2, <2>0 DEF NoneNew, QueueStates
      <4> QED
        BY <4>1, NoneNewKeeps
    <3> QED
      BY <2>6, <3>1, <3>2 DEF Reap, Arrive, Subscribe, Usable, Unsubscribe
  <2>7. CASE Restart
    <3>1. NoneNew
      <4>1. PICK persistent \in BOOLEAN :
              /\ DOMAIN queues' = {q \in DOMAIN queues : queues[q].durable /\ queues[q].owner = Nobody}
              /\ \A q \in DOMAIN queues' :
                   queues'[q] = [queues[q] EXCEPT !.messages = IF persistent THEN @ ELSE {},
                                                  !.consumed = FALSE]
        BY <2>7 DEF Restart
      <4>2. ASSUME NEW q \in DOMAIN queues'
            PROVE  /\ queues'[q].durable = queues[q].durable /\ queues'[q].auto = queues[q].auto
                   /\ queues'[q].owner = queues[q].owner
        <5> DEFINE left == IF persistent THEN queues[q].messages ELSE {}
        <5>1. queues'[q] = [queues[q] EXCEPT !.messages = left, !.consumed = FALSE]
          BY <4>1
        <5> HIDE DEF left
        <5> QED
          BY <5>1, <4>1, <2>0 DEF QueueStates
      <4>3. /\ bindings' \subseteq bindings
            /\ \A x \in DOMAIN exchanges' : x \in DOMAIN exchanges /\ exchanges'[x] = exchanges[x]
        BY <2>7 DEF Restart
      <4> QED
        BY <4>1, <4>2, <4>3 DEF NoneNew
    <3> QED
      BY <3>1, NoneNewKeeps
  <2>8. CASE UNCHANGED vars
    BY <2>8, <2>1 DEF vars, topology
  <2> QED
    BY <2>2, <2>3, <2>4, <2>5, <2>6, <2>7, <2>8 DEF Next
<1> QED
  BY <1>1, <1>2, Invariant, PTL DEF Spec
-----------------------------------------------------------------------------
(* Counts *)

\* Every message is in one place: one queue, or what one agent's calls removed.
Apart ==
  /\ \A q \in DOMAIN queues : queues[q].messages \subseteq 1..arrived
  /\ \A p, q \in DOMAIN queues : p # q => queues[p].messages \cap queues[q].messages = {}
  /\ \A a \in Agents : removed[a] \subseteq 1..arrived
  /\ \A a, b \in Agents : a # b => removed[a] \cap removed[b] = {}
  /\ \A a \in Agents : \A q \in DOMAIN queues : removed[a] \cap queues[q].messages = {}

\* What an agent has been told is no more than what was removed for it, and it is told
\* nothing before the broker answers.
Told(a) ==
  /\ reply[a] = "none" => told[a] = 0
  /\ reported[a] + Counted(a) <= Cardinality(removed[a])

CountInv == Apart /\ \A a \in Agents : Told(a)

\* The queues that are left hold no more than before.
NoneAdded ==
  \A q \in DOMAIN queues' : q \in DOMAIN queues /\ queues'[q].messages \subseteq queues[q].messages

LEMMA NoneAddedApart ==
  ASSUME Apart, NoneAdded, UNCHANGED <<arrived, removed>>
  PROVE  Apart'
  BY DEF Apart, NoneAdded

LEMMA RemoveAdds == ASSUME NEW ns, NEW bs, Remove(ns, bs) PROVE NoneAdded
  BY DEF Remove, Without, NoneAdded

LEMMA OrphanAdds == ASSUME BrokerOK, NEW a, queues' = Orphaned(a) PROVE NoneAdded
<1>1. \A q \in DOMAIN queues : queues[q] \in QueueStates
  BY DEF BrokerOK
<1>2. ASSUME NEW q \in DOMAIN queues'
      PROVE  q \in DOMAIN queues /\ queues'[q].messages = queues[q].messages
  BY <1>1 DEF Orphaned, QueueStates
<1> QED
  BY <1>2 DEF NoneAdded

\* Nobody is told anything, or has anything removed.
LEMMA ToldSame ==
  ASSUME \A a \in Agents : Told(a), UNCHANGED <<calls, counts>>
  PROVE  \A a \in Agents : Told(a)'
  BY DEF Told, Counted, Asks, calls, counts

\* What was removed can be counted.
LEMMA RemovedFinite ==
  ASSUME CallsOK, NEW a \in Agents
  PROVE  IsFiniteSet(removed[a]) /\ Cardinality(removed[a]) \in Nat
<1>1. IsFiniteSet(1..MaxMsgs) /\ removed[a] \subseteq 1..MaxMsgs
  BY MaxMsgsAssumption, FS_Interval DEF CallsOK, Messages
<1> QED
  BY <1>1, FS_Subset, FS_CardinalityType

\* What a request does to the messages: it removes those of one queue, all of which its
\* answer counts, or it leaves what is in the queues there.
LEMMA HandleCounts ==
  ASSUME Inv, NEW a \in Agents, Handle(a), told[a] = 0
  PROVE  \/ /\ NoneAdded /\ reply'[a] = "ok"
            /\ \E q \in DOMAIN queues :
                 /\ Removes(a) = queues[q].messages /\ told'[a] = Depth(q)
                 /\ \A p \in DOMAIN queues' : p = q => queues'[p].messages = {}
         \/ /\ NoneAdded
            /\ reply'[a] = "ok" => Removes(a) = {}
            /\ Asks(a, "purge_queue") \/ Asks(a, "delete_queue") => told'[a] = 0
         \/ \E q \in Queues : /\ Asks(a, "declare_queue")
                              /\ queues' = With(queues, q, NewQueue(Attributes(a, sent[a])))
                              /\ q \notin DOMAIN queues
<1> DEFINE c == sent[a]
<1>1. c \in Calls /\ Validated(c)
  BY InCall DEF Handle
<1>2. BrokerOK /\ AnswersOK /\ reply[a] = "none"
  BY DEF Inv, BrokerInv, Handle
<1>3. UNCHANGED queues => NoneAdded
  BY DEF NoneAdded
<1>4. ASSUME Refuse(a)
      PROVE  NoneAdded /\ reply'[a] = "refused" /\ told'[a] = 0
  BY <1>2, <1>3, <1>4 DEF Refuse, topology, AnswersOK
<1>5. CASE Asks(a, "declare_queue") /\ DeclareQueue(a, c)
  <2>1. Removes(a) = {} /\ ~(Asks(a, "purge_queue") \/ Asks(a, "delete_queue"))
    BY <1>5 DEF Asks, Removes
  <2>2. c.queue \in Queues
    BY <1>1, <1>5, CallFields DEF Asks
  <2> QED
    BY <1>3, <1>4, <1>5, <2>1, <2>2 DEF DeclareQueue
<1>6. CASE Asks(a, "delete_queue") /\ DeleteQueue(a, c)
  <2>1. CASE c.queue \notin DOMAIN queues
    <3>1. Removes(a) = {} /\ told'[a] = 0 /\ NoneAdded
      BY <1>2, <1>3, <1>6, <2>1 DEF Removes, DeleteQueue, Accept, topology, AnswersOK
    <3> QED
      BY <3>1
  <2>2. CASE c.queue \in DOMAIN queues /\ Refuse(a)
    BY <1>4, <2>2
  <2>3. CASE c.queue \in DOMAIN queues /\ ~Refuse(a)
    <3>1. Remove({c.queue}, {}) /\ Accept(a, Depth(c.queue))
      BY <1>6, <2>3 DEF DeleteQueue
    <3>2. Removes(a) = queues[c.queue].messages
      BY <1>6, <2>3 DEF Removes
    <3>3. c.queue \in Nodes
      BY <1>1, <1>6, CallFields DEF Asks, Nodes
    <3>4. c.queue \notin DOMAIN queues'
      <4>1. c.queue \in Cascade({c.queue}, {})
        BY <3>3 DEF Cascade, Closed
      <4> QED
        BY <3>1, <4>1 DEF Remove, Without
    <3>5. NoneAdded /\ reply'[a] = "ok" /\ told'[a] = Depth(c.queue)
      BY <1>2, <3>1, RemoveAdds DEF Accept, AnswersOK
    <3> QED
      BY <2>3, <3>2, <3>4, <3>5
  <2> QED
    BY <2>1, <2>2, <2>3
<1>7. CASE Asks(a, "purge_queue") /\ PurgeQueue(a, c)
  <2>1. CASE Refuse(a)
    BY <1>4, <2>1
  <2>2. CASE ~Refuse(a)
    <3>1. /\ Usable(a, c.queue) /\ queues' = Purged(c.queue) /\ Accept(a, Depth(c.queue))
      BY <1>7, <2>2 DEF PurgeQueue
    <3>2. c.queue \in DOMAIN queues /\ Removes(a) = queues[c.queue].messages
      BY <1>7, <3>1 DEF Usable, Removes
    <3>3. /\ DOMAIN queues' = DOMAIN queues
          /\ \A q \in DOMAIN queues :
               queues'[q].messages = IF q = c.queue THEN {} ELSE queues[q].messages
      BY <1>2, <3>1, <3>2 DEF Purged, BrokerOK, QueueStates
    <3>4. NoneAdded
      BY <3>3 DEF NoneAdded
    <3>5. reply'[a] = "ok" /\ told'[a] = Depth(c.queue)
      BY <1>2, <3>1 DEF Accept, AnswersOK
    <3> QED
      BY <3>2, <3>3, <3>4, <3>5
  <2> QED
    BY <2>1, <2>2
<1>8. CASE ~(Asks(a, "declare_queue") \/ Asks(a, "delete_queue") \/ Asks(a, "purge_queue"))
  <2>1. Removes(a) = {}
    BY <1>8 DEF Removes
  <2>2. NoneAdded
    <3>1. CASE GetQueueInfo(a, c)
      BY <1>3, <1>4, <3>1 DEF GetQueueInfo, topology
    <3>2. CASE BindQueue(a, c) \/ BindExchange(a, c)
      BY <1>3, <1>4, <3>2 DEF BindQueue, BindExchange, Bind
    <3>3. CASE UnbindQueue(a, c) \/ DeleteExchange(a, c)
      BY <1>4, <3>3, RemoveAdds DEF UnbindQueue, DeleteExchange
    <3>4. CASE DeclareExchange(a, c)
      BY <1>2, <1>3, <1>4, <3>4, OrphanAdds DEF DeclareExchange
    <3> QED
      BY <1>8, <3>1, <3>2, <3>3, <3>4 DEF Handle
  <2> QED
    BY <1>8, <2>1, <2>2
<1> QED
  BY <1>5, <1>6, <1>7, <1>8 DEF Handle, Asks

LEMMA CountHandle ==
  ASSUME Inv, CountInv, NEW a \in Agents, Handle(a)
  PROVE  CountInv'
<1>1. told[a] = 0 /\ Counted(a) = 0 /\ reported[a] <= Cardinality(removed[a])
  BY DEF Handle, CountInv, Told, Counted, Inv, CallsOK
<1>2. /\ removed' = [removed EXCEPT ![a] = IF reply'[a] = "ok" THEN @ \cup Removes(a) ELSE @]
      /\ removed \in [Agents -> SUBSET Messages]
      /\ UNCHANGED <<sent, arrived, reported>>
  BY DEF Handle, Inv, CallsOK
<1>3. \A b \in Agents \ {a} :
        reply'[b] = reply[b] /\ told'[b] = told[b] /\ removed'[b] = removed[b]
  BY <1>2, HandleAnswers DEF Inv, Accept, Refuse, AnswersOK
<1>4. \A b \in Agents \ {a} : Told(b)'
  BY <1>2, <1>3 DEF CountInv, Told, Counted, Asks
<1>5. reply'[a] = "none" => told'[a] = 0
  BY <1>1, HandleAnswers DEF Inv, Accept, Refuse, AnswersOK
<1>6. CASE /\ NoneAdded /\ reply'[a] = "ok"
           /\ \E q \in DOMAIN queues :
                /\ Removes(a) = queues[q].messages /\ told'[a] = Depth(q)
                /\ \A p \in DOMAIN queues' : p = q => queues'[p].messages = {}
  <2>1. PICK q \in DOMAIN queues :
          /\ Removes(a) = queues[q].messages /\ told'[a] = Depth(q)
          /\ \A p \in DOMAIN queues' : p = q => queues'[p].messages = {}
    BY <1>6
  <2>2. removed'[a] = removed[a] \cup queues[q].messages
    BY <1>2, <1>6, <2>1
  <2>3. removed[a] \cap queues[q].messages = {}
    BY DEF CountInv, Apart
  <2>4. Cardinality(removed'[a]) = Cardinality(removed[a]) + Depth(q)
    <3>1. /\ IsFiniteSet(removed[a]) /\ Cardinality(removed[a]) \in Nat
          /\ IsFiniteSet(queues[q].messages) /\ Depth(q) \in Nat
      BY RemovedFinite, DepthType DEF Inv, BrokerInv
    <3>2. Cardinality(removed'[a]) = Cardinality(removed[a]) + Cardinality(queues[q].messages)
                                       - Cardinality({})
      BY <2>2, <2>3, <3>1, FS_Union
    <3> QED
      BY <3>1, <3>2, FS_EmptySet DEF Depth
  <2>5. Told(a)'
    <3>1. Counted(a)' \in {0, Depth(q)}
      BY <2>1 DEF Counted
    <3>2. reported'[a] \in Nat /\ reported'[a] <= Cardinality(removed[a])
          /\ Cardinality(removed[a]) \in Nat /\ Depth(q) \in Nat
      BY <1>1, <1>2, RemovedFinite, DepthType DEF Inv, CallsOK, BrokerInv
    <3> QED
      BY <1>6, <2>4, <3>1, <3>2 DEF Told
  <2>6. \A p \in DOMAIN queues' :
          p \in DOMAIN queues /\ queues'[p].messages \subseteq queues[p].messages
    BY <1>6 DEF NoneAdded
  <2>7. \A p \in DOMAIN queues' : queues'[p].messages \cap queues[q].messages = {}
    BY <2>1, <2>6 DEF CountInv, Apart
  <2>8. \A b \in Agents : removed'[b] \subseteq 1..arrived
    BY <1>3, <2>2 DEF CountInv, Apart
  <2>9. \A b \in Agents \ {a} : removed'[a] \cap removed'[b] = {}
    BY <1>3, <2>2 DEF CountInv, Apart
  <2>10. \A b \in Agents : \A p \in DOMAIN queues' : removed'[b] \cap queues'[p].messages = {}
    <3>1. \A p \in DOMAIN queues' : removed'[a] \cap queues'[p].messages = {}
      BY <2>2, <2>6, <2>7 DEF CountInv, Apart
    <3>2. \A b \in Agents \ {a} : \A p \in DOMAIN queues' :
            removed'[b] \cap queues'[p].messages = {}
      BY <1>3, <2>6 DEF CountInv, Apart
    <3> QED
      BY <3>1, <3>2
  <2>11. Apart'
    <3>1. \A b, d \in Agents : b # d => removed'[b] \cap removed'[d] = {}
      BY <1>3, <2>9 DEF CountInv, Apart
    <3> QED
      BY <1>2, <2>6, <2>8, <2>10, <3>1 DEF CountInv, Apart
  <2> QED
    BY <1>4, <2>5, <2>11 DEF CountInv
<1>7. ASSUME reply'[a] = "ok" => Removes(a) = {},
             Asks(a, "purge_queue") \/ Asks(a, "delete_queue") => told'[a] = 0
      PROVE  removed' = removed /\ Told(a)'
  <2>1. removed' = removed
    BY <1>2, <1>7
  <2>2. Counted(a)' = 0
    BY <1>2, <1>7 DEF Counted, Asks
  <2>3. reported[a] \in Nat /\ reported'[a] = reported[a]
    BY <1>2 DEF Inv, CallsOK
  <2>4. reported'[a] + Counted(a)' <= Cardinality(removed'[a])
    BY <1>1, <2>1, <2>2, <2>3
  <2> QED
    BY <1>5, <2>1, <2>4 DEF Told
<1>8. CASE /\ NoneAdded
           /\ reply'[a] = "ok" => Removes(a) = {}
           /\ Asks(a, "purge_queue") \/ Asks(a, "delete_queue") => told'[a] = 0
  BY <1>2, <1>4, <1>7, <1>8, NoneAddedApart DEF CountInv
<1>9. CASE \E q \in Queues : /\ Asks(a, "declare_queue")
                             /\ queues' = With(queues, q, NewQueue(Attributes(a, sent[a])))
                             /\ q \notin DOMAIN queues
  <2>1. PICK q \in Queues : /\ Asks(a, "declare_queue")
                            /\ queues' = With(queues, q, NewQueue(Attributes(a, sent[a])))
                            /\ q \notin DOMAIN queues
    BY <1>9
  <2>2. Removes(a) = {} /\ ~(Asks(a, "purge_queue") \/ Asks(a, "delete_queue"))
    BY <2>1 DEF Removes, Asks
  <2>3. /\ DOMAIN queues' = DOMAIN queues \cup {q}
        /\ \A p \in DOMAIN queues : queues'[p] = queues[p]
        /\ queues'[q].messages = {}
    BY <2>1 DEF With, NewQueue
  <2>4. removed' = removed /\ Told(a)'
    BY <1>7, <2>2
  <2>5. Apart'
    BY <1>2, <2>3, <2>4 DEF CountInv, Apart
  <2> QED
    BY <1>4, <2>4, <2>5 DEF CountInv
<1> QED
  BY <1>1, <1>6, <1>8, <1>9, HandleCounts

LEMMA CountArrive ==
  ASSUME Inv, CountInv, NEW q \in Queues, Arrive(q)
  PROVE  CountInv'
<1>1. /\ q \in DOMAIN queues /\ arrived' = arrived + 1 /\ arrived \in Nat
      /\ UNCHANGED <<calls, counts>>
  BY DEF Arrive, Inv, CallsOK
<1>2. /\ DOMAIN queues' = DOMAIN queues
      /\ \A p \in DOMAIN queues :
           queues'[p].messages = queues[p].messages \cup IF p = q THEN {arrived'} ELSE {}
  <2>1. queues[q] \in QueueStates
    BY <1>1 DEF Inv, BrokerInv, BrokerOK
  <2> QED
    BY <1>1, <2>1 DEF Arrive, QueueStates
<1>3. /\ arrived' \notin 1..arrived /\ arrived' \in 1..arrived'
      /\ 1..arrived \subseteq 1..arrived'
  BY <1>1
<1>4. Apart'
  BY <1>1, <1>2, <1>3 DEF CountInv, Apart, counts
<1> QED
  BY <1>1, <1>4, ToldSame DEF CountInv

LEMMA CountNext == Inv /\ CountInv /\ [Next]_vars => CountInv'
<1> SUFFICES ASSUME Inv, CountInv, [Next]_vars
             PROVE  CountInv'
  OBVIOUS
<1>0. BrokerOK /\ AnswersOK /\ CallsOK
  BY DEF Inv, BrokerInv
<1>1. ASSUME NEW a \in Agents, UNCHANGED <<topology, arrived, removed>>,
             sent' = [sent EXCEPT ![a] = sent'[a]],
             reported' \in {reported, [reported EXCEPT ![a] = @ + Counted(a)]},
             reply' = [reply EXCEPT ![a] = "none"], told' = [told EXCEPT ![a] = 0]
      PROVE  CountInv'
  <2>1. Apart'
    BY <1>1 DEF topology, CountInv, Apart
  <2>2. Counted(a) \in Nat /\ Counted(a)' = 0 /\ reported[a] \in Nat
        /\ Cardinality(removed[a]) \in Nat
    BY <1>0, <1>1, RemovedFinite DEF Counted, AnswersOK, CallsOK
  <2>3. Told(a)'
    BY <1>0, <1>1, <2>2 DEF CountInv, Told, AnswersOK, CallsOK
  <2>4. ASSUME NEW b \in Agents \ {a}
        PROVE  Told(b)'
    <3>1. /\ reply'[b] = reply[b] /\ told'[b] = told[b] /\ sent'[b] = sent[b]
          /\ reported'[b] = reported[b] /\ removed'[b] = removed[b]
      BY <1>0, <1>1, <2>4 DEF AnswersOK, CallsOK
    <3> QED
      BY <3>1 DEF CountInv, Told, Counted, Asks
  <2> QED
    BY <2>1, <2>3, <2>4 DEF CountInv
<1>2. ASSUME NEW a \in Agents, NEW c \in Requests[a], Invoke(a, c)
      PROVE  CountInv'
  BY <1>0, <1>1, <1>2 DEF Invoke, counts, CallsOK
<1>3. ASSUME NEW a \in Agents, Receive(a) \/ Fail(a)
      PROVE  CountInv'
  BY <1>0, <1>1, <1>3 DEF Receive, Fail, counts, CallsOK
<1>4. ASSUME NEW a \in Agents, Handle(a)
      PROVE  CountInv'
  BY <1>4, CountHandle
<1>5. ASSUME NoneAdded, UNCHANGED <<arrived, calls, counts>>
      PROVE  CountInv'
  BY <1>5, NoneAddedApart, ToldSame DEF CountInv, counts
<1>6. ASSUME NEW a \in Agents, Lose(a) \/ CloseConnection(a)
      PROVE  CountInv'
  BY <1>0, <1>5, <1>6, OrphanAdds DEF Lose, CloseConnection, Orphan
<1>7. ASSUME NEW q \in Queues, Reap(q) \/ Subscribe(q) \/ Unsubscribe(q)
      PROVE  CountInv'
  <2>1. CASE \E ns, bs : Remove(ns, bs)
    BY <1>5, <1>7, <2>1, RemoveAdds DEF Reap, Subscribe, Unsubscribe
  <2>2. CASE /\ q \in DOMAIN queues
             /\ \E b \in BOOLEAN : queues' = [queues EXCEPT ![q].consumed = b]
    <3>1. queues[q] \in QueueStates
      BY <1>0, <2>2 DEF BrokerOK
    <3>2. NoneAdded
      BY <2>2, <3>1 DEF NoneAdded, QueueStates
    <3> QED
      BY <1>5, <1>7, <3>2 DEF Reap, Subscribe, Unsubscribe
  <2> QED
    BY <1>7, <2>1, <2>2 DEF Reap, Subscribe, Usable, Unsubscribe
<1>8. ASSUME NEW q \in Queues, Arrive(q)
      PROVE  CountInv'
  BY <1>8, CountArrive
<1>9. CASE Restart
  <2>1. PICK persistent \in BOOLEAN :
          /\ DOMAIN queues' \subseteq DOMAIN queues
          /\ \A q \in DOMAIN queues' :
               queues'[q] = [queues[q] EXCEPT !.messages = IF persistent THEN @ ELSE {},
                                              !.consumed = FALSE]
    BY <1>9 DEF Restart
  <2>2. ASSUME NEW q \in DOMAIN queues'
        PROVE  queues'[q].messages \subseteq queues[q].messages
    <3> DEFINE left == IF persistent THEN queues[q].messages ELSE {}
    <3>1. queues'[q] = [queues[q] EXCEPT !.messages = left, !.consumed = FALSE]
      BY <2>1
    <3>2. left \subseteq queues[q].messages
      OBVIOUS
    <3>3. queues[q] \in QueueStates
      BY <1>0, <2>1 DEF BrokerOK
    <3> HIDE DEF left
    <3> QED
      BY <3>1, <3>2, <3>3 DEF QueueStates
  <2>3. NoneAdded
    BY <2>1, <2>2 DEF NoneAdded
  <2> QED
    BY <1>5, <1>9, <2>3 DEF Restart
<1>10. CASE UNCHANGED vars
  BY <1>5, <1>10 DEF vars, calls, counts, NoneAdded
<1> QED
  BY <1>2, <1>3, <1>4, <1>6, <1>7, <1>8, <1>9, <1>10 DEF Next

\* queue_tools.py:71-74, 92-94: for any agents, the counts that purge and delete calls
\* return are of messages that existed, none of them counted twice, or still there.
THEOREM CountsReal == Spec => []CountsAreReal
<1>1. Init => CountInv
  <2> SUFFICES ASSUME Init
               PROVE  CountInv
    OBVIOUS
  <2>1. DOMAIN queues = {}
    BY DEF Init
  <2>2. Apart
    BY <2>1 DEF Init, Apart
  <2>3. \A a \in Agents : Told(a)
    BY FS_EmptySet DEF Init, Told, Counted
  <2> QED
    BY <2>2, <2>3 DEF CountInv
<1>2. CountInv => CountsAreReal
  BY DEF CountInv, Told, Apart, CountsAreReal
<1> QED
  BY <1>1, <1>2, Invariant, CountNext, PTL DEF Spec
-----------------------------------------------------------------------------
(* Messages *)

\* What is removed with a queue, by a cascade, is no other queue.
LEMMA RemoveSpares ==
  ASSUME BrokerOK, NEW q \in Queues, NEW ns \in SUBSET Nodes, NEW bs, q \notin ns,
         Remove(ns, bs)
  PROVE  MessagesOf(q)' = MessagesOf(q)
<1>1. q \notin DOMAIN exchanges
  BY NamesAssumption DEF BrokerOK
<1>2. q \notin Cascade(ns, bs)
  BY <1>1, CascadeBound
<1>3. queues' = [p \in DOMAIN queues \ Cascade(ns, bs) |-> queues[p]]
  BY DEF Remove, Without
<1> QED
  BY <1>2, <1>3 DEF MessagesOf

LEMMA OrphanSpares ==
  ASSUME BrokerOK, NEW q, NEW a, queues' = Orphaned(a)
  PROVE  MessagesOf(q)' = MessagesOf(q)
<1>1. \A p \in DOMAIN queues : queues[p] \in QueueStates
  BY DEF BrokerOK
<1>2. DOMAIN queues' = DOMAIN queues
  BY DEF Orphaned
<1>3. ASSUME q \in DOMAIN queues
      PROVE  queues'[q].messages = queues[q].messages
  BY <1>1, <1>3 DEF Orphaned, QueueStates
<1> QED
  BY <1>2, <1>3 DEF MessagesOf

\* A request takes messages out of the queue it names only, and only if it asks to.
LEMMA HandleSpares ==
  ASSUME Inv, NEW a \in Agents, Handle(a), NEW q \in Queues, ~Empties(a, q)
  PROVE  MessagesOf(q) \subseteq MessagesOf(q)'
<1> DEFINE c == sent[a]
<1>1. c \in Calls
  BY InCall DEF Handle
<1>2. BrokerOK /\ AnswersOK /\ reply[a] = "none"
  BY DEF Inv, BrokerInv, Handle
<1>3. ASSUME UNCHANGED queues
      PROVE  MessagesOf(q) \subseteq MessagesOf(q)'
  BY <1>3 DEF MessagesOf
<1>4. ASSUME Refuse(a)
      PROVE  MessagesOf(q) \subseteq MessagesOf(q)'
  BY <1>3, <1>4 DEF Refuse, topology
<1>5. CASE Asks(a, "declare_queue") /\ DeclareQueue(a, c)
  <2>1. CASE /\ c.queue \notin DOMAIN queues
             /\ queues' = With(queues, c.queue, NewQueue(Attributes(a, c)))
    BY <2>1 DEF With, MessagesOf
  <2> QED
    BY <1>3, <1>4, <1>5, <2>1 DEF DeclareQueue
<1>6. CASE Asks(a, "delete_queue") /\ DeleteQueue(a, c)
  <2>1. CASE c.queue \notin DOMAIN queues
    BY <1>3, <1>6, <2>1 DEF DeleteQueue, topology
  <2>2. CASE Refuse(a)
    BY <1>4, <2>2
  <2>3. CASE c.queue \in DOMAIN queues /\ ~Refuse(a)
    <3>1. /\ Remove({c.queue}, {}) /\ Accept(a, Depth(c.queue)) /\ MayDelete(c)
      BY <1>6, <2>3 DEF DeleteQueue
    <3>2. {c.queue} \in SUBSET Nodes
      BY <1>1, <1>6, CallFields DEF Asks, Nodes
    <3>3. CASE q # c.queue
      BY <1>2, <3>1, <3>2, <3>3, RemoveSpares
    <3>4. CASE q = c.queue
      <4>1. reply'[a] = "ok"
        BY <1>2, <3>1 DEF Accept, AnswersOK
      <4>2. c.if_empty
        BY <1>2, <1>6, <3>4, <4>1 DEF Empties
      <4> QED
        BY <3>1, <3>4, <4>2 DEF MayDelete, MessagesOf
    <3> QED
      BY <3>3, <3>4
  <2> QED
    BY <2>1, <2>2, <2>3
<1>7. CASE Asks(a, "purge_queue") /\ PurgeQueue(a, c)
  <2>1. CASE Refuse(a)
    BY <1>4, <2>1
  <2>2. CASE ~Refuse(a)
    <3>1. queues' = Purged(c.queue) /\ Accept(a, Depth(c.queue))
      BY <1>7, <2>2 DEF PurgeQueue
    <3>2. reply'[a] = "ok"
      BY <1>2, <3>1 DEF Accept, AnswersOK
    <3>3. q # c.queue
      BY <1>2, <1>7, <3>2 DEF Empties
    <3> QED
      BY <3>1, <3>3 DEF Purged, MessagesOf
  <2> QED
    BY <2>1, <2>2
<1>8. CASE GetQueueInfo(a, c)
  BY <1>3, <1>4, <1>8 DEF GetQueueInfo, topology
<1>9. CASE BindQueue(a, c) \/ BindExchange(a, c)
  BY <1>3, <1>4, <1>9 DEF BindQueue, BindExchange, Bind
<1>10. CASE UnbindQueue(a, c)
  BY <1>2, <1>4, <1>10, RemoveSpares DEF UnbindQueue
<1>11. CASE Asks(a, "delete_exchange") /\ DeleteExchange(a, c)
  <2>1. CASE Refuse(a)
    BY <1>4, <2>1
  <2>2. CASE ~Refuse(a)
    <3>1. Remove({c.exchange}, {}) /\ c.exchange \in Exchanges
      BY <1>1, <1>11, <2>2, CallFields DEF DeleteExchange, Asks
    <3>2. {c.exchange} \in SUBSET Nodes /\ q \notin {c.exchange}
      BY <3>1, NamesAssumption DEF Nodes
    <3> QED
      BY <1>2, <3>1, <3>2, RemoveSpares
  <2> QED
    BY <2>1, <2>2
<1>12. CASE DeclareExchange(a, c)
  BY <1>2, <1>3, <1>4, <1>12, OrphanSpares DEF DeclareExchange
<1> QED
  BY <1>5, <1>6, <1>7, <1>8, <1>9, <1>10, <1>11, <1>12 DEF Handle

\* queue_tools.py, exchange_tools.py: for any agents, only a purge or a delete of the queue
\* itself that is accepted, or a restart, takes a message out of a queue that is to last.
THEOREM MessagesLast == Spec => MessagesStay
<1>1. ASSUME Inv, [Next]_vars, NEW q \in promised \cap Queues
      PROVE  \/ MessagesOf(q) \subseteq MessagesOf(q)'
             \/ Restart
             \/ \E a \in Agents : Empties(a, q)
  <2>0. BrokerOK /\ QueueLasts(q) /\ queues[q] \in QueueStates
    BY <1>1 DEF Inv, BrokerInv, BrokerOK, PromiseInv, QueueLasts
  <2>1. ASSUME UNCHANGED queues
        PROVE  MessagesOf(q) \subseteq MessagesOf(q)'
    BY <2>1 DEF MessagesOf
  <2>2. ASSUME NEW a \in Agents, NEW c \in Requests[a], Invoke(a, c)
        PROVE  MessagesOf(q) \subseteq MessagesOf(q)'
    BY <2>1, <2>2 DEF Invoke, topology
  <2>3. ASSUME NEW a \in Agents, Handle(a), ~Empties(a, q)
        PROVE  MessagesOf(q) \subseteq MessagesOf(q)'
    BY <1>1, <2>3, HandleSpares
  <2>4. ASSUME NEW a \in Agents, Receive(a) \/ Fail(a)
        PROVE  MessagesOf(q) \subseteq MessagesOf(q)'
    BY <2>1, <2>4 DEF Receive, Fail, topology
  <2>5. ASSUME NEW a \in Agents, Lose(a) \/ CloseConnection(a)
        PROVE  MessagesOf(q) \subseteq MessagesOf(q)'
    BY <2>0, <2>5, OrphanSpares DEF Lose, CloseConnection, Orphan
  <2>6. ASSUME NEW p \in Queues, Reap(p) \/ Unsubscribe(p)
        PROVE  MessagesOf(q) \subseteq MessagesOf(q)'
    <3>1. CASE Remove({p}, {}) /\ p # q
      <4>1. {p} \in SUBSET Nodes
        BY DEF Nodes
      <4> QED
        BY <2>0, <3>1, <4>1, RemoveSpares
    <3>2. CASE p \in DOMAIN queues /\ queues' = [queues EXCEPT ![p].consumed = FALSE]
      BY <2>0, <3>2 DEF MessagesOf, BrokerOK, QueueStates
    <3>3. p = q => ~Remove({p}, {}) \/ Unsubscribe(p)
      BY <2>0, <2>6 DEF Reap, QueueLasts
    <3>4. p = q /\ Unsubscribe(p) => queues' = [queues EXCEPT ![p].consumed = FALSE]
      BY <2>0 DEF Unsubscribe, QueueLasts
    <3> QED
      BY <2>6, <3>1, <3>2, <3>3, <3>4 DEF Reap, Unsubscribe
  <2>7. ASSUME NEW p \in Queues, Arrive(p) \/ Subscribe(p)
        PROVE  MessagesOf(q) \subseteq MessagesOf(q)'
    BY <2>0, <2>7 DEF Arrive, Subscribe, Usable, MessagesOf, BrokerOK, QueueStates
  <2>8. CASE UNCHANGED vars
    BY <2>1, <2>8 DEF vars
  <2> QED
    BY <1>1, <2>2, <2>3, <2>4, <2>5, <2>6, <2>7, <2>8 DEF Next
<1>2. Inv /\ [Next]_vars =>
        [\A q \in promised \cap Queues :
           \/ MessagesOf(q) \subseteq MessagesOf(q)'
           \/ Restart
           \/ \E a \in Agents : Empties(a, q)]_vars
  BY <1>1
<1> QED
  BY <1>2, Invariant, PTL DEF Spec, MessagesStay
=============================================================================
