---------------------------- MODULE MCMessageTools ----------------------------
(***************************************************************************)
(* Instances of MessageTools for TLC.  One queue, reached through the        *)
(* default exchange; a destination bound to nothing, one without exchange.  *)
(***************************************************************************)
EXTENDS MessageTools, TLC

CONSTANTS a1, a2, q, bound, unbound, undeclared

MCDests == {bound, unbound, undeclared}
MCRoutes == [d \in MCDests |-> IF d = bound THEN {q} ELSE {}]

Publish(d, mandatory) == [op |-> "publish", dest |-> d, mandatory |-> mandatory]
Consume(queue, max, auto) == [op |-> "consume", queue |-> queue, max |-> max, auto |-> auto]
Settle(op, tag, multiple, requeue) ==
  [op |-> op, tag |-> tag, multiple |-> multiple, requeue |-> requeue]

\* Two agents on one queue: both take, one publishes, and the other also fetches without
\* taking, settles what it fetched, and tries a queue that does not exist.
TwoAgents == a1 :> {Publish(bound, TRUE), Publish(unbound, TRUE), Publish(undeclared, FALSE),
                    Consume(q, 1, TRUE)}
          @@ a2 :> {Consume(q, 2, TRUE), Consume(q, 2, FALSE), Consume(NoQueue, 1, TRUE),
                    Settle("ack", 1, TRUE, FALSE)}

\* One agent that makes every call of the tools.
OneAgent == [a \in Agents |-> Calls]
=============================================================================
