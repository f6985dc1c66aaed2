------------------------------ MODULE MCTopology ------------------------------
(***************************************************************************)
(* Instances of Topology for TLC: a program that sets up queues and exchanges *)
(* and takes them down, and another that uses the same names.                *)
(***************************************************************************)
EXTENDS Topology, TLC

CONSTANTS a1, a2, q1, q2, x1, x2

Declare(q, durable, exclusive, auto) ==
  [op |-> "declare_queue", queue |-> q, durable |-> durable, exclusive |-> exclusive,
   auto_delete |-> auto]
DeclareX(x, type, durable, auto) ==
  [op |-> "declare_exchange", exchange |-> x, type |-> type, durable |-> durable,
   auto_delete |-> auto, internal |-> FALSE]

\* It sets everything up, uses it, and takes it down.
Owner ==
  { Declare(q1, TRUE, FALSE, FALSE),
    Declare(q2, FALSE, TRUE, FALSE),
    DeclareX(x1, "direct", TRUE, FALSE),
    DeclareX(x1, "unknown", TRUE, FALSE),
    DeclareX(x2, "fanout", FALSE, TRUE),
    [op |-> "bind_queue", exchange |-> x1, queue |-> q1],
    [op |-> "bind_exchange", source |-> x2, destination |-> x1],
    [op |-> "unbind_queue", exchange |-> x1, queue |-> q1],
    [op |-> "purge_queue", queue |-> q1],
    [op |-> "delete_queue", queue |-> q1, if_unused |-> FALSE, if_empty |-> TRUE],
    [op |-> "delete_exchange", exchange |-> x1, if_unused |-> TRUE],
    [op |-> "close_connection"] }

\* It takes q1 for a queue of its own, and looks for q2.
Rival ==
  { Declare(q1, FALSE, FALSE, TRUE),
    [op |-> "delete_queue", queue |-> q1, if_unused |-> TRUE, if_empty |-> FALSE],
    [op |-> "get_queue_info", queue |-> q2] }

TwoAgents == a1 :> Owner @@ a2 :> Rival
=============================================================================
