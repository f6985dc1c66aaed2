----------------------- MODULE MCSyncConnectionManager -----------------------
(***************************************************************************)
(* Instances of SyncConnectionManager for TLC.                              *)
(***************************************************************************)
EXTENDS SyncConnectionManager, TLC

\* One thread: everything may go wrong, except what needs two threads.
SequentialFaults == FaultKinds \ {"race"}

\* Several threads: everything may go wrong, pika's races included, except what makes
\* connect() raise RabbitMQConnectionError at once (GivesUpAfterThree).
ThreadFaults == FaultKinds \ {"url", "protocol"}

\* Threads, and connections, do not differ.
ManagerSymmetry == Permutations(Threads) \cup Permutations(Conns)
=============================================================================
