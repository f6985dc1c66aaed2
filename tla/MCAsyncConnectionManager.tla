---------------------- MODULE MCAsyncConnectionManager ----------------------
(***************************************************************************)
(* Instances of AsyncConnectionManager for TLC.                             *)
(***************************************************************************)
EXTENDS AsyncConnectionManager, TLC

AllMessages == [mandatory : BOOLEAN, routable : BOOLEAN]
RoutableMessage == {[mandatory |-> FALSE, routable |-> TRUE]}
=============================================================================
