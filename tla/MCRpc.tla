--------------------------------- MODULE MCRpc ---------------------------------
(***************************************************************************)
(* An instance of Rpc for TLC: a program that calls twice and one that calls *)
(* once, each with a server of its own.                                     *)
(***************************************************************************)
EXTENDS Rpc, TLC

CONSTANTS p1, p2

MCPrograms == {p1, p2}
MCNumCalls == p1 :> 2 @@ p2 :> 1
=============================================================================
