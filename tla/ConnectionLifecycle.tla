------------------------- MODULE ConnectionLifecycle -------------------------
(***************************************************************************)
(* What a connection manager promises (utilities.py: "the connection is      *)
(* established on first use and re-used across calls"), without how it does  *)
(* it: one connection at a time, opened only when none lives, and lent to    *)
(* every call that needs it.  SyncConnectionManager and                     *)
(* AsyncConnectionManager say when they implement it.                       *)
(***************************************************************************)
CONSTANTS Callers, Conns, None

VARIABLES
  held,  \* the connection the manager keeps, or None
  live,  \* the connections that, as far as the client knows, are not closed
  lent   \* the connection each caller is working on, or None

vars == <<held, live, lent>>

Init ==
  /\ held = None
  /\ live = {}
  /\ lent = [t \in Callers |-> None]

\* A connection is opened only when none lives; the caller that needed it may get it.
Open(c, t) ==
  /\ live = {}
  /\ live' = {c}
  /\ held' = c
  /\ lent' \in {lent, [lent EXCEPT ![t] = c]}

\* A caller is lent the connection the manager keeps, which is not known to be closed.
Lend(t) ==
  /\ held \in live
  /\ lent' = [lent EXCEPT ![t] = held]
  /\ UNCHANGED <<held, live>>

\* A caller is done, and may have found out that its connection is dead.
GiveBack(t) ==
  /\ lent[t] # None
  /\ lent' = [lent EXCEPT ![t] = None]
  /\ live' \in {live, live \ {lent[t]}}
  /\ UNCHANGED held

\* The connection is closed, or found out to be dead, whoever works on it.
Lose ==
  /\ live' = {}
  /\ UNCHANGED <<held, lent>>

\* The manager lets go of a connection that is closed.
Forget ==
  /\ live = {}
  /\ held' = None
  /\ UNCHANGED <<live, lent>>

Next ==
  \/ \E t \in Callers : (\E c \in Conns : Open(c, t)) \/ Lend(t) \/ GiveBack(t)
  \/ Lose \/ Forget

Spec == Init /\ [][Next]_vars
=============================================================================
