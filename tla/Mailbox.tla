-------------------------------- MODULE Mailbox --------------------------------
(***************************************************************************)
(* What publish and consume promise together (message_tools.py), without     *)
(* channels, frames or acknowledgements: a message is put in the mailbox      *)
(* once and taken out by one agent, and a call returns everything it has      *)
(* taken, or fails and loses it.  Only consume(auto_ack=True) takes; all      *)
(* other calls leave the mailbox alone.  MessageTools implements it.        *)
(***************************************************************************)
CONSTANTS Agents, Copies

VARIABLES
  known,     \* the messages ever put in
  stored,    \* those that are still there
  taking,    \* the agents in a call that takes messages, and has not failed
  holding,   \* what the call of each of them has taken
  returned   \* the set an agent's last call returned, as {set}; {} if there is none

vars == <<known, stored, taking, holding, returned>>

Init ==
  /\ known = {} /\ stored = {} /\ taking = {}
  /\ holding = [a \in Agents |-> {}]
  /\ returned = [a \in Agents |-> {}]

Holds(a, S) == holding' = [holding EXCEPT ![a] = S]
Returns(a, r) == returned' = [returned EXCEPT ![a] = r]

Put(S) ==
  /\ S \cap known = {}
  /\ known' = known \cup S
  /\ stored' = stored \cup S
  /\ UNCHANGED <<taking, holding, returned>>

\* Any call begins; it may be one that takes messages.
Call(a) ==
  /\ a \notin taking /\ holding[a] = {}
  /\ taking' \in {taking, taking \cup {a}}
  /\ Returns(a, {})
  /\ UNCHANGED <<known, stored, holding>>

Take(a, c) ==
  /\ a \in taking /\ c \in stored
  /\ stored' = stored \ {c}
  /\ Holds(a, holding[a] \cup {c})
  /\ UNCHANGED <<known, taking, returned>>

Return(a) ==
  /\ a \in taking
  /\ taking' = taking \ {a}
  /\ Returns(a, {holding[a]})
  /\ Holds(a, {})
  /\ UNCHANGED <<known, stored>>

\* The call is going to fail: it takes no more, and returns nothing.
Forfeit(a) ==
  /\ a \in taking
  /\ taking' = taking \ {a}
  /\ Holds(a, {})
  /\ UNCHANGED <<known, stored, returned>>

Next ==
  \/ \E S \in SUBSET Copies : Put(S)
  \/ \E a \in Agents : Call(a) \/ (\E c \in Copies : Take(a, c)) \/ Return(a) \/ Forfeit(a)

Spec == Init /\ [][Next]_vars
=============================================================================
