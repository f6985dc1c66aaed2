------------------------------ MODULE RemoteCall ------------------------------
(***************************************************************************)
(* What cookbooks/rpc.py promises ("A client publishes a request [...] and   *)
(* expects a response"), without queues, servers or threads: each program     *)
(* makes its calls in order and stops at the first that fails, a call that   *)
(* returns has been asked and answered before, and no call is answered       *)
(* twice, nor has two outcomes.  Rpc implements it.                         *)
(***************************************************************************)
EXTENDS Naturals

CONSTANTS Programs, NumCalls, Nothing, TimedOut, Error

\* The i-th call of program p.
Calls == UNION {{p} \X (1..NumCalls[p]) : p \in Programs}

VARIABLES
  asked,    \* the calls whose request may have been sent
  answers,  \* how many answers the servers have given to each
  outcome   \* of each call: itself when it returned its answer, TimedOut, Error

vars == <<asked, answers, outcome>>

Init ==
  /\ asked = {}
  /\ answers = [c \in Calls |-> 0]
  /\ outcome = [c \in Calls |-> Nothing]

Pending(c) == outcome[c] = Nothing

\* The calls of the same program before c have returned.
Turn(c) ==
  Pending(c) /\ \A i \in 1..(c[2] - 1) : outcome[<<c[1], i>>] = <<c[1], i>>

Ends(c, r) == outcome' = [outcome EXCEPT ![c] = r]

Ask(c) ==
  /\ Turn(c) /\ c \notin asked
  /\ asked' = asked \cup {c}
  /\ UNCHANGED <<answers, outcome>>

\* Also when the program no longer waits.
Answer(c) ==
  /\ c \in asked /\ answers[c] = 0
  /\ answers' = [answers EXCEPT ![c] = 1]
  /\ UNCHANGED <<asked, outcome>>

Return(c) ==
  /\ Turn(c) /\ answers[c] = 1
  /\ Ends(c, c)
  /\ UNCHANGED <<asked, answers>>

GiveUp(c) ==
  /\ Turn(c) /\ c \in asked
  /\ Ends(c, TimedOut)
  /\ UNCHANGED <<asked, answers>>

\* At any point of the call; the request may have been sent.
Fail(c) ==
  /\ Turn(c)
  /\ Ends(c, Error)
  /\ asked' = asked \cup {c}
  /\ UNCHANGED answers

Next == \E c \in Calls : Ask(c) \/ Answer(c) \/ Return(c) \/ GiveUp(c) \/ Fail(c)

Spec == Init /\ [][Next]_vars
=============================================================================
