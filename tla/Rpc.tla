---------------------------------- MODULE Rpc ----------------------------------
(***************************************************************************)
(* cookbooks/rpc.py: a program whose main thread calls, and whose server      *)
(* thread answers, over a request queue that every such program uses and a   *)
(* reply queue of each call's own.                                          *)
(*                                                                          *)
(* A tool that is invoked is one step, atomic at the broker: every tool has  *)
(* a connection of its own (`config=cfg`).  It may fail, and then its effect *)
(* may have taken place.  A poll that finds nothing changes nothing.         *)
(* External: the broker, and whoever else publishes to the request queue.    *)
(***************************************************************************)
EXTENDS Naturals

CONSTANTS
  Programs,
  NumCalls,    \* bound: how many calls main() makes (three in the cookbook)
  Strangers,   \* messages of others: not a number, or without reply_to
  Unreliable,  \* may tools fail?
  Nothing,
  TimedOut,    \* the outcome of a call that raises TimeoutError
  Error        \* ... and of one that raises what a tool raises

ASSUME NumCallsAssumption == NumCalls \in [Programs -> Nat \ {0}]
ASSUME UnreliableAssumption == Unreliable \in BOOLEAN

\* The i-th call of program p; its number, correlation id and uuid.
Calls == UNION {{p} \X (1..NumCalls[p]) : p \in Programs}

ASSUME DistinctAssumption ==
  /\ (Strangers \cup {Nothing, TimedOut, Error}) \cap Calls = {}
  /\ TimedOut # Error /\ Nothing \notin Strangers \cup {TimedOut, Error}

VARIABLES
  declared,  \* does REQUEST_QUEUE exist?
  requests,  \* the messages in it: calls, or what strangers published
  posted,    \* bound: the strangers' messages published so far, each once
  queues,    \* the reply queues that exist, each known by its call
  replies,   \* <<q, c>>: queue q holds the answer to c
  client,    \* where main(), or the call() it makes, is
  nr,        \* the number of that call
  result,    \* of each call: the call whose answer it returned, TimedOut, Error
  stop,      \* the event
  server,    \* where run_server() is
  taken,     \* the request it has taken
  tidy,      \* history: has the server thread been joined, and the request queue deleted?
  served     \* history: how often each call was answered

\* The call that program p makes.
Call(p) == <<p, nr[p]>>

broker == <<declared, requests, queues, replies>>
vars ==
  <<broker, posted, client, nr, result, stop, server, taken, tidy, served>>

InCall == {"declare", "publish", "poll", "delete"}

TypeOK ==
  /\ declared \in BOOLEAN
  /\ requests \subseteq Calls \cup Strangers
  /\ requests # {} => declared
  /\ posted \subseteq Strangers
  /\ queues \subseteq Calls
  /\ replies \subseteq queues \X Calls
  /\ client \in [Programs -> InCall \cup {"stop", "join", "cleanup", "exit", "end"}]
  /\ nr \in [Programs -> Nat] /\ \A p \in Programs : Call(p) \in Calls
  /\ result \in [Calls -> Calls \cup {Nothing, TimedOut, Error}]
  /\ stop \in [Programs -> BOOLEAN]
  /\ server \in [Programs -> {"declare", "check", "consume", "reply", "ended"}]
  /\ taken \in [Programs -> Calls \cup Strangers \cup {Nothing}]
  /\ tidy \in [Programs -> BOOLEAN]
  /\ served \in [Calls -> Nat]

Init ==
  /\ declared = FALSE /\ requests = {} /\ posted = {} /\ queues = {} /\ replies = {}
  /\ client = [p \in Programs |-> "declare"]
  /\ nr = [p \in Programs |-> 1]
  /\ result = [c \in Calls |-> Nothing]
  /\ stop = [p \in Programs |-> FALSE]
  /\ server = [p \in Programs |-> "declare"]
  /\ taken = [p \in Programs |-> Nothing]
  /\ tidy = [p \in Programs |-> FALSE]
  /\ served = [c \in Calls |-> 0]

-----------------------------------------------------------------------------
(* What the tools do at the broker *)

\* Mutant: there is one reply queue, for all calls.
SharedReplyQueue(c) == CHOOSE d \in Calls : TRUE

\* reply_queue = f"rpc.reply.{uuid}"
ReplyQueue(c) == c

DeclareReply(c) == queues' = queues \cup {ReplyQueue(c)} /\ UNCHANGED <<declared, requests, replies>>

\* Without `mandatory`, a message for a queue that does not exist is dropped silently.
PublishRequest(c) ==
  /\ requests' = IF declared THEN requests \cup {c} ELSE requests
  /\ UNCHANGED <<declared, queues, replies>>

PublishReply(c) ==
  /\ replies' = IF ReplyQueue(c) \in queues THEN replies \cup {<<ReplyQueue(c), c>>} ELSE replies
  /\ UNCHANGED <<declared, requests, queues>>

TakeReply(r) == replies' = replies \ {r} /\ UNCHANGED <<declared, requests, queues>>

DeleteReplyQueue(c) ==
  /\ queues' = queues \ {ReplyQueue(c)}
  /\ replies' = {r \in replies : r[1] # ReplyQueue(c)}
  /\ UNCHANGED <<declared, requests>>

\* Mutant: the request is not acknowledged.
LeaveRequest(m) == UNCHANGED broker

\* auto_ack: what is fetched is gone.
TakeRequest(m) == requests' = requests \ {m} /\ UNCHANGED <<declared, queues, replies>>

DeclareRequests == declared' = TRUE /\ UNCHANGED <<requests, queues, replies>>
DeleteRequests == declared' = FALSE /\ requests' = {} /\ UNCHANGED <<queues, replies>>

-----------------------------------------------------------------------------
(* call() *)

Goto(p, label) == client' = [client EXCEPT ![p] = label]
Ends(p, r) == result' = [result EXCEPT ![Call(p)] = r]

servers == <<stop, server, taken, served>>

Declare(p) ==
  /\ client[p] = "declare"
  /\ DeclareReply(Call(p))
  /\ Goto(p, "publish")
  /\ UNCHANGED <<posted, nr, result, servers, tidy>>

Publish(p) ==
  /\ client[p] = "publish"
  /\ PublishRequest(Call(p))
  /\ Goto(p, "poll")
  /\ UNCHANGED <<posted, nr, result, servers, tidy>>

\* Whatever arrives in the reply queue is the answer: its correlation id is not looked at.
Poll(p) ==
  /\ client[p] = "poll"
  /\ \E r \in replies :
       /\ r[1] = ReplyQueue(Call(p))
       /\ TakeReply(r)
       /\ Ends(p, r[2])
  /\ Goto(p, "delete")
  /\ UNCHANGED <<posted, nr, servers, tidy>>

\* Mutant: there is no deadline.
NeverExpires(p) == FALSE

\* while time.time() < deadline
MayExpire(p) == client[p] = "poll"

Expire(p) ==
  /\ MayExpire(p)
  /\ Ends(p, TimedOut)
  /\ Goto(p, "delete")
  /\ UNCHANGED <<broker, posted, nr, servers, tidy>>

\* Mutant: after a timeout the reply queue is left to auto_delete.
DeleteOnSuccess(p) ==
  IF result[Call(p)] = TimedOut THEN UNCHANGED broker ELSE DeleteReplyQueue(Call(p))

DeleteReply(p) == DeleteReplyQueue(Call(p))

\* Mutant: the loop runs once too often.
OneMore(p) == nr[p] > NumCalls[p]

LastCall(p) == nr[p] = NumCalls[p]

\* TimeoutError leaves main()'s loop, as does the last number.
LeavesLoop(p) == result[Call(p)] = TimedOut \/ LastCall(p)

Delete(p) ==
  /\ client[p] = "delete"
  /\ DeleteReply(p)
  /\ IF LeavesLoop(p)
     THEN Goto(p, "stop") /\ UNCHANGED nr
     ELSE Goto(p, "declare") /\ nr' = [nr EXCEPT ![p] = @ + 1]
  /\ UNCHANGED <<posted, result, servers, tidy>>

\* A tool raises in call(): the reply queue is not deleted.
CallFails(p) ==
  /\ Unreliable
  /\ \/ client[p] \in InCall /\ UNCHANGED broker
     \/ client[p] = "declare" /\ DeclareReply(Call(p))
     \/ client[p] = "publish" /\ PublishRequest(Call(p))
     \/ client[p] = "poll" /\ \E r \in replies : r[1] = ReplyQueue(Call(p)) /\ TakeReply(r)
     \/ client[p] = "delete" /\ DeleteReplyQueue(Call(p))
  /\ Ends(p, Error)
  /\ Goto(p, "stop")
  /\ UNCHANGED <<posted, nr, servers, tidy>>

-----------------------------------------------------------------------------
(* main()'s finally clause *)

Stop(p) ==
  /\ client[p] = "stop"
  /\ stop' = [stop EXCEPT ![p] = TRUE]
  /\ Goto(p, "join")
  /\ UNCHANGED <<broker, posted, nr, result, server, taken, tidy, served>>

\* Mutant: the queue is deleted while the server still runs.
JoinNever(p) == TRUE

\* server.join(timeout=2) has waited for the server.
Joined(p) == server[p] = "ended"

Join(p) ==
  /\ client[p] = "join"
  /\ Joined(p)
  /\ tidy' = [tidy EXCEPT ![p] = TRUE]
  /\ Goto(p, "cleanup")
  /\ UNCHANGED <<broker, posted, nr, result, servers>>

JoinTimesOut(p) ==
  /\ client[p] = "join"
  /\ Goto(p, "cleanup")
  /\ UNCHANGED <<broker, posted, nr, result, servers, tidy>>

\* The request queue is deleted, whoever else uses it.
Cleanup(p) ==
  /\ client[p] = "cleanup"
  /\ \/ DeleteRequests /\ UNCHANGED tidy
     \/ Unreliable /\ UNCHANGED broker /\ tidy' = [tidy EXCEPT ![p] = FALSE]
  /\ Goto(p, "exit")
  /\ UNCHANGED <<posted, nr, result, servers>>

\* The daemon thread dies with the program.
Exit(p) ==
  /\ client[p] = "exit"
  /\ Goto(p, "end")
  /\ server' = [server EXCEPT ![p] = "ended"]
  /\ taken' = [taken EXCEPT ![p] = Nothing]
  /\ UNCHANGED <<broker, posted, nr, result, stop, tidy, served>>

-----------------------------------------------------------------------------
(* run_server() *)

clients == <<client, nr, result, stop, tidy>>
Serve(p, label) == server' = [server EXCEPT ![p] = label]

ServerDeclares(p) ==
  /\ server[p] = "declare"
  /\ DeclareRequests
  /\ Serve(p, "check")
  /\ UNCHANGED <<posted, clients, taken, served>>

\* while not stop.is_set()
ServerChecks(p) ==
  /\ server[p] = "check"
  /\ Serve(p, IF stop[p] THEN "ended" ELSE "consume")
  /\ UNCHANGED <<broker, posted, clients, taken, served>>

\* An empty queue sends the loop back; one that is gone ends the thread.
ServerConsumes(p) ==
  /\ server[p] = "consume"
  /\ \/ \E m \in requests :
          /\ TakeRequest(m)
          /\ taken' = [taken EXCEPT ![p] = m]
          /\ Serve(p, "reply")
     \/ /\ requests = {}
        /\ Serve(p, IF declared THEN "check" ELSE "ended")
        /\ UNCHANGED <<broker, taken>>
  /\ UNCHANGED <<posted, clients, served>>

\* int() raises for what is no number; without reply_to there is nothing to do: which of
\* the two a stranger's message is, the model leaves open.
ServerReplies(p) ==
  /\ server[p] = "reply"
  /\ taken' = [taken EXCEPT ![p] = Nothing]
  /\ IF taken[p] \in Strangers
     THEN (Serve(p, "ended") \/ Serve(p, "check")) /\ UNCHANGED <<broker, served>>
     ELSE /\ PublishReply(taken[p])
          /\ served' = [served EXCEPT ![taken[p]] = @ + 1]
          /\ Serve(p, "check")
  /\ UNCHANGED <<posted, clients>>

\* A tool raises, and with it the thread ends; what it has fetched is lost.
ServerFails(p) ==
  /\ Unreliable
  /\ \/ server[p] \in {"declare", "consume", "reply"} /\ UNCHANGED <<broker, served>>
     \/ server[p] = "declare" /\ DeclareRequests /\ UNCHANGED served
     \/ server[p] = "consume" /\ (\E m \in requests : TakeRequest(m)) /\ UNCHANGED served
     \/ /\ server[p] = "reply" /\ taken[p] \notin Strangers
        /\ PublishReply(taken[p])
        /\ served' = [served EXCEPT ![taken[p]] = @ + 1]
  /\ Serve(p, "ended")
  /\ taken' = [taken EXCEPT ![p] = Nothing]
  /\ UNCHANGED <<posted, clients>>

\* External.
Stranger(m) ==
  /\ m \notin posted /\ declared
  /\ posted' = posted \cup {m}
  /\ requests' = requests \cup {m}
  /\ UNCHANGED <<declared, queues, replies, clients, server, taken, served>>

-----------------------------------------------------------------------------
Client(p) ==
  \/ Declare(p) \/ Publish(p) \/ Poll(p) \/ Expire(p) \/ Delete(p)
  \/ Stop(p) \/ Join(p) \/ JoinTimesOut(p) \/ Cleanup(p) \/ Exit(p)

Server(p) ==
  ServerDeclares(p) \/ ServerChecks(p) \/ ServerConsumes(p) \/ ServerReplies(p)

Next ==
  \/ \E p \in Programs : Client(p) \/ CallFails(p) \/ Server(p) \/ ServerFails(p)
  \/ \E m \in Strangers : Stranger(m)

Spec == Init /\ [][Next]_vars

\* The operating system runs the main thread, and time passes; nothing is asked of the
\* server thread, nor that anything fails.
FairSpec == Spec /\ \A p \in Programs : WF_vars(Client(p))

-----------------------------------------------------------------------------
(* Properties *)

\* A call returns the answer to its own number, whichever program's server gives it and
\* whoever else is waiting for one, though correlation ids are not compared (rpc.py:76-84).
RightReply == \A c \in Calls : result[c] \in Calls => result[c] = c

\* No request is answered twice, though several servers share the queue (rpc.py:38-40).
AtMostOnce == \A c \in Calls : served[c] <= 1

\* A call that returns, or raises TimeoutError, leaves no reply queue behind
\* (rpc.py:83-86).
NoReplyQueueLeft ==
  \A c \in Calls :
    result[c] \in Calls \cup {TimedOut} /\ ~(Call(c[1]) = c /\ client[c[1]] = "delete") =>
      c \notin queues

\* When all programs have ended, each having joined its server and deleted the request
\* queue, it is gone, though their servers declare it when they like (rpc.py:34, 97-101).
RequestQueueGone ==
  (\A p \in Programs : client[p] = "end" /\ tidy[p]) => ~declared

\* Every program ends, whatever becomes of its server or of its requests: dropped because
\* the queue was not there yet, or taken by a server that ended (rpc.py:77-87, 98-100).
ProgramEnds == \A p \in Programs : <>(client[p] = "end")

\* The call has not published its request.
Unsent(c) ==
  \/ nr[c[1]] < c[2]
  \/ nr[c[1]] = c[2] /\ client[c[1]] \in {"declare", "publish"}

\* The outcome main() knows of: a call that still deletes its reply queue has none.
Outcome(c) ==
  IF Call(c[1]) = c /\ client[c[1]] = "delete" THEN Nothing ELSE result[c]

Calling == INSTANCE RemoteCall WITH
  asked <- {c \in Calls : ~Unsent(c)},
  answers <- served,
  outcome <- [c \in Calls |-> Outcome(c)]

\* The program is a RemoteCall: whatever fails, and whoever shares the request queue, its
\* calls are made in order, none after one that failed, and what a call returns was
\* asked for and answered, once, before (rpc.py:77-87, 96-97).
ImplementsRemoteCall == Calling!Spec
=============================================================================
