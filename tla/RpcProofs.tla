------------------------------ MODULE RpcProofs ------------------------------
(***************************************************************************)
(* Theorems about Rpc, for any number of programs and calls.                 *)
(*                                                                          *)
(* Each property has a part of the invariant of its own.  That no call is     *)
(* answered twice needs to know where its only request is: not sent, in the  *)
(* queue, in the hands of one server, or gone (OnceInv).                     *)
(***************************************************************************)
EXTENDS Rpc, TLAPS

\* What a reply queue holds is the answer to the call it belongs to.
ReplyInv == \A r \in replies : r[1] = r[2]

OnceInv ==
  \A c \in Calls :
    /\ Unsent(c) => c \notin requests
    /\ c \in requests => \A p \in Programs : taken[p] # c
    /\ \A p, q \in Programs : taken[p] = c /\ taken[q] = c => p = q
    /\ Unsent(c) \/ c \in requests \/ (\E p \in Programs : taken[p] = c) => served[c] = 0
    /\ Unsent(c) => \A p \in Programs : taken[p] # c
    /\ served[c] <= 1

\* A call has no outcome before it has one.
PendingInv ==
  \A c \in Calls :
    nr[c[1]] < c[2] \/ (nr[c[1]] = c[2] /\ client[c[1]] \in {"declare", "publish", "poll"}) =>
      result[c] = Nothing

\* Once a server is joined it is over; only a server declares the request queue.
TidyInv ==
  /\ \A p \in Programs :
       tidy[p] => client[p] \in {"cleanup", "exit", "end"} /\ server[p] = "ended"
  /\ (\A p \in Programs : client[p] \in {"exit", "end"} /\ tidy[p]) => ~declared
-----------------------------------------------------------------------------

LEMMA CallParts ==
  /\ \A c \in Calls : /\ c[1] \in Programs /\ c[2] \in Nat /\ c[2] >= 1
                      /\ c[2] <= NumCalls[c[1]] /\ c = <<c[1], c[2]>>
  /\ \A p \in Programs : NumCalls[p] \in Nat
                         /\ \A i \in Nat : i >= 1 /\ i <= NumCalls[p] => <<p, i>> \in Calls
  BY NumCallsAssumption DEF Calls

LEMMA CallMade ==
  ASSUME NEW p \in Programs, NEW i \in Nat, i >= 1, i <= NumCalls[p]
  PROVE  <<p, i>> \in Calls
  BY CallParts

LEMMA CallOf ==
  ASSUME TypeOK, NEW p \in Programs
  PROVE  /\ Call(p) \in Calls /\ Call(p)[1] = p /\ Call(p)[2] = nr[p]
         /\ nr[p] \in Nat /\ nr[p] <= NumCalls[p]
         /\ \A c \in Calls : c[1] = p /\ c[2] = nr[p] => c = Call(p)
  BY CallParts DEF TypeOK, Call

LEMMA TypeInitial == Init => TypeOK
<1> SUFFICES ASSUME Init
             PROVE  TypeOK
  OBVIOUS
<1>1. nr \in [Programs -> Nat] /\ \A p \in Programs : nr[p] = 1 /\ 1 <= NumCalls[p]
  BY NumCallsAssumption DEF Init
<1>2. ASSUME NEW p \in Programs
      PROVE  Call(p) \in Calls
  <2>1. nr[p] \in Nat /\ nr[p] >= 1 /\ nr[p] <= NumCalls[p]
    BY <1>1
  <2> QED
    BY <2>1, CallMade DEF Call
<1> QED
  BY <1>1, <1>2 DEF Init, TypeOK, InCall

LEMMA TypeKeeps == TypeOK /\ [Next]_vars => TypeOK'
<1> SUFFICES ASSUME TypeOK, [Next]_vars
             PROVE  TypeOK'
  OBVIOUS
<1> USE DEF TypeOK, InCall, Goto, Ends, Serve, broker, servers, clients, ReplyQueue
<1>1. ASSUME NEW p \in Programs, Client(p)
      PROVE  TypeOK'
  <2>1. CASE Declare(p)
    BY <2>1 DEF Declare, DeclareReply, Call
  <2>2. CASE Publish(p)
    BY <2>2 DEF Publish, PublishRequest, Call
  <2>3. CASE Poll(p)
    BY <2>3 DEF Poll, TakeReply, Call
  <2>4. CASE Expire(p)
    BY <2>4 DEF Expire, MayExpire, Call
  <2>5. CASE Delete(p)
    <3>1. nr[p] \in Nat /\ nr[p] >= 1 /\ nr[p] <= NumCalls[p] /\ NumCalls[p] \in Nat
      BY CallParts DEF Call
    <3>2. nr' = nr \/ (nr[p] # NumCalls[p] /\ nr' = [nr EXCEPT ![p] = @ + 1])
      BY <2>5 DEF Delete, LeavesLoop, LastCall
    <3>3. nr' \in [Programs -> Nat]
      BY <3>1, <3>2
    <3>4. ASSUME NEW q \in Programs
          PROVE  <<q, nr'[q]>> \in Calls
      <4>1. CASE nr'[q] = nr[q]
        BY <4>1 DEF Call
      <4>2. CASE q = p /\ nr[p] # NumCalls[p] /\ nr'[p] = nr[p] + 1
        <5>1. nr'[p] \in Nat /\ nr'[p] >= 1 /\ nr'[p] <= NumCalls[p]
          BY <3>1, <4>2
        <5> QED
          BY <5>1, <4>2, CallMade
      <4> QED
        BY <3>1, <3>2, <4>1, <4>2
    <3> QED
      BY <2>5, <3>3, <3>4 DEF Delete, DeleteReply, DeleteReplyQueue, Call
  <2>6. CASE Stop(p) \/ Join(p) \/ JoinTimesOut(p) \/ Cleanup(p) \/ Exit(p)
    BY <2>6 DEF Stop, Join, JoinTimesOut, Cleanup, DeleteRequests, Exit, Call
  <2> QED
    BY <1>1, <2>1, <2>2, <2>3, <2>4, <2>5, <2>6 DEF Client
<1>2. ASSUME NEW p \in Programs, CallFails(p)
      PROVE  TypeOK'
  BY <1>2 DEF CallFails, DeclareReply, PublishRequest, TakeReply, DeleteReplyQueue, Call
<1>3. ASSUME NEW p \in Programs, Server(p)
      PROVE  TypeOK'
  <2>1. CASE ServerDeclares(p) \/ ServerChecks(p)
    BY <2>1 DEF ServerDeclares, DeclareRequests, ServerChecks, Call
  <2>2. CASE ServerConsumes(p)
    BY <2>2 DEF ServerConsumes, TakeRequest, Call
  <2>3. CASE ServerReplies(p)
    BY <2>3, DistinctAssumption DEF ServerReplies, PublishReply, Call
  <2> QED
    BY <1>3, <2>1, <2>2, <2>3 DEF Server
<1>4. ASSUME NEW p \in Programs, ServerFails(p)
      PROVE  TypeOK'
  <2>0. (UNCHANGED declared \/ declared' = TRUE) /\ requests' \subseteq requests
    BY <1>4 DEF ServerFails, DeclareRequests, TakeRequest, PublishReply
  <2>1. declared' \in BOOLEAN /\ requests' \subseteq requests /\ (requests' # {} => declared')
    <3>1. CASE declared' = TRUE
      BY <3>1, <2>0
    <3>2. CASE UNCHANGED declared
      BY <3>2, <2>0
    <3> QED
      BY <2>0, <3>1, <3>2
  <2>2. queues' = queues /\ replies' \subseteq queues \X Calls
    BY <1>4, DistinctAssumption DEF ServerFails, DeclareRequests, TakeRequest, PublishReply
  <2>3. served' \in [Calls -> Nat]
    BY <1>4 DEF ServerFails
  <2> QED
    BY <1>4, <2>1, <2>2, <2>3 DEF ServerFails, Call
<1>5. ASSUME NEW m \in Strangers, Stranger(m)
      PROVE  TypeOK'
  BY <1>5 DEF Stranger, Call
<1>6. CASE UNCHANGED vars
  BY <1>6 DEF vars, Call
<1> QED
  BY <1>1, <1>2, <1>3, <1>4, <1>5, <1>6 DEF Next

\* The bookkeeping of the broker and of main(): calls are made in order, none beyond the
\* last, and what a reply queue holds is gone with it.
THEOREM TypeCorrect == Spec => []TypeOK
  BY TypeInitial, TypeKeeps, PTL DEF Spec
-----------------------------------------------------------------------------

LEMMA RepliesRight == TypeOK /\ ReplyInv /\ [Next]_vars => ReplyInv'
<1> SUFFICES ASSUME TypeOK, ReplyInv, [Next]_vars
             PROVE  ReplyInv'
  OBVIOUS
<1>1. ASSUME NEW c, replies' \subseteq replies \cup {<<c, c>>}
      PROVE  ReplyInv'
  BY <1>1 DEF ReplyInv
<1>2. ASSUME NEW p \in Programs, Client(p) \/ CallFails(p)
      PROVE  replies' \subseteq replies
  BY <1>2 DEF Client, CallFails, Declare, DeclareReply, Publish, PublishRequest, Poll, TakeReply,
              Expire, broker, Delete, DeleteReply, DeleteReplyQueue, Stop, Join, JoinTimesOut,
              Cleanup, DeleteRequests, Exit
<1>3. ASSUME NEW p \in Programs, Server(p) \/ ServerFails(p)
      PROVE  replies' \subseteq replies \cup {<<taken[p], taken[p]>>}
  BY <1>3 DEF Server, ServerFails, ServerDeclares, DeclareRequests, ServerChecks, ServerConsumes,
              TakeRequest, ServerReplies, PublishReply, ReplyQueue, broker
<1>4. ASSUME NEW m \in Strangers, Stranger(m)
      PROVE  replies' \subseteq replies
  BY <1>4 DEF Stranger
<1> QED
  BY <1>1, <1>2, <1>3, <1>4 DEF Next, vars, broker

\* A call never returns the answer to another.
THEOREM AnswersMatch == Spec => []RightReply
<1>1. Init => ReplyInv /\ RightReply
  BY DistinctAssumption DEF Init, ReplyInv, RightReply
<1>2. TypeOK /\ ReplyInv /\ RightReply /\ [Next]_vars => RightReply'
  <2> SUFFICES ASSUME TypeOK, ReplyInv, RightReply, [Next]_vars
               PROVE  RightReply'
    OBVIOUS
  <2>1. ASSUME NEW p \in Programs, NEW r \in Calls \cup {TimedOut, Error}, Ends(p, r),
               r \in Calls => r = Call(p)
        PROVE  RightReply'
    BY <2>1 DEF Ends, RightReply, TypeOK
  <2>2. ASSUME UNCHANGED result
        PROVE  RightReply'
    BY <2>2 DEF RightReply
  <2>3. ASSUME NEW p \in Programs, Client(p)
        PROVE  RightReply'
    <3>1. CASE Poll(p)
      <4>1. PICK r \in replies : r[1] = Call(p) /\ Ends(p, r[2])
        BY <3>1 DEF Poll, ReplyQueue
      <4>2. r[2] = Call(p) /\ r[2] \in Calls
        BY <4>1 DEF ReplyInv, TypeOK
      <4> QED
        BY <4>1, <4>2, <2>1
    <3>2. CASE Expire(p)
      BY <3>2, <2>1, DistinctAssumption DEF Expire
    <3>3. CASE UNCHANGED result
      BY <3>3, <2>2
    <3> QED
      BY <2>3, <3>1, <3>2, <3>3 DEF Client, Declare, Publish, Delete, Stop, Join, JoinTimesOut,
                                    Cleanup, Exit
  <2>4. ASSUME NEW p \in Programs, CallFails(p)
        PROVE  RightReply'
    BY <2>4, <2>1, DistinctAssumption DEF CallFails
  <2>5. ASSUME NEW p \in Programs, Server(p) \/ ServerFails(p)
        PROVE  UNCHANGED result
    BY <2>5 DEF Server, ServerFails, ServerDeclares, ServerChecks, ServerConsumes, ServerReplies,
                clients
  <2>6. ASSUME NEW m \in Strangers, Stranger(m)
        PROVE  UNCHANGED result
    BY <2>6 DEF Stranger, clients
  <2> QED
    BY <2>2, <2>3, <2>4, <2>5, <2>6 DEF Next, vars
<1> QED
  BY <1>1, <1>2, RepliesRight, TypeCorrect, PTL DEF Spec
-----------------------------------------------------------------------------

LEMMA OnceKeeps == TypeOK /\ OnceInv /\ [Next]_vars => OnceInv'
<1> SUFFICES ASSUME TypeOK, OnceInv, [Next]_vars
             PROVE  OnceInv'
  OBVIOUS
<1> DEFINE progress == \A c \in Calls : Unsent(c)' => Unsent(c)
\* The step sends no request, and takes or answers none.
<1>1. ASSUME progress, requests' \subseteq requests \cup Strangers, UNCHANGED <<taken, served>>
      PROVE  OnceInv'
  BY <1>1, DistinctAssumption DEF OnceInv
<1>2. ASSUME NEW p \in Programs, Client(p)
      PROVE  OnceInv'
  <2>1. CASE Publish(p)
    <3>1. PICK c \in Calls : c = Call(p) /\ c[1] = p /\ c[2] = nr[p]
      BY CallOf
    <3>2. Unsent(c) /\ ~Unsent(c)' /\ progress
      BY <2>1, <3>1 DEF Publish, Goto, Unsent, TypeOK
    <3>3. requests' \subseteq requests \cup {c} /\ UNCHANGED <<taken, served>>
      BY <2>1, <3>1 DEF Publish, PublishRequest, servers
    <3> QED
      BY <3>2, <3>3 DEF OnceInv
  <2>2. CASE Delete(p)
    <3>1. progress
      <4>1. ASSUME NEW c \in Calls, c[1] = p, Unsent(c)'
            PROVE  nr[p] < c[2]
        BY <2>2, <4>1, CallParts DEF Delete, Goto, Unsent, TypeOK
      <4>2. ASSUME NEW c \in Calls, c[1] # p
            PROVE  Unsent(c)' => Unsent(c)
        <5>1. nr'[c[1]] = nr[c[1]] /\ client'[c[1]] = client[c[1]]
          BY <2>2, <4>2, CallParts DEF Delete, Goto, TypeOK
        <5> QED
          BY <5>1 DEF Unsent
      <4> QED
        BY <4>1, <4>2 DEF Unsent
    <3> QED
      BY <2>2, <3>1, <1>1 DEF Delete, DeleteReply, DeleteReplyQueue, servers
  <2>3. CASE ~Publish(p) /\ ~Delete(p)
    <3>1. progress
      BY <1>2, <2>3, CallParts DEF Client, Declare, Poll, Expire, Stop, Join, JoinTimesOut, Cleanup,
                                   Exit, Goto, Unsent, TypeOK
    <3>2. CASE UNCHANGED <<taken, served>>
      BY <1>2, <2>3, <3>1, <3>2, <1>1
         DEF Client, Declare, DeclareReply, Poll, TakeReply, Expire, Stop, Join, JoinTimesOut,
             Cleanup, DeleteRequests, Exit, broker
    <3>3. CASE Exit(p)
      BY <3>3, <3>1, DistinctAssumption DEF Exit, broker, OnceInv, TypeOK
    <3> QED
      BY <1>2, <2>3, <3>2, <3>3 DEF Client, Declare, Poll, Expire, Stop, Join, JoinTimesOut,
                                    Cleanup, servers
  <2> QED
    BY <2>1, <2>2, <2>3
<1>3. ASSUME NEW p \in Programs, CallFails(p)
      PROVE  OnceInv'
  <2>0. PICK c \in Calls : c = Call(p) /\ c[1] = p /\ c[2] = nr[p]
    BY CallOf
  <2>1. progress /\ ~Unsent(c)'
    <3>1. nr' = nr /\ client' = [client EXCEPT ![p] = "stop"]
      BY <1>3 DEF CallFails, Goto
    <3> QED
      BY <2>0, <3>1, CallParts DEF Unsent, TypeOK
  <2>2. UNCHANGED <<taken, served>>
    BY <1>3 DEF CallFails, servers
  <2>3. CASE requests' \subseteq requests
    BY <2>1, <2>2, <2>3, <1>1
  <2>4. CASE client[p] = "publish" /\ requests' \subseteq requests \cup {Call(p)}
    <3>1. Unsent(c)
      BY <2>0, <2>4 DEF Unsent
    <3> QED
      BY <2>0, <2>1, <2>2, <2>4, <3>1 DEF OnceInv
  <2> QED
    BY <1>3, <2>3, <2>4 DEF CallFails, broker, DeclareReply, PublishRequest, TakeReply,
                            DeleteReplyQueue
<1>4. ASSUME NEW p \in Programs, Server(p) \/ ServerFails(p)
      PROVE  OnceInv'
  <2>1. progress
    BY <1>4 DEF Server, ServerFails, ServerDeclares, ServerChecks, ServerConsumes, ServerReplies,
                clients, Unsent
  <2>2. CASE requests' \subseteq requests /\ UNCHANGED served
             /\ (taken' = taken \/ taken' = [taken EXCEPT ![p] = Nothing])
    BY <2>1, <2>2, DistinctAssumption DEF OnceInv, TypeOK
  <2>3. ASSUME NEW m \in requests, TakeRequest(m), taken' = [taken EXCEPT ![p] = m],
               UNCHANGED served
        PROVE  OnceInv'
    BY <2>1, <2>3 DEF TakeRequest, OnceInv, TypeOK
  <2>4. CASE /\ requests' = requests /\ taken' = [taken EXCEPT ![p] = Nothing]
             /\ served' = [served EXCEPT ![taken[p]] = @ + 1]
    BY <2>1, <2>4, DistinctAssumption DEF OnceInv, TypeOK
  <2> QED
    BY <1>4, <2>2, <2>3, <2>4 DEF Server, ServerFails, ServerDeclares, DeclareRequests, ServerChecks,
                                  ServerConsumes, TakeRequest, ServerReplies, PublishReply, broker
<1>5. ASSUME NEW m \in Strangers, Stranger(m)
      PROVE  OnceInv'
  BY <1>5, <1>1 DEF Stranger, clients, Unsent
<1>6. CASE UNCHANGED vars
  BY <1>6, <1>1 DEF vars, broker, Unsent
<1> QED
  BY <1>2, <1>3, <1>4, <1>5, <1>6 DEF Next

\* rpc.py:38-43: a fetched request is gone from the queue, and one server has it.
THEOREM ServedOnce == Spec => []AtMostOnce
<1>1. Init => OnceInv
  BY DistinctAssumption DEF Init, OnceInv
<1>2. OnceInv => AtMostOnce
  BY DEF OnceInv, AtMostOnce
<1> QED
  BY <1>1, <1>2, OnceKeeps, TypeCorrect, PTL DEF Spec
-----------------------------------------------------------------------------

\* NoReplyQueueLeft, of one call.
QueueGone(c) ==
  result[c] \in Calls \cup {TimedOut} /\ ~(Call(c[1]) = c /\ client[c[1]] = "delete") =>
    c \notin queues

LEMMA PendingKeeps == TypeOK /\ PendingInv /\ [Next]_vars => PendingInv'
<1> SUFFICES ASSUME TypeOK, PendingInv, [Next]_vars
             PROVE  PendingInv'
  OBVIOUS
<1>1. ASSUME UNCHANGED <<nr, client, result>>
      PROVE  PendingInv'
  BY <1>1 DEF PendingInv
<1>2. ASSUME NEW p \in Programs, Client(p) \/ CallFails(p)
      PROVE  PendingInv'
  <2> SUFFICES ASSUME NEW c \in Calls,
                      \/ nr'[c[1]] < c[2]
                      \/ nr'[c[1]] = c[2] /\ client'[c[1]] \in {"declare", "publish", "poll"}
               PROVE  result'[c] = Nothing
    BY DEF PendingInv
  <2>1. c[1] \in Programs /\ c[2] \in Nat /\ Call(p) \in Calls /\ Call(p) = <<p, nr[p]>>
        /\ c = <<c[1], c[2]>>
    BY CallOf, CallParts DEF Call
  <2>2. CASE c[1] # p
    <3>1. nr'[c[1]] = nr[c[1]] /\ client'[c[1]] = client[c[1]] /\ result'[c] = result[c]
      BY <1>2, <2>1, <2>2 DEF Client, CallFails, Declare, Publish, Poll, Expire, Delete, Stop, Join,
                              JoinTimesOut, Cleanup, Exit, Goto, Ends, TypeOK
    <3> QED
      BY <3>1, <2>1 DEF PendingInv
  <2>3. CASE c[1] = p
    <3>1. CASE Declare(p) \/ Publish(p) \/ Stop(p) \/ Join(p) \/ JoinTimesOut(p) \/ Cleanup(p)
               \/ Exit(p)
      BY <3>1, <2>3 DEF Declare, Publish, Stop, Join, JoinTimesOut, Cleanup, Exit, Goto, servers,
                        PendingInv, TypeOK
    <3>2. CASE Poll(p) \/ Expire(p) \/ CallFails(p)
      <4>1. nr' = nr /\ client'[p] \in {"delete", "stop"}
            /\ \E r : Ends(p, r)
        BY <3>2 DEF Poll, Expire, CallFails, Goto, TypeOK
      <4>2. nr[p] < c[2] /\ c # Call(p)
        BY <4>1, <2>1, <2>3 DEF TypeOK
      <4> QED
        BY <4>1, <4>2, <2>1, <2>3 DEF Ends, PendingInv, TypeOK
    <3>3. CASE Delete(p)
      <4>1. nr[p] < c[2] /\ result' = result
        BY <3>3, <2>1, <2>3 DEF Delete, Goto, TypeOK
      <4> QED
        BY <4>1, <2>3 DEF PendingInv
    <3> QED
      BY <1>2, <3>1, <3>2, <3>3 DEF Client
  <2> QED
    BY <2>2, <2>3
<1>3. ASSUME NEW p \in Programs, Server(p) \/ ServerFails(p)
      PROVE  PendingInv'
  BY <1>3, <1>1 DEF Server, ServerFails, ServerDeclares, ServerChecks, ServerConsumes,
                    ServerReplies, clients
<1> QED
  BY <1>1, <1>2, <1>3 DEF Next, Stranger, clients, vars

\* rpc.py:85-86: the finally clause deletes the reply queue, also after a timeout.
THEOREM ReplyQueuesDeleted == Spec => []NoReplyQueueLeft
<1>1. Init => PendingInv /\ NoReplyQueueLeft
  BY DEF Init, PendingInv, NoReplyQueueLeft
<1>2. TypeOK /\ PendingInv /\ NoReplyQueueLeft /\ [Next]_vars => NoReplyQueueLeft'
  <2> SUFFICES ASSUME TypeOK, PendingInv, \A c \in Calls : QueueGone(c), [Next]_vars,
                      NEW c \in Calls
               PROVE  QueueGone(c)'
    BY DEF NoReplyQueueLeft, QueueGone
  <2>0. c[1] \in Programs /\ c[2] \in Nat /\ c = <<c[1], c[2]>> /\ QueueGone(c)
    BY CallParts
  <2>1. ASSUME nr'[c[1]] = nr[c[1]], client'[c[1]] = client[c[1]], result'[c] = result[c],
               c \in queues' => c \in queues
        PROVE  QueueGone(c)'
    BY <2>1, <2>0 DEF QueueGone, Call
  <2>2. ASSUME NEW p \in Programs, Client(p) \/ CallFails(p)
        PROVE  QueueGone(c)'
    <3>1. Call(p) \in Calls /\ Call(p) = <<p, nr[p]>>
      BY CallOf DEF Call
    <3>2. CASE c[1] # p
      <4>1. nr'[c[1]] = nr[c[1]] /\ client'[c[1]] = client[c[1]] /\ result'[c] = result[c]
        BY <2>2, <2>0, <3>1, <3>2
           DEF Client, CallFails, Declare, Publish, Poll, Expire, Delete, Stop, Join, JoinTimesOut,
               Cleanup, Exit, Goto, Ends, TypeOK
      <4>2. c \in queues' => c \in queues
        BY <2>2, <2>0, <3>1, <3>2
           DEF Client, CallFails, Declare, DeclareReply, Publish, PublishRequest, Poll, TakeReply,
               Expire, Delete, DeleteReply, DeleteReplyQueue, Stop, Join, JoinTimesOut, Cleanup,
               DeleteRequests, Exit, broker, ReplyQueue
      <4> QED
        BY <4>1, <4>2, <2>1
    <3>3. CASE c[1] = p
      <4>1. CASE Declare(p)
        <5>1. result' = result /\ nr' = nr /\ client[p] = "declare" /\ client'[p] = "publish"
              /\ queues' = queues \cup {Call(p)}
          BY <4>1 DEF Declare, DeclareReply, ReplyQueue, Goto, TypeOK
        <5>2. CASE c = Call(p)
          <6>1. result'[c] = Nothing
            BY <5>1, <5>2, <3>1, <3>3, <2>0 DEF PendingInv, TypeOK
          <6> QED
            BY <6>1, DistinctAssumption DEF QueueGone
        <5>3. CASE c # Call(p)
          BY <5>1, <5>3, <2>0, <3>1, <3>3 DEF QueueGone, Call
        <5> QED
          BY <5>2, <5>3
      <4>2. CASE Publish(p) \/ Stop(p) \/ Join(p) \/ JoinTimesOut(p) \/ Cleanup(p) \/ Exit(p)
        <5>1. /\ result' = result /\ nr' = nr /\ queues' = queues /\ client[p] # "delete"
          BY <4>2 DEF Publish, PublishRequest, Stop, Join, JoinTimesOut, Cleanup, DeleteRequests,
                      Exit, broker, servers
        <5> QED
          BY <5>1, <2>0, <3>3 DEF QueueGone, Call
      <4>3. CASE Poll(p) \/ Expire(p)
        <5>1. nr' = nr /\ queues' = queues /\ client[p] = "poll" /\ client'[p] = "delete"
              /\ \E r : Ends(p, r)
          BY <4>3 DEF Poll, TakeReply, Expire, MayExpire, broker, Goto, TypeOK
        <5>2. CASE c = Call(p)
          BY <5>1, <5>2, <3>1, <3>3 DEF QueueGone, Call
        <5>3. CASE c # Call(p)
          <6>1. result'[c] = result[c]
            BY <5>1, <5>3, <3>1 DEF Ends, TypeOK
          <6> QED
            BY <5>1, <5>3, <6>1, <2>0, <3>1, <3>3 DEF QueueGone, Call
        <5> QED
          BY <5>2, <5>3
      <4>4. CASE Delete(p)
        <5>1. result' = result /\ queues' = queues \ {Call(p)}
          BY <4>4 DEF Delete, DeleteReply, DeleteReplyQueue, ReplyQueue
        <5>2. CASE c = Call(p)
          BY <5>1, <5>2 DEF QueueGone
        <5>3. CASE c # Call(p)
          BY <5>1, <5>3, <2>0, <3>1, <3>3 DEF QueueGone, Call
        <5> QED
          BY <5>2, <5>3
      <4>5. CASE CallFails(p)
        <5>1. /\ result' = [result EXCEPT ![Call(p)] = Error]
              /\ nr' = nr /\ (c \in queues' => c \in queues \/ c = Call(p))
          BY <4>5, <2>0, <3>1, <3>3
             DEF CallFails, Ends, broker, DeclareReply, PublishRequest, TakeReply, DeleteReplyQueue,
                 ReplyQueue
        <5>2. CASE c = Call(p)
          BY <5>1, <5>2, <3>1, DistinctAssumption DEF QueueGone, TypeOK
        <5>3. CASE c # Call(p)
          <6>1. result'[c] = result[c]
            BY <5>1, <5>3, <3>1 DEF TypeOK
          <6> QED
            BY <5>1, <5>3, <6>1, <2>0, <3>1, <3>3 DEF QueueGone, Call
        <5> QED
          BY <5>2, <5>3
      <4> QED
        BY <2>2, <4>1, <4>2, <4>3, <4>4, <4>5 DEF Client
    <3> QED
      BY <3>2, <3>3
  <2>3. ASSUME NEW p \in Programs, Server(p) \/ ServerFails(p)
        PROVE  QueueGone(c)'
    BY <2>3, <2>1 DEF Server, ServerFails, ServerDeclares, DeclareRequests, ServerChecks,
                      ServerConsumes, TakeRequest, ServerReplies, PublishReply, clients, broker
  <2> QED
    BY <2>1, <2>2, <2>3 DEF Next, Stranger, clients, vars, broker
<1> QED
  BY <1>1, <1>2, PendingKeeps, TypeCorrect, PTL DEF Spec
-----------------------------------------------------------------------------

LEMMA TidyKeeps == TypeOK /\ TidyInv /\ [Next]_vars => TidyInv'
<1> SUFFICES ASSUME TypeOK, TidyInv, [Next]_vars
             PROVE  TidyInv'
  OBVIOUS
<1>1. ASSUME NEW p \in Programs, Client(p) \/ CallFails(p)
      PROVE  TidyInv'
  <2>1. CASE Join(p)
    BY <2>1 DEF Join, Joined, Goto, broker, servers, TidyInv, TypeOK
  <2>2. CASE Cleanup(p)
    BY <2>2 DEF Cleanup, DeleteRequests, Goto, broker, servers, TidyInv, TypeOK
  <2>3. CASE Exit(p)
    BY <2>3 DEF Exit, Goto, broker, TidyInv, TypeOK
  <2>4. CASE JoinTimesOut(p)
    BY <2>4 DEF JoinTimesOut, Goto, broker, servers, TidyInv, TypeOK
  <2>5. CASE client[p] \in InCall \cup {"stop"}
    <3>1. /\ UNCHANGED <<tidy, server, declared>>
          /\ \E l \in InCall \cup {"stop", "join"} : client' = [client EXCEPT ![p] = l]
      BY <1>1, <2>5 DEF Client, CallFails, Declare, DeclareReply, Publish, PublishRequest, Poll,
                        TakeReply, Expire, Delete, DeleteReply, DeleteReplyQueue, Stop, Join,
                        JoinTimesOut, Cleanup, Exit, Goto, broker, servers, InCall
    <3> QED
      BY <3>1, <2>5 DEF TidyInv, TypeOK, InCall
  <2> QED
    BY <1>1, <2>1, <2>2, <2>3, <2>4, <2>5
       DEF Client, CallFails, Declare, Publish, Poll, Expire, MayExpire, Delete, Stop, InCall
<1>2. ASSUME NEW p \in Programs, Server(p) \/ ServerFails(p)
      PROVE  TidyInv'
  <2>1. ~tidy[p]
    BY <1>2 DEF TidyInv, Server, ServerFails, ServerDeclares, ServerChecks, ServerConsumes,
                ServerReplies
  <2>2. UNCHANGED <<client, tidy>> /\ \A q \in Programs \ {p} : server'[q] = server[q]
    BY <1>2 DEF Server, ServerFails, ServerDeclares, ServerChecks, ServerConsumes, ServerReplies,
                Serve, clients, TypeOK
  <2> QED
    BY <2>1, <2>2 DEF TidyInv
<1> QED
  BY <1>1, <1>2 DEF Next, Stranger, clients, vars, broker, TidyInv

\* rpc.py:98-101: the server is joined before the request queue is deleted.
THEOREM RequestQueueDeleted == Spec => []RequestQueueGone
<1>1. Init => TidyInv
  BY DEF Init, TidyInv
<1>2. TypeOK /\ TidyInv => RequestQueueGone
  BY DEF TidyInv, RequestQueueGone
<1> QED
  BY <1>1, <1>2, TidyKeeps, TypeCorrect, PTL DEF Spec
-----------------------------------------------------------------------------
(* Implementation: every step is one of RemoteCall, or leaves its view alone.  *)

\* An answer in a reply queue, or returned, was given by a server.
GivenInv ==
  /\ \A r \in replies : served[r[2]] >= 1
  /\ \A c \in Calls : result[c] = c => served[c] >= 1

\* The calls before the current one have returned; this one, when it has an outcome and
\* goes on, has returned or timed out.
OrderInv ==
  \A c \in Calls :
    /\ c[2] < nr[c[1]] => result[c] = c
    /\ c = Call(c[1]) /\ client[c[1]] = "delete" => result[c] \in {c, TimedOut}

CallInv == TypeOK /\ ReplyInv /\ OnceInv /\ PendingInv /\ GivenInv /\ OrderInv

LEMMA GivenKeeps == TypeOK /\ ReplyInv /\ GivenInv /\ [Next]_vars => GivenInv'
<1> SUFFICES ASSUME TypeOK, ReplyInv, GivenInv, [Next]_vars
             PROVE  GivenInv'
  OBVIOUS
<1>1. ASSUME replies' \subseteq replies, UNCHANGED <<result, served>>
      PROVE  GivenInv'
  BY <1>1 DEF GivenInv
<1>2. ASSUME NEW p \in Programs, Client(p) \/ CallFails(p)
      PROVE  GivenInv'
  <2>1. replies' \subseteq replies /\ UNCHANGED served
    BY <1>2 DEF Client, CallFails, Declare, DeclareReply, Publish, PublishRequest, Poll, TakeReply,
                Expire, Delete, DeleteReply, DeleteReplyQueue, Stop, Join, JoinTimesOut, Cleanup,
                DeleteRequests, Exit, broker, servers
  <2>2. CASE UNCHANGED result
    BY <2>1, <2>2, <1>1
  <2>3. CASE Poll(p)
    <3>1. PICK r \in replies : Ends(p, r[2])
      BY <2>3 DEF Poll
    <3> QED
      BY <2>1, <3>1 DEF Ends, GivenInv, TypeOK
  <2>4. CASE Ends(p, TimedOut) \/ Ends(p, Error)
    BY <2>1, <2>4, DistinctAssumption DEF Ends, GivenInv, TypeOK
  <2> QED
    BY <1>2, <2>2, <2>3, <2>4 DEF Client, CallFails, Declare, Publish, Expire, Delete, Stop, Join,
                                  JoinTimesOut, Cleanup, Exit
<1>3. ASSUME NEW p \in Programs, Server(p) \/ ServerFails(p)
      PROVE  GivenInv'
  <2>1. UNCHANGED result
    BY <1>3 DEF Server, ServerFails, ServerDeclares, ServerChecks, ServerConsumes, ServerReplies,
                clients
  <2>2. CASE replies' = replies /\ UNCHANGED served
    BY <2>1, <2>2, <1>1
  <2>3. CASE /\ replies' \subseteq replies \cup {<<taken[p], taken[p]>>}
             /\ served' = [served EXCEPT ![taken[p]] = @ + 1]
             /\ replies' # replies => taken[p] \in Calls
    <3>1. \A c \in Calls : served'[c] >= served[c] /\ (c = taken[p] => served'[c] >= 1)
      BY <2>3 DEF TypeOK
    <3> QED
      BY <2>1, <2>3, <3>1 DEF GivenInv, TypeOK
  <2> QED
    BY <1>3, <2>2, <2>3
       DEF Server, ServerFails, ServerDeclares, DeclareRequests, ServerChecks, ServerConsumes,
           TakeRequest, ServerReplies, PublishReply, ReplyQueue, broker, TypeOK
<1> QED
  BY <1>1, <1>2, <1>3 DEF Next, Stranger, clients, vars, broker

LEMMA OrderKeeps == TypeOK /\ ReplyInv /\ OrderInv /\ [Next]_vars => OrderInv'
<1> SUFFICES ASSUME TypeOK, ReplyInv, OrderInv, [Next]_vars, NEW c \in Calls
             PROVE  /\ c[2] < nr'[c[1]] => result'[c] = c
                    /\ c = Call(c[1])' /\ client'[c[1]] = "delete" => result'[c] \in {c, TimedOut}
  BY DEF OrderInv, Call
<1>0. c[1] \in Programs /\ c[2] \in Nat /\ c = <<c[1], c[2]>> /\ nr[c[1]] \in Nat
  BY CallParts DEF TypeOK
<1>1. CASE nr'[c[1]] = nr[c[1]] /\ client'[c[1]] = client[c[1]] /\ result'[c] = result[c]
  BY <1>0, <1>1 DEF OrderInv, Call
<1>2. ASSUME NEW p \in Programs, Client(p) \/ CallFails(p), c[1] # p
      PROVE  nr'[c[1]] = nr[c[1]] /\ client'[c[1]] = client[c[1]] /\ result'[c] = result[c]
  <2>1. Call(p) # c /\ Call(p) \in Calls
    BY <1>2, CallOf
  <2> QED
    BY <1>0, <1>2, <2>1
       DEF Client, CallFails, Declare, Publish, Poll, Expire, Delete, Stop, Join, JoinTimesOut,
           Cleanup, Exit, Goto, Ends, TypeOK
<1>3. ASSUME NEW p \in Programs, Client(p) \/ CallFails(p), c[1] = p
      PROVE  /\ c[2] < nr'[c[1]] => result'[c] = c
             /\ c = Call(c[1])' /\ client'[c[1]] = "delete" => result'[c] \in {c, TimedOut}
  <2>0. Call(p) \in Calls /\ Call(p) = <<p, nr[p]>> /\ OrderInv
    BY CallOf DEF Call
  <2>1. CASE Poll(p) \/ Expire(p)
    <3>1. nr' = nr /\ \E r \in {Call(p), TimedOut} : Ends(p, r)
      BY <2>1, <2>0 DEF Poll, Expire, ReplyQueue, ReplyInv
    <3> QED
      BY <1>0, <1>3, <2>0, <3>1 DEF Ends, OrderInv, Call, TypeOK
  <2>2. CASE CallFails(p)
    <3>1. nr' = nr /\ Ends(p, Error) /\ client'[p] = "stop"
      BY <2>2 DEF CallFails, Goto, TypeOK
    <3> QED
      BY <1>0, <1>3, <2>0, <3>1 DEF Ends, OrderInv, TypeOK
  <2>3. CASE Delete(p)
    <3>1. result' = result /\ client[p] = "delete" /\ client'[p] \in {"stop", "declare"}
      BY <2>3 DEF Delete, Goto, TypeOK
    <3>2. nr'[p] = nr[p] \/ (nr'[p] = nr[p] + 1 /\ result[Call(p)] # TimedOut)
      BY <2>3 DEF Delete, LeavesLoop, TypeOK
    <3>3. c[2] = nr[p] => c = Call(p)
      BY <1>0, <1>3, <2>0
    <3>4. c[2] < nr'[p] => c[2] < nr[p] \/ (c[2] = nr[p] /\ nr'[p] = nr[p] + 1)
      BY <1>0, <1>3, <3>2
    <3> QED
      BY <1>3, <2>0, <3>1, <3>2, <3>3, <3>4 DEF OrderInv
  <2>4. CASE Declare(p) \/ Publish(p) \/ Stop(p) \/ Join(p) \/ JoinTimesOut(p) \/ Cleanup(p)
             \/ Exit(p)
    <3>1. nr' = nr /\ result' = result /\ client'[p] # "delete"
      BY <2>4 DEF Declare, Publish, Stop, Join, JoinTimesOut, Cleanup, Exit, Goto, TypeOK
    <3> QED
      BY <1>3, <2>0, <3>1 DEF OrderInv
  <2> QED
    BY <1>3, <2>1, <2>2, <2>3, <2>4 DEF Client
<1>4. ASSUME NEW p \in Programs, Server(p) \/ ServerFails(p)
      PROVE  UNCHANGED <<nr, client, result>>
  BY <1>4 DEF Server, ServerFails, ServerDeclares, ServerChecks, ServerConsumes, ServerReplies,
              clients
<1> QED
  BY <1>1, <1>2, <1>3, <1>4 DEF Next, Stranger, clients, vars

\* What RemoteCall sees of a state.
Asked == {c \in Calls : ~Unsent(c)}
Outcomes == [c \in Calls |-> Outcome(c)]

LEMMA SameCalls == Calling!Calls = Calls
  BY DEF Calling!Calls, Calls

\* A program is at its current call, until that has an outcome.
LEMMA MyTurn ==
  ASSUME TypeOK, PendingInv, OrderInv, NEW p \in Programs, client[p] \in InCall
  PROVE  Calling!Turn(Call(p)) /\ Outcomes[Call(p)] = Nothing
<1>1. /\ Call(p) \in Calls /\ Call(p)[1] = p /\ Call(p)[2] = nr[p]
      /\ nr[p] \in Nat /\ nr[p] <= NumCalls[p] /\ NumCalls[p] \in Nat
  BY CallOf, CallParts
<1>2. Outcome(Call(p)) = Nothing
  <2>1. Call(Call(p)[1]) = Call(p)
    BY <1>1
  <2>2. client[p] # "delete" => result[Call(p)] = Nothing
    BY <1>1 DEF PendingInv, InCall
  <2> QED
    BY <1>1, <2>1, <2>2 DEF Outcome
<1>3. ASSUME NEW i \in 1..(nr[p] - 1)
      PROVE  Outcomes[<<p, i>>] = <<p, i>>
  <2>1. <<p, i>> \in Calls /\ <<p, i>> # Call(p) /\ i < nr[p]
    BY <1>1, CallMade DEF Call
  <2>2. result[<<p, i>>] = <<p, i>>
    BY <2>1 DEF OrderInv
  <2> QED
    BY <2>1, <2>2 DEF Outcomes, Outcome
<1>4. Outcomes[Call(p)] = Nothing
  BY <1>1, <1>2 DEF Outcomes
<1> QED
  BY <1>1, <1>3, <1>4 DEF Calling!Turn, Calling!Pending, Outcomes

\* The calls of other programs, and those before and after the current one, look as before.
LEMMA OthersSame ==
  ASSUME TypeOK, NEW p \in Programs, Client(p) \/ CallFails(p), NEW c \in Calls, c # Call(p)
  PROVE  Outcome(c)' = Outcome(c) /\ (Unsent(c)' <=> Unsent(c))
<1>0. /\ c[1] \in Programs /\ c[2] \in Nat /\ c = <<c[1], c[2]>>
      /\ Call(p) \in Calls /\ Call(p) = <<p, nr[p]>> /\ nr[p] \in Nat
  BY CallParts, CallOf DEF Call
<1>1. result'[c] = result[c]
  BY <1>0 DEF Client, CallFails, Declare, Publish, Poll, Expire, Delete, Stop, Join, JoinTimesOut,
              Cleanup, Exit, Ends, TypeOK, servers
<1>2. CASE c[1] # p
  <2>1. nr'[c[1]] = nr[c[1]] /\ client'[c[1]] = client[c[1]]
    BY <1>0, <1>2 DEF Client, CallFails, Declare, Publish, Poll, Expire, Delete, Stop, Join,
                      JoinTimesOut, Cleanup, Exit, Goto, TypeOK
  <2> QED
    BY <1>1, <2>1 DEF Outcome, Unsent, Call
<1>3. CASE c[1] = p
  <2>1. c[2] # nr[p]
    BY <1>0, <1>3
  <2>2. CASE nr' = nr
    <3>1. ~(Call(p)' = c)
      BY <2>1, <2>2, <1>0 DEF Call
    <3> QED
      BY <1>0, <1>1, <1>3, <2>1, <2>2, <3>1 DEF Outcome, Unsent, Call
  <2>3. CASE Delete(p) /\ nr'[p] = nr[p] + 1
    <3>1. client'[p] = "declare"
      BY <2>3, <1>0 DEF Delete, Goto, TypeOK
    <3>2. Outcome(c)' = Outcome(c)
      BY <1>0, <1>1, <1>3, <3>1 DEF Outcome, Call
    <3>3. Unsent(c)' <=> Unsent(c)
      BY <1>0, <1>3, <2>1, <2>3, <3>1 DEF Unsent
    <3> QED
      BY <3>2, <3>3
  <2> QED
    BY <2>2, <2>3 DEF Client, CallFails, Declare, Publish, Poll, Expire, Delete, Stop, Join,
                      JoinTimesOut, Cleanup, Exit, TypeOK
<1> QED
  BY <1>2, <1>3

\* So a step of a program shows in the current call alone.
LEMMA OnlyCurrent ==
  ASSUME TypeOK, NEW p \in Programs, Client(p) \/ CallFails(p), NEW c \in Calls, c = Call(p)
  PROVE  /\ Outcomes' = [Outcomes EXCEPT ![c] = Outcome(c)']
         /\ Asked' \ {c} = Asked \ {c}
<1>1. \A d \in Calls : d # c => Outcome(d)' = Outcome(d) /\ (Unsent(d)' <=> Unsent(d))
  BY OthersSame
<1> QED
  BY <1>1 DEF Outcomes, Asked

LEMMA ProgramImplements ==
  ASSUME CallInv, NEW p \in Programs, Client(p) \/ CallFails(p)
  PROVE  Calling!Next \/ UNCHANGED Calling!vars
<1>1. PICK c \in Calls : c = Call(p)
  BY CallOf DEF CallInv
<1>2. /\ c[1] = p /\ c[2] = nr[p] /\ nr[p] \in Nat /\ TypeOK /\ Call(c[1]) = c
      /\ c \in Asked <=> ~Unsent(c)
      /\ c \in Asked' <=> ~Unsent(c)'
      /\ Outcomes[c] = Outcome(c)
  BY <1>1, CallOf DEF CallInv, Asked, Outcomes
<1>3. /\ Outcomes' = [Outcomes EXCEPT ![c] = Outcome(c)']
      /\ Asked' \ {c} = Asked \ {c}
  BY <1>1, <1>2, OnlyCurrent
<1>4. UNCHANGED served
  BY DEF Client, CallFails, Declare, Publish, Poll, Expire, Delete, Stop, Join, JoinTimesOut,
         Cleanup, Exit, servers
<1>5. client[p] \in InCall => Calling!Turn(c) /\ Outcome(c) = Nothing
  BY <1>1, <1>2, MyTurn DEF CallInv
<1>6. ASSUME Outcome(c)' = Outcome(c), Unsent(c)' <=> Unsent(c)
      PROVE  UNCHANGED Calling!vars
  BY <1>2, <1>3, <1>4, <1>6 DEF Calling!vars, Asked, Outcomes
<1>7. CASE Declare(p)
  <2>1. nr' = nr /\ result' = result /\ client[p] = "declare" /\ client'[p] = "publish"
    BY <1>2, <1>7 DEF Declare, Goto, TypeOK
  <2> QED
    BY <1>2, <1>6, <2>1 DEF Outcome, Unsent, Call
<1>8. CASE Publish(p)
  <2>1. nr' = nr /\ result' = result /\ client[p] = "publish" /\ client'[p] = "poll"
    BY <1>2, <1>8 DEF Publish, Goto, TypeOK
  <2>2. c \notin Asked /\ c \in Asked' /\ Outcome(c)' = Outcome(c)
    BY <1>2, <2>1 DEF Outcome, Unsent, Call
  <2>3. Asked' = Asked \cup {c} /\ Outcomes' = Outcomes
    BY <1>3, <1>2, <2>2 DEF Outcomes
  <2>4. Calling!Ask(c)
    BY <1>4, <1>5, <2>1, <2>2, <2>3 DEF Calling!Ask, InCall, Asked, Outcomes
  <2> QED
    BY <2>4, SameCalls DEF Calling!Next
<1>9. CASE Poll(p) \/ Expire(p)
  <2>1. nr' = nr /\ client[p] = "poll" /\ client'[p] = "delete"
    BY <1>2, <1>9 DEF Poll, Expire, MayExpire, Goto, TypeOK
  <2> QED
    BY <1>2, <1>5, <1>6, <2>1 DEF Outcome, Unsent, Call, InCall
<1>10. CASE Delete(p)
  <2>1. /\ result' = result /\ client[p] = "delete" /\ client'[p] \in {"stop", "declare"}
        /\ nr'[p] \in {nr[p], nr[p] + 1} /\ (nr'[p] = nr[p] => client'[p] = "stop")
    BY <1>2, <1>10 DEF Delete, Goto, TypeOK
  <2>2. c \in Asked /\ c \in Asked' /\ Outcome(c)' = result[c] /\ result[c] \in {c, TimedOut}
    BY <1>1, <1>2, <2>1 DEF Outcome, Unsent, CallInv, OrderInv
  <2>3. Asked' = Asked
    BY <1>3, <2>2
  <2>4. CASE result[c] = c
    <3>1. served[c] = 1
      BY <1>2, <2>4 DEF CallInv, GivenInv, OnceInv, TypeOK
    <3>2. Calling!Return(c)
      BY <1>3, <1>4, <1>5, <2>1, <2>2, <2>3, <2>4, <3>1
         DEF Calling!Return, Calling!Ends, InCall, Asked, Outcomes
    <3> QED
      BY <3>2, SameCalls DEF Calling!Next
  <2>5. CASE result[c] = TimedOut
    <3>1. Calling!GiveUp(c)
      BY <1>3, <1>4, <1>5, <2>1, <2>2, <2>3, <2>5
         DEF Calling!GiveUp, Calling!Ends, InCall, Asked, Outcomes
    <3> QED
      BY <3>1, SameCalls DEF Calling!Next
  <2> QED
    BY <2>2, <2>4, <2>5
<1>11. CASE CallFails(p)
  <2>1. nr' = nr /\ Ends(p, Error) /\ client[p] \in InCall /\ client'[p] = "stop"
    BY <1>2, <1>11 DEF CallFails, Goto, InCall, TypeOK
  <2>2. Outcome(c)' = Error /\ c \in Asked'
    BY <1>1, <1>2, <2>1 DEF Outcome, Unsent, Ends, TypeOK
  <2>3. Asked' = Asked \cup {c}
    BY <1>3, <2>2
  <2>4. Calling!Fail(c)
    BY <1>3, <1>4, <1>5, <2>1, <2>2, <2>3 DEF Calling!Fail, Calling!Ends, Asked, Outcomes
  <2> QED
    BY <2>4, SameCalls DEF Calling!Next
<1>12. CASE Stop(p) \/ Join(p) \/ JoinTimesOut(p) \/ Cleanup(p) \/ Exit(p)
  <2>1. /\ nr' = nr /\ result' = result
        /\ client[p] \notin InCall /\ client'[p] \notin InCall
    BY <1>2, <1>12 DEF Stop, Join, JoinTimesOut, Cleanup, Exit, Goto, TypeOK, InCall
  <2> QED
    BY <1>2, <1>6, <2>1 DEF Outcome, Unsent, Call, InCall
<1> QED
  BY <1>7, <1>8, <1>9, <1>10, <1>11, <1>12 DEF Client

LEMMA ServerImplements ==
  ASSUME CallInv, NEW p \in Programs, Server(p) \/ ServerFails(p)
  PROVE  Calling!Next \/ UNCHANGED Calling!vars
<1>1. UNCHANGED <<Asked, Outcomes>>
  BY DEF Server, ServerFails, ServerDeclares, ServerChecks, ServerConsumes, ServerReplies, clients,
         Asked, Outcomes, Unsent, Outcome, Call
<1>2. CASE UNCHANGED served
  BY <1>1, <1>2 DEF Calling!vars, Asked, Outcomes
<1>3. ASSUME taken[p] \notin Strangers, server[p] = "reply",
             served' = [served EXCEPT ![taken[p]] = @ + 1]
      PROVE  Calling!Next \/ UNCHANGED Calling!vars
  <2>1. CASE taken[p] \in Calls
    <3>1. ~Unsent(taken[p]) /\ served[taken[p]] = 0
      BY <2>1 DEF CallInv, OnceInv
    <3>2. served' = [served EXCEPT ![taken[p]] = 1]
      BY <1>3, <2>1, <3>1 DEF CallInv, TypeOK
    <3>3. Calling!Answer(taken[p])
      BY <1>1, <2>1, <3>1, <3>2 DEF Calling!Answer, Asked, Outcomes
    <3> QED
      BY <2>1, <3>3, SameCalls DEF Calling!Next
  <2>2. CASE taken[p] \notin Calls
    <3>1. served' = served
      BY <1>3, <2>2 DEF CallInv, TypeOK
    <3> QED
      BY <3>1, <1>2
  <2> QED
    BY <2>1, <2>2
<1> QED
  BY <1>2, <1>3 DEF Server, ServerFails, ServerDeclares, ServerChecks, ServerConsumes,
                    ServerReplies

\* rpc.py, as a whole: the threads, queues and retries are invisible to who calls.
THEOREM Implements == Spec => ImplementsRemoteCall
<1>1. Init => CallInv
  <2>1. Init => ReplyInv /\ OnceInv /\ PendingInv /\ GivenInv /\ OrderInv
    BY DistinctAssumption, CallParts DEF Init, ReplyInv, OnceInv, PendingInv, GivenInv, OrderInv
  <2> QED
    BY <2>1, TypeInitial DEF CallInv
<1>2. CallInv /\ [Next]_vars => CallInv'
  BY TypeKeeps, RepliesRight, OnceKeeps, PendingKeeps, GivenKeeps, OrderKeeps DEF CallInv
<1>3. Init => Calling!Init
  <2> SUFFICES ASSUME Init
               PROVE  Calling!Init
    OBVIOUS
  <2>1. \A c \in Calls : Unsent(c) /\ Outcome(c) = Nothing
    BY CallParts DEF Init, Unsent, Outcome
  <2> QED
    BY <2>1, SameCalls DEF Init, Calling!Init
<1>4. CallInv /\ [Next]_vars => [Calling!Next]_Calling!vars
  <2> SUFFICES ASSUME CallInv, [Next]_vars
               PROVE  Calling!Next \/ UNCHANGED Calling!vars
    OBVIOUS
  <2>1. ASSUME UNCHANGED <<nr, client, result, served>>
        PROVE  UNCHANGED Calling!vars
    BY <2>1 DEF Calling!vars, Unsent, Outcome, Call
  <2> QED
    BY <2>1, ProgramImplements, ServerImplements DEF Next, Stranger, clients, vars
<1> QED
  BY <1>1, <1>2, <1>3, <1>4, PTL DEF Spec, ImplementsRemoteCall, Calling!Spec
=============================================================================
