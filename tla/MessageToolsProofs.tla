-------------------------- MODULE MessageToolsProofs --------------------------
(***************************************************************************)
(* What TLAPS proves about MessageTools, for every set of agents, queues and *)
(* destinations, every bound, and every choice of calls.                    *)
(***************************************************************************)
EXTENDS MessageTools, FiniteSetTheorems, TLAPS

(***************************************************************************)
(* Types, and what a call has done so far.                                  *)
(***************************************************************************)

\* The operation of a call determines its arguments.
LEMMA CallFields ==
  ASSUME NEW c \in Calls \cup {NoCall}
  PROVE  /\ c.op = "publish" => c \in PublishCalls
         /\ c.op = "consume" => c \in ConsumeCalls
         /\ c.op \in {"ack", "nack", "reject"} => c \in SettleCalls
  <1>1. CASE c \in PublishCalls
    <2>1. c.op = "publish"
      BY <1>1 DEF PublishCalls
    <2>2. QED
      BY <1>1, <2>1
  <1>2. CASE c \in ConsumeCalls
    <2>1. c.op = "consume"
      BY <1>2 DEF ConsumeCalls
    <2>2. QED
      BY <1>2, <2>1
  <1>3. CASE c \in SettleCalls
    <2>1. c.op \in {"ack", "nack", "reject"}
      BY <1>3 DEF SettleCalls
    <2>2. QED
      BY <1>3, <2>1
  <1>4. CASE c = NoCall
    BY <1>4 DEF NoCall
  <1>5. QED
    BY <1>1, <1>2, <1>3, <1>4 DEF Calls

\* A frame waits at the broker only while the call that wrote it has its channel, and
\* an answer on its way only while the call waits for it.
PhaseInv ==
  \A a \in Agents :
    /\ a \in pending =>
         /\ channel[a] = "open" /\ reply[a] = "none"
         /\ pc[a] \in {"flush", "confirm", "wait", "close"}
         /\ call[a].op = "publish" /\ Confirming(call[a]) => pc[a] = "confirm"
    /\ pc[a] \in {"idle", "open"} => channel[a] = "none"
    /\ pc[a] \in {"write", "flush", "confirm"} => call[a].op # "consume"
    /\ a \in pending /\ call[a].op = "consume" => pc[a] = "wait"
    /\ pc[a] \in {"get", "wait"} => call[a].op = "consume"
    /\ reply[a] # "none" => pc[a] \in {"confirm", "wait"}

\* A message whose publish has not reached the broker is new to it.
Unsent(a) == call[a].op = "publish" /\ (pc[a] \in {"open", "write"} \/ a \in pending)

FreshInv ==
  /\ \A c \in enqueued : c[2] <= issued
  /\ \A a \in Agents : Unsent(a) =>
       /\ mine[a] \in 1..issued
       /\ \A c \in enqueued : c[2] # mine[a]
       /\ \A b \in Agents : Unsent(b) /\ mine[b] = mine[a] => a = b

CallInv == TypeOK /\ PhaseInv /\ FreshInv

\* No step of a call or of the broker breaks a type.
LEMMA StepTypeOK == CallInv /\ [Next]_vars => TypeOK'
  <1> SUFFICES ASSUME CallInv, [Next]_vars
               PROVE  TypeOK'
    OBVIOUS
  <1> USE DEF CallInv, TypeOK, Labels, Goto, SetOutcome, store, request
  <1>1. ASSUME NEW a \in Agents, NEW c \in PublishCalls, c \in Requests[a], InvokePublish(a, c)
        PROVE  TypeOK'
    <2>1. issued' \in 0..MaxMsgs /\ mine' \in [Agents -> 0..MaxMsgs]
      BY <1>1, BoundsAssumption DEF InvokePublish
    <2>2. call' \in [Agents -> Calls \cup {NoCall}]
      BY <1>1, RequestsAssumption DEF InvokePublish, Start
    <2>3. QED
      BY <1>1, <2>1, <2>2 DEF InvokePublish, Start
  <1>2. ASSUME NEW a \in Agents, NEW c \in PublishCalls, c \in Requests[a], InvokeEmptyPublish(a, c)
        PROVE  TypeOK'
    <2>1. mine' \in [Agents -> 0..MaxMsgs]
      BY <1>2, BoundsAssumption DEF InvokeEmptyPublish
    <2>2. call' \in [Agents -> Calls \cup {NoCall}]
      BY <1>2, RequestsAssumption DEF InvokeEmptyPublish
    <2>3. QED
      BY <1>2, <2>1, <2>2 DEF InvokeEmptyPublish
  <1>3. ASSUME NEW a \in Agents, NEW c \in Requests[a] \ PublishCalls, InvokeOther(a, c)
        PROVE  TypeOK'
    BY <1>3, RequestsAssumption DEF InvokeOther, Start
  <1>4. ASSUME NEW a \in Agents, OpenChannel(a)
        PROVE  TypeOK'
    BY <1>4 DEF OpenChannel
  <1>5. ASSUME NEW a \in Agents, OpenFails(a)
        PROVE  TypeOK'
    BY <1>5 DEF OpenFails
  <1>6. ASSUME NEW a \in Agents, WriteFrame(a)
        PROVE  TypeOK'
    BY <1>6 DEF WriteFrame, Write
  <1>7. ASSUME NEW a \in Agents, Flush(a)
        PROVE  TypeOK'
    BY <1>7 DEF Flush, Succeed
  <1>8. ASSUME NEW a \in Agents, FlushFails(a)
        PROVE  TypeOK'
    BY <1>8 DEF FlushFails, Raise
  <1>9. ASSUME NEW a \in Agents, Confirmed(a)
        PROVE  TypeOK'
    BY <1>9 DEF Confirmed, Succeed, Raise, Answer
  <1>10. ASSUME NEW a \in Agents, WaitFails(a)
         PROVE  TypeOK'
    BY <1>10 DEF WaitFails, Raise
  <1>11. ASSUME NEW a \in Agents, Get(a)
         PROVE  TypeOK'
    BY <1>11 DEF Get, Write
  <1>12. ASSUME NEW a \in Agents, Receive(a)
         PROVE  TypeOK'
    BY <1>12 DEF Receive, Append, Answer
  <1>13. ASSUME NEW a \in Agents, ReceiveEmpty(a)
         PROVE  TypeOK'
    BY <1>13 DEF ReceiveEmpty, Break, Succeed, Answer
  <1>14. ASSUME NEW a \in Agents, LoopEnds(a)
         PROVE  TypeOK'
    BY <1>14 DEF LoopEnds, Succeed
  <1>15. ASSUME NEW a \in Agents, CloseChannel(a)
         PROVE  TypeOK'
    BY <1>15 DEF CloseChannel, ReleaseDeliveries, Requeue, Outstanding, CopiesOf, Deliveries, Remember
  <1>16. ASSUME NEW a \in Agents, CloseSwallowed(a)
         PROVE  TypeOK'
    BY <1>16 DEF CloseSwallowed, Remember
  <1>17. ASSUME NEW a \in Agents, BrokerPublish(a)
         PROVE  TypeOK'
    <2>1. ready' \subseteq Copies /\ enqueued' \subseteq Copies /\ unacked' \subseteq Deliveries
      <3>1. CASE ChannelException(a) /\ UNCHANGED enqueued
        BY <3>1 DEF ChannelException, Requeue, Outstanding, CopiesOf, Deliveries
      <3>2. CASE call[a].dest \notin Undeclared
        <4>1. Routes[call[a].dest] \X {mine[a]} \subseteq Copies
          <5>1. call[a].dest \in Dests
            BY <1>17, CallFields DEF BrokerPublish, PublishCalls
          <5>2. mine[a] \in 1..issued /\ issued <= MaxMsgs /\ issued \in Nat
            BY <1>17, BoundsAssumption DEF BrokerPublish, Handled, FreshInv, Unsent
          <5>3. mine[a] \in Msgs
            BY <5>2, BoundsAssumption DEF Msgs
          <5>4. QED
            BY <5>1, <5>3, DestsAssumption DEF Copies
        <4>2. QED
          BY <1>17, <3>2, <4>1 DEF BrokerPublish
      <3>3. QED
        BY <1>17, <3>1, <3>2 DEF BrokerPublish
    <2>2. reply' \in [Agents -> {"none", "acked", "returned", "empty", "delivered"}]
      BY <1>17 DEF BrokerPublish, Answer
    <2>3. pending' \subseteq Agents /\ channel' \in [Agents -> {"none", "open", "error", "lost"}]
      BY <1>17 DEF BrokerPublish, Handled, ChannelException
    <2>4. QED
      BY <1>17, <2>1, <2>2, <2>3 DEF BrokerPublish
  <1>18. ASSUME NEW a \in Agents, BrokerGet(a)
         PROVE  TypeOK'
    BY <1>18 DEF BrokerGet, Handled, Deliver, Answer, ReadyIn, Gets, Deliveries
  <1>19. ASSUME NEW a \in Agents, BrokerGetNothing(a)
         PROVE  TypeOK'
    BY <1>19 DEF BrokerGetNothing, Handled, ChannelException, Requeue, Answer, Outstanding, CopiesOf, Deliveries
  <1>20. ASSUME NEW a \in Agents, BrokerSettle(a)
         PROVE  TypeOK'
    BY <1>20 DEF BrokerSettle, Handled, ChannelException, Requeue, Outstanding, Covered, CopiesOf, Deliveries
  <1>21. ASSUME NEW a \in Agents, Lose(a)
         PROVE  TypeOK'
    BY <1>21 DEF Lose, CutOff, Answer, Deliveries
  <1>22. ASSUME Reap
         PROVE  TypeOK'
    BY <1>22 DEF Reap, Requeue, Outstanding, CopiesOf, Deliveries
  <1>23. CASE UNCHANGED vars
    BY <1>23 DEF vars, store, request
  <1>24. QED
    BY <1>1, <1>2, <1>3, <1>4, <1>5, <1>6, <1>7, <1>8, <1>9, <1>10, <1>11, <1>12,
       <1>13, <1>14, <1>15, <1>16, <1>17, <1>18, <1>19, <1>20, <1>21, <1>22, <1>23
       DEF Next, Invoke, Client, Broker

\* Nor does one leave a frame behind for a later call.
LEMMA StepPhaseInv == CallInv /\ [Next]_vars => PhaseInv'
  <1> SUFFICES ASSUME CallInv, [Next]_vars
               PROVE  PhaseInv'
    OBVIOUS
  <1> USE DEF CallInv, TypeOK, PhaseInv, Goto, SetOutcome, store, request
  <1>1. ASSUME NEW a \in Agents, NEW c \in PublishCalls, c \in Requests[a], InvokePublish(a, c)
        PROVE  PhaseInv'
    BY <1>1 DEF InvokePublish, Start
  <1>2. ASSUME NEW a \in Agents, NEW c \in PublishCalls, c \in Requests[a], InvokeEmptyPublish(a, c)
        PROVE  PhaseInv'
    BY <1>2 DEF InvokeEmptyPublish
  <1>3. ASSUME NEW a \in Agents, NEW c \in Requests[a] \ PublishCalls, InvokeOther(a, c)
        PROVE  PhaseInv'
    BY <1>3 DEF InvokeOther, Start
  <1>4. ASSUME NEW a \in Agents, OpenChannel(a)
        PROVE  PhaseInv'
    BY <1>4 DEF OpenChannel
  <1>5. ASSUME NEW a \in Agents, OpenFails(a)
        PROVE  PhaseInv'
    BY <1>5 DEF OpenFails
  <1>6. ASSUME NEW a \in Agents, WriteFrame(a)
        PROVE  PhaseInv'
    BY <1>6 DEF WriteFrame, Write
  <1>7. ASSUME NEW a \in Agents, Flush(a)
        PROVE  PhaseInv'
    BY <1>7 DEF Flush, Succeed
  <1>8. ASSUME NEW a \in Agents, FlushFails(a)
        PROVE  PhaseInv'
    BY <1>8 DEF FlushFails, Raise
  <1>9. ASSUME NEW a \in Agents, Confirmed(a)
        PROVE  PhaseInv'
    BY <1>9 DEF Confirmed, Succeed, Raise, Answer
  <1>10. ASSUME NEW a \in Agents, WaitFails(a)
         PROVE  PhaseInv'
    BY <1>10 DEF WaitFails, Raise
  <1>11. ASSUME NEW a \in Agents, Get(a)
         PROVE  PhaseInv'
    BY <1>11 DEF Get, Write
  <1>12. ASSUME NEW a \in Agents, Receive(a)
         PROVE  PhaseInv'
    BY <1>12 DEF Receive, Append, Answer
  <1>13. ASSUME NEW a \in Agents, ReceiveEmpty(a)
         PROVE  PhaseInv'
    BY <1>13 DEF ReceiveEmpty, Break, Succeed, Answer
  <1>14. ASSUME NEW a \in Agents, LoopEnds(a)
         PROVE  PhaseInv'
    BY <1>14 DEF LoopEnds, Succeed
  <1>15. ASSUME NEW a \in Agents, CloseChannel(a)
         PROVE  PhaseInv'
    BY <1>15 DEF CloseChannel, ReleaseDeliveries, Requeue
  <1>16. ASSUME NEW a \in Agents, CloseSwallowed(a)
         PROVE  PhaseInv'
    BY <1>16 DEF CloseSwallowed
  <1>17. ASSUME NEW a \in Agents, BrokerPublish(a)
         PROVE  PhaseInv'
    BY <1>17 DEF BrokerPublish, Handled, ChannelException, Requeue, Answer
  <1>18. ASSUME NEW a \in Agents, BrokerGet(a)
         PROVE  PhaseInv'
    BY <1>18 DEF BrokerGet, Handled, Deliver, Answer
  <1>19. ASSUME NEW a \in Agents, BrokerGetNothing(a)
         PROVE  PhaseInv'
    BY <1>19 DEF BrokerGetNothing, Handled, ChannelException, Requeue, Answer
  <1>20. ASSUME NEW a \in Agents, BrokerSettle(a)
         PROVE  PhaseInv'
    BY <1>20 DEF BrokerSettle, Handled, ChannelException, Requeue
  <1>21. ASSUME NEW a \in Agents, Lose(a)
         PROVE  PhaseInv'
    BY <1>21 DEF Lose, Answer
  <1>22. ASSUME Reap
         PROVE  PhaseInv'
    BY <1>22 DEF Reap, Requeue
  <1>23. CASE UNCHANGED vars
    BY <1>23 DEF vars, store, request
  <1>24. QED
    BY <1>1, <1>2, <1>3, <1>4, <1>5, <1>6, <1>7, <1>8, <1>9, <1>10, <1>11, <1>12,
       <1>13, <1>14, <1>15, <1>16, <1>17, <1>18, <1>19, <1>20, <1>21, <1>22, <1>23
       DEF Next, Invoke, Client, Broker

\* Nor does one give two messages the same number.
LEMMA StepFreshInv == CallInv /\ [Next]_vars => FreshInv'
  <1> SUFFICES ASSUME CallInv, [Next]_vars
               PROVE  FreshInv'
    OBVIOUS
  <1> USE DEF CallInv, TypeOK, PhaseInv, FreshInv, Unsent, Goto, SetOutcome, store, request
  <1>1. ASSUME NEW a \in Agents, NEW c \in PublishCalls, c \in Requests[a], InvokePublish(a, c)
        PROVE  FreshInv'
    <2>1. issued' = issued + 1 /\ mine' = [mine EXCEPT ![a] = issued + 1]
      BY <1>1 DEF InvokePublish
    <2>2. enqueued' = enqueued
      BY <1>1 DEF InvokePublish
    <2>3. \A b \in Agents \ {a} : Unsent(b)' => Unsent(b)
      BY <1>1 DEF InvokePublish, Start
    <2>4. \A b \in Agents \ {a} : Unsent(b)' => mine'[b] = mine[b] /\ mine[b] \in 1..issued
      BY <2>1, <2>3
    <2>5. mine'[a] = issued + 1
      BY <2>1
    <2>6. \A d \in enqueued' : d[2] <= issued /\ d[2] \in Nat
      BY <2>2 DEF Copies, Msgs
    <2>7. issued \in Nat
      BY BoundsAssumption
    <2>8. \A d \in enqueued' : d[2] <= issued'
      BY <2>1, <2>6, <2>7
    <2>9. \A b \in Agents : Unsent(b)' =>
            /\ mine'[b] \in 1..issued'
            /\ \A d \in enqueued' : d[2] # mine'[b]
      <3> SUFFICES ASSUME NEW b \in Agents, Unsent(b)'
                   PROVE  /\ mine'[b] \in 1..issued'
                          /\ \A d \in enqueued' : d[2] # mine'[b]
        OBVIOUS
      <3>1. CASE b = a
        BY <2>1, <2>5, <2>6, <2>7, <3>1
      <3>2. CASE b # a
        BY <2>1, <2>2, <2>3, <2>4, <2>7, <3>2
      <3>3. QED
        BY <3>1, <3>2
    <2>10. \A b, e \in Agents : Unsent(b)' /\ Unsent(e)' /\ mine'[b] = mine'[e] => b = e
      <3> SUFFICES ASSUME NEW b \in Agents, NEW e \in Agents,
                          Unsent(b)', Unsent(e)', mine'[b] = mine'[e]
                   PROVE  b = e
        OBVIOUS
      <3>1. CASE b = a \/ e = a
        BY <2>4, <2>5, <2>7, <3>1
      <3>2. CASE b # a /\ e # a
        BY <2>3, <2>4, <3>2
      <3>3. QED
        BY <3>1, <3>2
    <2>11. QED
      BY <2>8, <2>9, <2>10
  <1>2. ASSUME NEW a \in Agents, NEW c \in PublishCalls, c \in Requests[a], InvokeEmptyPublish(a, c)
        PROVE  FreshInv'
    BY <1>2 DEF InvokeEmptyPublish
  <1>3. ASSUME NEW a \in Agents, NEW c \in Requests[a] \ PublishCalls, InvokeOther(a, c)
        PROVE  FreshInv'
    <2>1. c.op # "publish"
      BY <1>3, CallFields, RequestsAssumption
    <2>2. \A b \in Agents : Unsent(b)' => Unsent(b)
      BY <1>3, <2>1 DEF InvokeOther, Start
    <2>3. UNCHANGED <<issued, mine, enqueued>>
      BY <1>3 DEF InvokeOther
    <2>4. QED
      BY <2>2, <2>3
  <1>4. ASSUME NEW a \in Agents, OpenChannel(a)
        PROVE  FreshInv'
    BY <1>4 DEF OpenChannel
  <1>5. ASSUME NEW a \in Agents, OpenFails(a)
        PROVE  FreshInv'
    BY <1>5 DEF OpenFails
  <1>6. ASSUME NEW a \in Agents, WriteFrame(a)
        PROVE  FreshInv'
    BY <1>6 DEF WriteFrame, Write
  <1>7. ASSUME NEW a \in Agents, Flush(a)
        PROVE  FreshInv'
    BY <1>7 DEF Flush, Succeed
  <1>8. ASSUME NEW a \in Agents, FlushFails(a)
        PROVE  FreshInv'
    BY <1>8 DEF FlushFails, Raise
  <1>9. ASSUME NEW a \in Agents, Confirmed(a)
        PROVE  FreshInv'
    BY <1>9 DEF Confirmed, Succeed, Raise, Answer
  <1>10. ASSUME NEW a \in Agents, WaitFails(a)
         PROVE  FreshInv'
    BY <1>10 DEF WaitFails, Raise
  <1>11. ASSUME NEW a \in Agents, Get(a)
         PROVE  FreshInv'
    BY <1>11 DEF Get, Write
  <1>12. ASSUME NEW a \in Agents, Receive(a)
         PROVE  FreshInv'
    BY <1>12 DEF Receive, Append, Answer
  <1>13. ASSUME NEW a \in Agents, ReceiveEmpty(a)
         PROVE  FreshInv'
    BY <1>13 DEF ReceiveEmpty, Break, Succeed, Answer
  <1>14. ASSUME NEW a \in Agents, LoopEnds(a)
         PROVE  FreshInv'
    BY <1>14 DEF LoopEnds, Succeed
  <1>15. ASSUME NEW a \in Agents, CloseChannel(a)
         PROVE  FreshInv'
    BY <1>15 DEF CloseChannel, ReleaseDeliveries, Requeue
  <1>16. ASSUME NEW a \in Agents, CloseSwallowed(a)
         PROVE  FreshInv'
    BY <1>16 DEF CloseSwallowed
  <1>17. ASSUME NEW a \in Agents, BrokerPublish(a)
         PROVE  FreshInv'
    BY <1>17 DEF BrokerPublish, Handled, ChannelException, Requeue, Answer
  <1>18. ASSUME NEW a \in Agents, BrokerGet(a)
         PROVE  FreshInv'
    BY <1>18 DEF BrokerGet, Handled, Deliver, Answer
  <1>19. ASSUME NEW a \in Agents, BrokerGetNothing(a)
         PROVE  FreshInv'
    BY <1>19 DEF BrokerGetNothing, Handled, ChannelException, Requeue, Answer
  <1>20. ASSUME NEW a \in Agents, BrokerSettle(a)
         PROVE  FreshInv'
    BY <1>20 DEF BrokerSettle, Handled, ChannelException, Requeue
  <1>21. ASSUME NEW a \in Agents, Lose(a)
         PROVE  FreshInv'
    BY <1>21 DEF Lose, Answer
  <1>22. ASSUME Reap
         PROVE  FreshInv'
    BY <1>22 DEF Reap, Requeue
  <1>23. CASE UNCHANGED vars
    BY <1>23 DEF vars, store, request
  <1>24. QED
    BY <1>1, <1>2, <1>3, <1>4, <1>5, <1>6, <1>7, <1>8, <1>9, <1>10, <1>11, <1>12,
       <1>13, <1>14, <1>15, <1>16, <1>17, <1>18, <1>19, <1>20, <1>21, <1>22, <1>23
       DEF Next, Invoke, Client, Broker

\* Together they are an invariant.
LEMMA CallInvariant == Spec => []CallInv
  <1>1. Init => CallInv
    BY BoundsAssumption DEF Init, CallInv, TypeOK, PhaseInv, FreshInv, Unsent, Labels, NoCall
  <1>2. CallInv /\ [Next]_vars => CallInv'
    BY StepTypeOK, StepPhaseInv, StepFreshInv DEF CallInv
  <1>3. QED
    BY <1>1, <1>2, PTL DEF Spec

\* Every variable keeps its type.
THEOREM TypeCorrect == Spec => []TypeOK
  <1>1. CallInv => TypeOK
    BY DEF CallInv
  <1>2. QED
    BY <1>1, CallInvariant, PTL

(***************************************************************************)
(* Deliveries.  The broker holds a delivery for an agent only on an open     *)
(* channel of a consume call: the channels the settling tools open never     *)
(* carry one.                                                               *)
(***************************************************************************)

\* Where the unacknowledged deliveries are.
HeldInv ==
  \A d \in unacked : d.channel # Nobody =>
    channel[d.channel] = "open" /\ call[d.channel].op = "consume"

\* A delivery is held no longer than the channel of its consume call lives.
LEMMA StepHeldInv == CallInv /\ HeldInv /\ [Next]_vars => HeldInv'
  <1> SUFFICES ASSUME CallInv, HeldInv, [Next]_vars
               PROVE  HeldInv'
    OBVIOUS
  <1> USE DEF CallInv, TypeOK, PhaseInv, HeldInv, Deliveries, Goto, SetOutcome, store, request
  <1>1. ASSUME NEW a \in Agents, NEW c \in PublishCalls, c \in Requests[a], InvokePublish(a, c)
        PROVE  HeldInv'
    BY <1>1 DEF InvokePublish, Start
  <1>2. ASSUME NEW a \in Agents, NEW c \in PublishCalls, c \in Requests[a], InvokeEmptyPublish(a, c)
        PROVE  HeldInv'
    BY <1>2 DEF InvokeEmptyPublish
  <1>3. ASSUME NEW a \in Agents, NEW c \in Requests[a] \ PublishCalls, InvokeOther(a, c)
        PROVE  HeldInv'
    BY <1>3 DEF InvokeOther, Start
  <1>4. ASSUME NEW a \in Agents, OpenChannel(a)
        PROVE  HeldInv'
    BY <1>4 DEF OpenChannel
  <1>5. ASSUME NEW a \in Agents, OpenFails(a)
        PROVE  HeldInv'
    BY <1>5 DEF OpenFails
  <1>6. ASSUME NEW a \in Agents, WriteFrame(a)
        PROVE  HeldInv'
    BY <1>6 DEF WriteFrame, Write
  <1>7. ASSUME NEW a \in Agents, Flush(a)
        PROVE  HeldInv'
    BY <1>7 DEF Flush, Succeed
  <1>8. ASSUME NEW a \in Agents, FlushFails(a)
        PROVE  HeldInv'
    BY <1>8 DEF FlushFails, Raise
  <1>9. ASSUME NEW a \in Agents, Confirmed(a)
        PROVE  HeldInv'
    BY <1>9 DEF Confirmed, Succeed, Raise, Answer
  <1>10. ASSUME NEW a \in Agents, WaitFails(a)
         PROVE  HeldInv'
    BY <1>10 DEF WaitFails, Raise
  <1>11. ASSUME NEW a \in Agents, Get(a)
         PROVE  HeldInv'
    BY <1>11 DEF Get, Write
  <1>12. ASSUME NEW a \in Agents, Receive(a)
         PROVE  HeldInv'
    BY <1>12 DEF Receive, Append, Answer
  <1>13. ASSUME NEW a \in Agents, ReceiveEmpty(a)
         PROVE  HeldInv'
    BY <1>13 DEF ReceiveEmpty, Break, Succeed, Answer
  <1>14. ASSUME NEW a \in Agents, LoopEnds(a)
         PROVE  HeldInv'
    BY <1>14 DEF LoopEnds, Succeed
  <1>15. ASSUME NEW a \in Agents, CloseChannel(a)
         PROVE  HeldInv'
    BY <1>15 DEF CloseChannel, ReleaseDeliveries, Requeue, Outstanding
  <1>16. ASSUME NEW a \in Agents, CloseSwallowed(a)
         PROVE  HeldInv'
    BY <1>16 DEF CloseSwallowed
  <1>17. ASSUME NEW a \in Agents, BrokerPublish(a)
         PROVE  HeldInv'
    BY <1>17 DEF BrokerPublish, Handled, ChannelException, Requeue, Outstanding
  <1>18. ASSUME NEW a \in Agents, BrokerGet(a)
         PROVE  HeldInv'
    BY <1>18 DEF BrokerGet, Handled, Deliver, Answer
  <1>19. ASSUME NEW a \in Agents, BrokerGetNothing(a)
         PROVE  HeldInv'
    BY <1>19 DEF BrokerGetNothing, Handled, ChannelException, Requeue, Outstanding
  <1>20. ASSUME NEW a \in Agents, BrokerSettle(a)
         PROVE  HeldInv'
    BY <1>20 DEF BrokerSettle, Handled, ChannelException, Requeue, Covered, Outstanding
  <1>21. ASSUME NEW a \in Agents, Lose(a)
         PROVE  HeldInv'
    BY <1>21 DEF Lose, CutOff, Answer
  <1>22. ASSUME Reap
         PROVE  HeldInv'
    BY <1>22 DEF Reap, Requeue, Outstanding
  <1>23. CASE UNCHANGED vars
    BY <1>23 DEF vars, store, request
  <1>24. QED
    BY <1>1, <1>2, <1>3, <1>4, <1>5, <1>6, <1>7, <1>8, <1>9, <1>10, <1>11, <1>12,
       <1>13, <1>14, <1>15, <1>16, <1>17, <1>18, <1>19, <1>20, <1>21, <1>22, <1>23
       DEF Next, Invoke, Client, Broker

\* Once the call that fetched them is over, its deliveries are on no channel of the agent.
THEOREM NothingHeld == Spec => []NothingHeldBetweenCalls
  <1>1. Init => HeldInv
    BY DEF Init, HeldInv
  <1>2. CallInv /\ HeldInv => NothingHeldBetweenCalls
    BY NobodyAssumption DEF CallInv, PhaseInv, HeldInv, NothingHeldBetweenCalls, Idle, Outstanding
  <1>3. QED
    BY <1>1, <1>2, StepHeldInv, CallInvariant, PTL DEF Spec

(***************************************************************************)
(* Copies.  Each is in one place because it enters the queues once, by a     *)
(* message that is new (FreshInv), and each later step moves it.            *)
(***************************************************************************)
\* No step duplicates a copy or makes one vanish.
LEMMA StepConservation == CallInv /\ Conservation /\ [Next]_vars => Conservation'
  <1> SUFFICES ASSUME CallInv, Conservation, [Next]_vars
               PROVE  Conservation'
    OBVIOUS
  <1> USE DEF CallInv, TypeOK, Conservation, CopiesOf, Goto, SetOutcome, store, request
  <1>1. ASSUME NEW a \in Agents, NEW c \in PublishCalls, c \in Requests[a], InvokePublish(a, c)
        PROVE  Conservation'
    BY <1>1 DEF InvokePublish, Start
  <1>2. ASSUME NEW a \in Agents, NEW c \in PublishCalls, c \in Requests[a], InvokeEmptyPublish(a, c)
        PROVE  Conservation'
    BY <1>2 DEF InvokeEmptyPublish
  <1>3. ASSUME NEW a \in Agents, NEW c \in Requests[a] \ PublishCalls, InvokeOther(a, c)
        PROVE  Conservation'
    BY <1>3 DEF InvokeOther, Start
  <1>4. ASSUME NEW a \in Agents, OpenChannel(a)
        PROVE  Conservation'
    BY <1>4 DEF OpenChannel
  <1>5. ASSUME NEW a \in Agents, OpenFails(a)
        PROVE  Conservation'
    BY <1>5 DEF OpenFails
  <1>6. ASSUME NEW a \in Agents, WriteFrame(a)
        PROVE  Conservation'
    BY <1>6 DEF WriteFrame, Write
  <1>7. ASSUME NEW a \in Agents, Flush(a)
        PROVE  Conservation'
    BY <1>7 DEF Flush, Succeed
  <1>8. ASSUME NEW a \in Agents, FlushFails(a)
        PROVE  Conservation'
    BY <1>8 DEF FlushFails, Raise
  <1>9. ASSUME NEW a \in Agents, Confirmed(a)
        PROVE  Conservation'
    BY <1>9 DEF Confirmed, Succeed, Raise, Answer
  <1>10. ASSUME NEW a \in Agents, WaitFails(a)
         PROVE  Conservation'
    BY <1>10 DEF WaitFails, Raise
  <1>11. ASSUME NEW a \in Agents, Get(a)
         PROVE  Conservation'
    BY <1>11 DEF Get, Write
  <1>12. ASSUME NEW a \in Agents, Receive(a)
         PROVE  Conservation'
    BY <1>12 DEF Receive, Append, Answer
  <1>13. ASSUME NEW a \in Agents, ReceiveEmpty(a)
         PROVE  Conservation'
    BY <1>13 DEF ReceiveEmpty, Break, Succeed, Answer
  <1>14. ASSUME NEW a \in Agents, LoopEnds(a)
         PROVE  Conservation'
    BY <1>14 DEF LoopEnds, Succeed
  <1>15. ASSUME NEW a \in Agents, CloseChannel(a)
         PROVE  Conservation'
    BY <1>15 DEF CloseChannel, ReleaseDeliveries, Requeue, Outstanding
  <1>16. ASSUME NEW a \in Agents, CloseSwallowed(a)
         PROVE  Conservation'
    BY <1>16 DEF CloseSwallowed
  <1>17. ASSUME NEW a \in Agents, BrokerPublish(a)
         PROVE  Conservation'
    <2>1. CASE ChannelException(a) /\ UNCHANGED <<enqueued, removed>>
      BY <2>1 DEF ChannelException, Requeue, Outstanding
    <2>2. CASE call[a].dest \notin Undeclared
      <3> DEFINE copies == Routes[call[a].dest] \X {mine[a]}
      <3>1. copies \cap enqueued = {}
        BY <1>17 DEF BrokerPublish, Handled, FreshInv, Unsent
      <3>2. ready' = ready \cup copies /\ enqueued' = enqueued \cup copies
        BY <1>17, <2>2 DEF BrokerPublish
      <3>3. UNCHANGED <<unacked, removed>>
        BY <1>17, <2>2 DEF BrokerPublish
      <3> HIDE DEF copies
      <3>4. QED
        BY <3>1, <3>2, <3>3
    <2>3. QED
      BY <1>17, <2>1, <2>2 DEF BrokerPublish
  <1>18. ASSUME NEW a \in Agents, BrokerGet(a)
         PROVE  Conservation'
    <2>1. PICK c \in ready : Deliver(a, c, AutoAck(call[a]))
      BY <1>18 DEF BrokerGet, ReadyIn
    <2>2. enqueued' = enqueued /\ ready' = ready \ {c}
      BY <1>18, <2>1 DEF BrokerGet, Deliver
    <2>3. CASE removed' = removed \cup {c} /\ unacked' = unacked
      BY <2>2, <2>3
    <2>4. CASE /\ removed' = removed
               /\ unacked' = unacked \cup
                    {[channel |-> a, tag |-> given[a] + 1, copy |-> c]}
      <3> DEFINE new == [channel |-> a, tag |-> given[a] + 1, copy |-> c]
      <3>1. new.copy = c
        OBVIOUS
      <3>2. \A d \in unacked : d.copy # c
        OBVIOUS
      <3>3. unacked' = unacked \cup {new}
        BY <2>4
      <3> HIDE DEF new
      <3>4. QED
        BY <2>2, <2>4, <3>1, <3>2, <3>3
    <2>5. QED
      BY <2>1, <2>3, <2>4 DEF Deliver
  <1>19. ASSUME NEW a \in Agents, BrokerGetNothing(a)
         PROVE  Conservation'
    BY <1>19 DEF BrokerGetNothing, Handled, ChannelException, Requeue, Outstanding
  <1>20. ASSUME NEW a \in Agents, BrokerSettle(a)
         PROVE  Conservation'
    BY <1>20 DEF BrokerSettle, Handled, ChannelException, Requeue, Covered, Outstanding
  <1>21. ASSUME NEW a \in Agents, Lose(a)
         PROVE  Conservation'
    <2>1. unacked' = {CutOff(a, d) : d \in unacked}
      BY <1>21 DEF Lose
    <2>2. \A d \in unacked : CutOff(a, d).copy = d.copy
      BY DEF Deliveries, CutOff
    <2>3. UNCHANGED <<ready, enqueued, removed>>
      BY <1>21 DEF Lose
    <2>4. CopiesOf(unacked') = CopiesOf(unacked)
      BY <2>1, <2>2
    <2>5. \A d, e \in unacked' : d.copy = e.copy => d = e
      BY <2>1, <2>2
    <2>6. QED
      BY <2>3, <2>4, <2>5
  <1>22. ASSUME Reap
         PROVE  Conservation'
    BY <1>22 DEF Reap, Requeue, Outstanding
  <1>23. CASE UNCHANGED vars
    BY <1>23 DEF vars, store, request
  <1>24. QED
    BY <1>1, <1>2, <1>3, <1>4, <1>5, <1>6, <1>7, <1>8, <1>9, <1>10, <1>11, <1>12,
       <1>13, <1>14, <1>15, <1>16, <1>17, <1>18, <1>19, <1>20, <1>21, <1>22, <1>23
       DEF Next, Invoke, Client, Broker

\* Every copy the broker took stays in exactly one place, however the calls of any
\* number of agents interleave and whichever connections die.
THEOREM CopiesConserved == Spec => []Conservation
  <1>1. Init => Conservation
    BY DEF Init, Conservation, CopiesOf
  <1>2. QED
    BY <1>1, StepConservation, CallInvariant, PTL DEF Spec

(***************************************************************************)
(* What leaves the broker.  Handling a settlement finds nothing outstanding  *)
(* on its channel (HeldInv), so only basic_get(auto_ack=True) removes.      *)
(***************************************************************************)

\* Only two of the broker's handlers can give a copy up.
LEMMA WhoRemoves ==
  [Next]_vars => \/ removed' = removed
                 \/ \E a \in Agents : BrokerGet(a) \/ BrokerSettle(a)
  BY DEF Next, Invoke, Client, Broker, vars, store, request, InvokePublish,
     InvokeEmptyPublish, InvokeOther, OpenChannel, OpenFails, WriteFrame, Flush, FlushFails,
     Confirmed, WaitFails, Get, Receive, ReceiveEmpty, LoopEnds, CloseChannel, CloseSwallowed,
     BrokerPublish, BrokerGetNothing, Lose, Reap

\* No acknowledgement, negative or positive, ever takes a copy out of its queue: what
\* leaves the broker was fetched with auto_ack=True, for all agents and all calls.
THEOREM OnlyAutoAck == Spec => AutoAckOnlyRemoves
  <1> DEFINE TakenByAutoAck ==
        \A c \in removed' \ removed :
          \E a \in Agents :
            call[a].op = "consume" /\ call[a].auto /\ c \in CopiesOf(arriving'[a])
  <1>1. Init => HeldInv
    BY DEF Init, HeldInv
  <1>2. CallInv /\ HeldInv /\ [Next]_vars => [TakenByAutoAck]_vars
    <2> SUFFICES ASSUME CallInv, HeldInv, [Next]_vars
                 PROVE  TakenByAutoAck
      OBVIOUS
    <2>1. CASE removed' = removed
      BY <2>1
    <2>2. ASSUME NEW a \in Agents, BrokerGet(a)
          PROVE  TakenByAutoAck
      <3>1. PICK c \in ready : Deliver(a, c, AutoAck(call[a]))
        BY <2>2 DEF BrokerGet, ReadyIn
      <3>2. CASE ~AutoAck(call[a])
        BY <3>1, <3>2 DEF Deliver
      <3>3. CASE AutoAck(call[a])
        <4>1. removed' = removed \cup {c} /\ call[a].op = "consume" /\ call[a].auto
          BY <2>2, <3>1, <3>3 DEF BrokerGet, Deliver, AutoAck
        <4>2. arriving'[a] = {[tag |-> given[a] + 1, copy |-> c]}
          BY <3>1 DEF Deliver, CallInv, TypeOK
        <4>3. c \in CopiesOf(arriving'[a])
          BY <4>2 DEF CopiesOf
        <4>4. QED
          BY <4>1, <4>3
      <3>4. QED
        BY <3>2, <3>3
    <2>3. ASSUME NEW a \in Agents, BrokerSettle(a)
          PROVE  TakenByAutoAck
      <3>1. Covered(a) = {}
        BY <2>3, NobodyAssumption DEF BrokerSettle, HeldInv, Covered, Outstanding
      <3>2. removed' = removed
        BY <2>3, <3>1 DEF BrokerSettle, CopiesOf
      <3>3. QED
        BY <3>2
    <2>4. QED
      BY <2>1, <2>2, <2>3, WhoRemoves
  <1> HIDE DEF TakenByAutoAck
  <1>3. Spec => [][TakenByAutoAck]_vars
    BY <1>1, <1>2, StepHeldInv, CallInvariant, PTL DEF Spec
  <1>4. QED
    BY <1>3 DEF AutoAckOnlyRemoves, TakenByAutoAck

(***************************************************************************)
(* Answers.  What a tool reports is what the broker did: a mandatory publish *)
(* and a consume wait for the broker, and keep what it says.                *)
(***************************************************************************)

\* A mandatory publish is confirmed, or over, only once its message is in a queue.
RoutedInv ==
  \A a \in Agents : call[a].op = "publish" /\ call[a].mandatory =>
    /\ outcome[a] = "ok" \/ reply[a] = "acked" => \E q \in Queues : <<q, mine[a]>> \in enqueued
    /\ pc[a] # "flush"

\* The messages ds of a consume call are those the broker has handed out to it.
Complete(a, ds) ==
  /\ {d.tag : d \in ds} = 1..given[a]
  /\ IsFiniteSet(ds) /\ Cardinality(ds) = given[a]
  /\ given[a] <= call[a].max

Distinct(ds) == \A d, e \in ds : d.copy = e.copy => d = e

\* While the channel is open, what came over it is not in a queue.
Taken(a, d) == d.copy \in removed \/ \E e \in Outstanding(a) : e.copy = d.copy

FetchInv(a) ==
  /\ reply[a] # "delivered" => arriving[a] = {}
  /\ call[a].op = "consume" =>
       /\ Distinct(got[a] \cup arriving[a])
       /\ pc[a] = "open" => got[a] = {}
       /\ pc[a] \in {"open", "get", "wait"} => outcome[a] = "none"
       /\ pc[a] = "get" \/ outcome[a] = "ok" => Complete(a, got[a])
       /\ a \in pending => Complete(a, got[a]) /\ given[a] < call[a].max
       /\ reply[a] = "empty" => Complete(a, got[a])
       /\ reply[a] = "delivered" => Complete(a, got[a] \cup arriving[a])
       /\ channel[a] = "open" /\ pc[a] \in {"get", "wait"} =>
            \A d \in got[a] \cup arriving[a] : Taken(a, d)
FetchedInv == \A a \in Agents : FetchInv(a)

\* The steps of one agent's call, and of the broker and the network on its channel.
OwnStep(a) == Invoke(a) \/ Client(a) \/ Broker(a) \/ Lose(a)

\* They leave the call of another as it is.
LEMMA OthersCalls ==
  ASSUME CallInv, NEW a \in Agents, NEW b \in Agents \ {a}, OwnStep(b)
  PROVE  /\ pc'[a] = pc[a] /\ call'[a] = call[a] /\ channel'[a] = channel[a]
         /\ reply'[a] = reply[a] /\ arriving'[a] = arriving[a] /\ got'[a] = got[a]
         /\ outcome'[a] = outcome[a] /\ mine'[a] = mine[a] /\ given'[a] = given[a]
         /\ (a \in pending' <=> a \in pending)
  <1> USE DEF CallInv, TypeOK, Goto, SetOutcome, Answer, store, request
  <1>1. CASE Invoke(b)
    BY <1>1 DEF Invoke, InvokePublish, InvokeEmptyPublish, InvokeOther, Start
  <1>2. CASE Client(b)
    BY <1>2 DEF Client, OpenChannel, OpenFails, WriteFrame, Write, Flush, FlushFails, Confirmed,
                WaitFails, Get, Receive, Append, ReceiveEmpty, Break, LoopEnds, CloseChannel,
                CloseSwallowed, Succeed, Raise
  <1>3. CASE Broker(b)
    BY <1>3 DEF Broker, BrokerPublish, BrokerGet, BrokerGetNothing, BrokerSettle, Handled,
                ChannelException, Deliver
  <1>4. CASE Lose(b)
    BY <1>4 DEF Lose
  <1>5. QED
    BY <1>1, <1>2, <1>3, <1>4 DEF OwnStep

\* ... and what the broker holds for it.
LEMMA OthersDeliveries ==
  ASSUME CallInv, NEW a \in Agents, NEW b \in Agents \ {a}, OwnStep(b)
  PROVE  Outstanding(a)' = Outstanding(a) /\ removed \subseteq removed'
  <1>1. CASE unacked' = unacked /\ removed \subseteq removed'
    BY <1>1 DEF Outstanding
  <1>2. CASE unacked' = unacked \ Outstanding(b) /\ removed \subseteq removed'
    BY <1>2 DEF Outstanding
  <1>3. CASE Invoke(b)
    BY <1>3, <1>1 DEF Invoke, InvokePublish, InvokeEmptyPublish, InvokeOther, Start, store
  <1>4. CASE Client(b)
    BY <1>4, <1>1, <1>2
       DEF Client, OpenChannel, OpenFails, WriteFrame, Flush, FlushFails, Confirmed,
           WaitFails, Get, Receive, ReceiveEmpty, LoopEnds, CloseChannel,
           CloseSwallowed, ReleaseDeliveries, Requeue, store
  <1>5. CASE BrokerPublish(b) \/ BrokerGetNothing(b)
    BY <1>5, <1>1, <1>2 DEF BrokerPublish, BrokerGetNothing, ChannelException, Requeue
  <1>6. CASE BrokerGet(b)
    BY <1>6 DEF BrokerGet, Deliver, Outstanding
  <1>8. CASE BrokerSettle(b)
    BY <1>8, <1>2 DEF BrokerSettle, ChannelException, Requeue, Covered, Outstanding
  <1>9. CASE Lose(b)
    <2>1. unacked' = {CutOff(b, d) : d \in unacked} /\ removed' = removed
      BY <1>9 DEF Lose
    <2>2. \A d \in unacked : /\ d.channel # b => CutOff(b, d) = d
                             /\ d.channel = b => CutOff(b, d).channel = Nobody
      BY DEF CutOff, CallInv, TypeOK, Deliveries
    <2>3. QED
      BY <2>1, <2>2, NobodyAssumption DEF Outstanding
  <1>10. QED
    BY <1>3, <1>4, <1>5, <1>6, <1>8, <1>9 DEF OwnStep, Broker

\* The broker takes no copy back out of its history.
LEMMA EnqueuedGrows == [Next]_vars => enqueued \subseteq enqueued'
  BY DEF Next, Invoke, Client, Broker, vars, store, request, InvokePublish,
     InvokeEmptyPublish, InvokeOther, OpenChannel, OpenFails, WriteFrame, Flush, FlushFails,
     Confirmed, WaitFails, Get, Receive, ReceiveEmpty, LoopEnds, CloseChannel, CloseSwallowed,
     BrokerPublish, BrokerGet, BrokerGetNothing, BrokerSettle, Lose, Reap

Routed(a) ==
  call[a].op = "publish" /\ call[a].mandatory =>
    /\ outcome[a] = "ok" \/ reply[a] = "acked" => \E q \in Queues : <<q, mine[a]>> \in enqueued
    /\ pc[a] # "flush"

LEMMA StepRoutedInv == CallInv /\ RoutedInv /\ [Next]_vars => RoutedInv'
  <1> SUFFICES ASSUME CallInv, RoutedInv, [Next]_vars, NEW a \in Agents
               PROVE  Routed(a)'
    BY DEF RoutedInv, Routed
  <1> USE DEF CallInv, TypeOK, PhaseInv, Goto, SetOutcome, Answer, store, request
  <1>0. Routed(a) /\ enqueued \subseteq enqueued'
    BY EnqueuedGrows DEF RoutedInv, Routed
  <1>1. ASSUME pc'[a] = pc[a], call'[a] = call[a], reply'[a] = reply[a], outcome'[a] = outcome[a],
               mine'[a] = mine[a]
        PROVE  Routed(a)'
    BY <1>1, <1>0 DEF Routed
  <1>2. ASSUME NEW b \in Agents \ {a}, OwnStep(b)
        PROVE  Routed(a)'
    BY <1>2, <1>1, OthersCalls
  <1>3. CASE Invoke(a)
    BY <1>3, CallFields DEF Routed, Invoke, InvokePublish, InvokeEmptyPublish, InvokeOther, Start
  <1>4. CASE Confirmed(a)
    BY <1>4, <1>0 DEF Routed, Confirmed, Succeed, Raise
  <1>5. CASE WriteFrame(a)
    BY <1>5, <1>0 DEF Routed, WriteFrame, Confirming
  <1>6. CASE OpenChannel(a) \/ OpenFails(a)
    BY <1>6, <1>0 DEF Routed, OpenChannel, OpenFails
  <1>7. CASE Flush(a) \/ FlushFails(a) \/ WaitFails(a)
    BY <1>7, <1>0 DEF Routed, Flush, FlushFails, WaitFails, Succeed, Raise
  <1>8. CASE Get(a) \/ Receive(a) \/ ReceiveEmpty(a) \/ LoopEnds(a)
    BY <1>8 DEF Routed, Get, Receive, ReceiveEmpty, LoopEnds
  <1>9. CASE CloseChannel(a) \/ CloseSwallowed(a)
    BY <1>9, <1>0 DEF Routed, CloseChannel, CloseSwallowed
  <1>10. CASE BrokerPublish(a)
    <2>1. CASE call[a].dest \in Undeclared
      BY <1>10, <2>1, <1>1 DEF BrokerPublish, ChannelException
    <2>2. CASE call[a].dest \notin Undeclared
      <3> DEFINE copies == Routes[call[a].dest] \X {mine[a]}
      <3>1. /\ enqueued' = enqueued \cup copies
            /\ UNCHANGED <<pc, outcome, call, mine>>
            /\ reply'[a] = "acked" => copies # {} \/ ~Confirming(call[a])
        BY <1>10, <2>2 DEF BrokerPublish
      <3>2. Routes[call[a].dest] \subseteq Queues
        BY <1>10, CallFields, DestsAssumption DEF BrokerPublish, PublishCalls
      <3>3. QED
        BY <3>1, <3>2, <1>0 DEF Routed, Confirming
    <2>3. QED
      BY <2>1, <2>2
  <1>11. CASE BrokerGet(a) \/ BrokerGetNothing(a) \/ BrokerSettle(a)
    BY <1>11 DEF Routed, BrokerGet, BrokerGetNothing, BrokerSettle
  <1>12. CASE Lose(a)
    BY <1>12, <1>0 DEF Routed, Lose
  <1>13. CASE Reap \/ UNCHANGED vars
    BY <1>13, <1>1 DEF Reap, vars
  <1>14. QED
    BY <1>2, <1>3, <1>4, <1>5, <1>6, <1>7, <1>8, <1>9, <1>10, <1>11, <1>12, <1>13
       DEF Next, Client, Broker, OwnStep

\* mandatory=True: "published" means that the broker has confirmed a message it put in a
\* queue, and raised UnroutableError for one it could not (message_tools.py:83-114).
THEOREM ConfirmedMeansRouted == Spec => []ConfirmedIsRouted
  <1>1. Init => RoutedInv
    BY DEF Init, RoutedInv, NoCall
  <1>2. RoutedInv => ConfirmedIsRouted
    BY DEF RoutedInv, ConfirmedIsRouted, Succeeded
  <1>3. QED
    BY <1>1, <1>2, StepRoutedInv, CallInvariant, PTL DEF Spec

\* The next message of a call is none of those it has.
LEMMA NextIsNew ==
  ASSUME NEW a \in Agents, NEW ds, Complete(a, ds), given[a] \in Nat, given'[a] = given[a] + 1,
         NEW d, d.tag = given[a] + 1, call'[a] = call[a], given[a] < call[a].max,
         call[a].max \in Nat
  PROVE  Complete(a, ds \cup {d})'
  <1>1. d \notin ds
    BY DEF Complete
  <1>2. IsFiniteSet(ds \cup {d}) /\ Cardinality(ds \cup {d}) = given[a] + 1
    BY <1>1, FS_AddElement DEF Complete
  <1>3. {e.tag : e \in ds \cup {d}} = 1..(given[a] + 1)
    <2>1. {e.tag : e \in ds \cup {d}} = {e.tag : e \in ds} \cup {given[a] + 1}
      OBVIOUS
    <2>2. QED
      BY <2>1 DEF Complete
  <1>4. QED
    BY <1>2, <1>3 DEF Complete

LEMMA OthersFetches ==
  ASSUME CallInv, NEW a \in Agents, FetchInv(a), NEW b \in Agents \ {a}, OwnStep(b)
  PROVE  FetchInv(a)'
  <1>1. \A ds : Complete(a, ds)' <=> Complete(a, ds)
    BY OthersCalls DEF Complete
  <1>2. \A d : Taken(a, d) => Taken(a, d)'
    BY OthersDeliveries DEF Taken
  <1>3. QED
    BY <1>1, <1>2, OthersCalls DEF FetchInv

\* A step of the call itself, or of its channel.
LEMMA OwnFetches ==
  ASSUME CallInv, Conservation, NEW a \in Agents, FetchInv(a), OwnStep(a)
  PROVE  FetchInv(a)'
  <1> USE DEF CallInv, TypeOK, PhaseInv, Goto, SetOutcome, Answer, store, request
  <1>0. call[a].op = "consume" => call[a].max \in Nat /\ call[a].max >= 1
    BY CallFields, BoundsAssumption DEF ConsumeCalls
  <1>1. ASSUME given'[a] = given[a], call'[a] = call[a]
        PROVE  \A ds : Complete(a, ds)' <=> Complete(a, ds)
    BY <1>1 DEF Complete
  <1>2. ASSUME UNCHANGED <<unacked, removed>>
        PROVE  \A d : Taken(a, d)' <=> Taken(a, d)
    BY <1>2 DEF Taken, Outstanding
  <1>3. CASE Invoke(a)
    <2>1. pc[a] = "idle" /\ UNCHANGED <<arriving, reply, pending>> /\ got'[a] = {}
      BY <1>3 DEF Invoke, InvokePublish, InvokeEmptyPublish, InvokeOther, Start
    <2>2. a \notin pending /\ reply[a] = "none" /\ arriving[a] = {}
      BY <2>1 DEF FetchInv
    <2>3. \/ pc'[a] = "open" /\ outcome'[a] = "none"
          \/ call'[a].op = "publish"
      BY <1>3 DEF Invoke, InvokePublish, InvokeEmptyPublish, InvokeOther, Start, PublishCalls
    <2>4. QED
      BY <2>1, <2>2, <2>3 DEF FetchInv, Distinct
  <1>4. CASE OpenChannel(a)
    <2>1. /\ pc'[a] = "get" \/ call[a].op # "consume"
          /\ pc[a] = "open" /\ given'[a] = 0 /\ reply[a] = "none" /\ a \notin pending
          /\ UNCHANGED <<call, got, arriving, reply, outcome, pending>>
      BY <1>4 DEF OpenChannel
    <2>2. call[a].op = "consume" => got[a] = {} /\ arriving[a] = {} /\ Complete(a, {})'
      BY <1>0, <1>4, <2>1, FS_EmptySet DEF OpenChannel, FetchInv, Complete
    <2>3. QED
      BY <2>1, <2>2 DEF FetchInv, Distinct
  <1>5. CASE call[a].op # "consume" /\ ~Invoke(a)
    <2>1. /\ call'[a] = call[a]
          /\ \/ arriving'[a] = {}
             \/ arriving'[a] = arriving[a] /\ (reply'[a] = "delivered" <=> reply[a] = "delivered")
      <3>1. CASE Client(a)
        BY <1>5, <3>1 DEF Client, OpenChannel, OpenFails, WriteFrame, Flush, FlushFails, Confirmed,
             WaitFails, Get, Receive, ReceiveEmpty, LoopEnds, CloseChannel, CloseSwallowed
      <3>2. CASE Broker(a)
        BY <1>5, <3>2 DEF Broker, BrokerPublish, BrokerGet, BrokerGetNothing, BrokerSettle,
                          Handled
      <3>3. CASE Lose(a)
        BY <3>3 DEF Lose
      <3>4. QED
        BY <1>5, <3>1, <3>2, <3>3 DEF OwnStep
    <2>2. QED
      BY <2>1, <1>5 DEF FetchInv
  <1>6. CASE OpenFails(a)
    BY <1>6, <1>1, <1>2 DEF OpenFails, FetchInv
  <1>7. CASE call[a].op = "consume" /\ WaitFails(a)
    BY <1>7, <1>1, <1>2 DEF WaitFails, Raise, FetchInv
  <1>8. CASE call[a].op = "consume" /\ Get(a)
    <2>1. Complete(a, got[a]) /\ given[a] < call[a].max
      BY <1>0, <1>8 DEF Get, FetchInv, FetchedAll, Complete
    <2>2. QED
      BY <2>1, <1>8, <1>1, <1>2 DEF Get, Write, FetchInv
  <1>9. CASE call[a].op = "consume" /\ Receive(a)
    <2>1. /\ got'[a] = got[a] \cup arriving[a] /\ arriving'[a] = {} /\ reply'[a] = "none"
          /\ pc'[a] = "get" /\ a \notin pending /\ reply[a] = "delivered" /\ pc[a] = "wait"
          /\ UNCHANGED <<given, call, channel, outcome, pending, unacked, removed>>
      BY <1>9 DEF Receive, Append
    <2>2. QED
      BY <2>1, <1>9, <1>1, <1>2 DEF FetchInv
  <1>10. CASE call[a].op = "consume" /\ ReceiveEmpty(a)
    BY <1>10, <1>1, <1>2 DEF ReceiveEmpty, Break, Succeed, FetchInv
  <1>11. CASE call[a].op = "consume" /\ LoopEnds(a)
    BY <1>11, <1>1, <1>2 DEF LoopEnds, Succeed, FetchInv
  <1>12. CASE call[a].op = "consume" /\ CloseChannel(a)
    BY <1>12, <1>1 DEF CloseChannel, FetchInv
  <1>13. CASE call[a].op = "consume" /\ CloseSwallowed(a)
    BY <1>13, <1>1 DEF CloseSwallowed, FetchInv
  <1>14. CASE call[a].op = "consume" /\ BrokerGet(a)
    <2>1. PICK c \in ready : Deliver(a, c, AutoAck(call[a]))
      BY <1>14 DEF BrokerGet, ReadyIn
    <2>2. PICK ds, d : ds = got[a] /\ d = [tag |-> given[a] + 1, copy |-> c]
      OBVIOUS
    <2>3. /\ given'[a] = given[a] + 1 /\ arriving'[a] = {d} /\ reply'[a] = "delivered"
          /\ a \in pending /\ a \notin pending' /\ channel[a] = "open" /\ reply[a] = "none"
          /\ pc[a] = "wait" /\ UNCHANGED <<pc, call, channel, got, outcome>>
      BY <1>14, <2>1, <2>2 DEF BrokerGet, Handled, Deliver
    <2>4. d.tag = given[a] + 1 /\ d.copy = c
      BY <2>2
    <2>5. arriving[a] = {} /\ Complete(a, ds) /\ given[a] < call[a].max
      BY <2>2, <2>3, <1>14 DEF FetchInv
    <2>6. Complete(a, ds \cup {d})'
      BY <1>0, <1>14, <2>3, <2>4, <2>5, NextIsNew
    <2>7. \A e \in ds : Taken(a, e)
      BY <2>2, <2>3, <1>14 DEF FetchInv
    <2>8. \A e \in ds : e.copy # c
      BY <2>7 DEF Taken, Outstanding, CopiesOf, Conservation
    <2>9. \A e \in ds \cup {d} : Taken(a, e)'
      <3>1. CASE AutoAck(call[a])
        BY <2>1, <2>4, <2>7, <3>1 DEF Deliver, Taken, Outstanding
      <3>2. CASE ~AutoAck(call[a])
        <4>1. /\ unacked' = unacked \cup {[channel |-> a, tag |-> given[a] + 1, copy |-> c]}
              /\ removed' = removed
          BY <2>1, <3>2 DEF Deliver
        <4>2. PICK e \in unacked' : e.channel = a /\ e.copy = c
          <5>1. [channel |-> a, tag |-> given[a] + 1, copy |-> c].channel = a
                /\ [channel |-> a, tag |-> given[a] + 1, copy |-> c].copy = c
            OBVIOUS
          <5>2. QED
            BY <4>1, <5>1
        <4>3. Taken(a, d)'
          BY <2>4, <4>2 DEF Taken, Outstanding
        <4>4. ASSUME NEW f \in ds
              PROVE  Taken(a, f)'
          BY <2>7, <4>1 DEF Taken, Outstanding
        <4>5. QED
          BY <4>3, <4>4
      <3>3. QED
        BY <3>1, <3>2
    <2>10. Distinct(ds \cup {d})
      BY <2>2, <2>4, <2>5, <2>8, <1>14 DEF Distinct, FetchInv
    <2>11. got'[a] \cup arriving'[a] = ds \cup {d}
      BY <2>2, <2>3
    <2>12. Distinct(got[a] \cup arriving[a])' /\ Complete(a, got[a] \cup arriving[a])'
      <3>1. Distinct(got'[a] \cup arriving'[a])
        BY <2>10, <2>11
      <3>2. QED
        BY <2>6, <2>11, <3>1 DEF Distinct, Complete
    <2>13. QED
      BY <1>14, <2>3, <2>9, <2>11, <2>12 DEF FetchInv
  <1>15. CASE call[a].op = "consume" /\ BrokerGetNothing(a)
    BY <1>15, <1>1, <1>2 DEF BrokerGetNothing, Handled, ChannelException, FetchInv
  <1>16. CASE call[a].op = "consume" /\ Lose(a)
    <2>1. /\ channel'[a] = "lost" /\ a \notin pending'
          /\ UNCHANGED <<pc, got, outcome, call, given>>
          /\ \/ UNCHANGED <<reply, arriving>>
             \/ reply'[a] = "none" /\ arriving'[a] = {}
      BY <1>16 DEF Lose
    <2>2. \A ds : Complete(a, ds)' <=> Complete(a, ds)
      BY <2>1, <1>1
    <2>3. Distinct(got[a] \cup arriving[a])'
      BY <1>16, <2>1 DEF FetchInv, Distinct
    <2>4. QED
      BY <1>16, <2>1, <2>2, <2>3 DEF FetchInv
  <1>17. QED
    BY <1>3, <1>4, <1>5, <1>6, <1>7, <1>8, <1>9, <1>10, <1>11, <1>12, <1>13, <1>14, <1>15, <1>16
       DEF OwnStep, Client, Broker, WriteFrame, Flush, FlushFails, Confirmed, BrokerPublish,
           BrokerSettle

\* FetchedInv is kept: a step of another agent takes nothing away from a fetch under way.
LEMMA StepFetchedInv == CallInv /\ Conservation /\ FetchedInv /\ [Next]_vars => FetchedInv'
  <1> SUFFICES ASSUME CallInv, Conservation, FetchedInv, [Next]_vars, NEW a \in Agents
               PROVE  FetchInv(a)'
    BY DEF FetchedInv
  <1>1. CASE OwnStep(a)
    BY <1>1, OwnFetches DEF FetchedInv
  <1>2. ASSUME NEW b \in Agents \ {a}, OwnStep(b)
        PROVE  FetchInv(a)'
    BY <1>2, OthersFetches DEF FetchedInv
  <1>3. CASE Reap
    <2>1. \A d : Taken(a, d) => Taken(a, d)'
      BY <1>3, NobodyAssumption DEF Reap, Requeue, Taken, Outstanding
    <2>2. \A ds : Complete(a, ds)' <=> Complete(a, ds)
      BY <1>3 DEF Reap, request, Complete
    <2>3. QED
      BY <1>3, <2>1, <2>2 DEF Reap, request, FetchInv, FetchedInv
  <1>4. CASE UNCHANGED vars
    <2>1. \A d : Taken(a, d) => Taken(a, d)'
      BY <1>4 DEF vars, Taken, Outstanding
    <2>2. \A ds : Complete(a, ds)' <=> Complete(a, ds)
      BY <1>4 DEF vars, Complete
    <2>3. QED
      BY <1>4, <2>1, <2>2 DEF vars, FetchInv, FetchedInv
  <1>5. QED
    BY <1>1, <1>2, <1>3, <1>4 DEF Next, OwnStep

\* What consume returns is what the broker took from the queue for it, each message once
\* and no more than asked for, though answers are lost with the connection and other
\* agents take and return messages meanwhile (message_tools.py:141-170).
THEOREM ConsumeComplete == Spec => []ConsumeReportsAll
  <1>1. Init => FetchedInv
    BY DEF Init, FetchedInv, FetchInv, NoCall
  <1>2. FetchedInv => ConsumeReportsAll
    BY DEF FetchedInv, FetchInv, Complete, Distinct, ConsumeReportsAll, Succeeded
  <1>3. QED
    BY <1>1, <1>2, StepFetchedInv, CallInvariant, CopiesConserved, PTL DEF Spec

(***************************************************************************)
(* Refinement.  Every step is a step of Mailbox, or leaves its view alone.    *)
(* What is stored is what was enqueued and not removed (Conservation), and    *)
(* what a call holds is what it has fetched (FetchInv).                     *)
(***************************************************************************)
Stored == ready \cup CopiesOf(unacked)
Takers == {a \in Agents : Taking(a)}
Holdings == [a \in Agents |-> Holding(a)]
Returneds == [a \in Agents |-> Returned(a)]

\* Everything the refinement rests on.
BoxInv == CallInv /\ HeldInv /\ Conservation /\ FetchedInv

\* Copies are stored until they are removed.
LEMMA StoredCopies == Conservation => Stored = enqueued \ removed
  BY DEF Conservation, Stored

\* A step of one agent shows in its own view only.
LEMMA OthersView ==
  ASSUME CallInv, NEW a \in Agents, OwnStep(a)
  PROVE  /\ Takers' = IF Taking(a)' THEN Takers \cup {a} ELSE Takers \ {a}
         /\ Holdings' = [Holdings EXCEPT ![a] = Holding(a)']
         /\ Returneds' = [Returneds EXCEPT ![a] = Returned(a)']
  <1>1. ASSUME NEW b \in Agents \ {a}
        PROVE  /\ Taking(b)' <=> Taking(b)
               /\ Holding(b)' = Holding(b) /\ Returned(b)' = Returned(b)
    BY OthersCalls DEF Taking, Holding, Returned, Takes, Idle, Doomed, CopiesOf
  <1>2. QED
    BY <1>1 DEF Takers, Holdings, Returneds

\* A step after which the call of a is as it was, or is going to fail.
LEMMA QuietStep ==
  ASSUME CallInv, Conservation, Conservation', NEW a \in Agents, OwnStep(a),
         UNCHANGED <<enqueued, removed>>, Returned(a)' = Returned(a),
         Taking(a)' => Taking(a) /\ Holding(a)' = Holding(a)
  PROVE  Box!Next \/ UNCHANGED Box!vars
  <1>1. Stored' = Stored
    BY StoredCopies DEF Stored, Conservation
  <1>2. Returneds' = Returneds
    BY OthersView DEF Returneds
  <1>3. CASE Taking(a) /\ ~Taking(a)'
    <2>1. /\ a \in Takers /\ Takers' = Takers \ {a}
          /\ Holdings' = [Holdings EXCEPT ![a] = {}]
      BY <1>3, OthersView DEF Takers, Holding
    <2>2. Box!Forfeit(a)
      BY <1>1, <1>2, <2>1
         DEF Box!Forfeit, Box!Holds, Stored, Takers, Holdings, Returneds
    <2>3. QED
      BY <2>2 DEF Box!Next
  <1>4. CASE Taking(a)' <=> Taking(a)
    <2>1. Holding(a)' = Holding(a)
      BY <1>4 DEF Holding
    <2>2. Takers' = Takers /\ Holdings' = Holdings
      BY <1>4, <2>1, OthersView DEF Takers, Holdings
    <2>3. QED
      BY <1>1, <1>2, <2>2 DEF Box!vars, Stored, Takers, Holdings, Returneds
  <1>5. QED
    BY <1>3, <1>4

\* The calls of one agent.
LEMMA ClientInBox ==
  ASSUME BoxInv, BoxInv', NEW a \in Agents, Invoke(a) \/ Client(a)
  PROVE  Box!Next \/ UNCHANGED Box!vars
  <1> USE DEF Goto, SetOutcome, Answer, store, request
  <1>0. /\ TypeOK /\ PhaseInv /\ FetchInv(a) /\ CallInv /\ Conservation /\ Conservation'
        /\ OwnStep(a)
    BY DEF BoxInv, CallInv, FetchedInv, OwnStep
  <1>1. UNCHANGED <<enqueued, removed>>
    BY DEF Invoke, InvokePublish, InvokeEmptyPublish, InvokeOther, Client, OpenChannel,
           OpenFails, WriteFrame, Flush, FlushFails, Confirmed, WaitFails, Get, Receive,
           ReceiveEmpty, LoopEnds, CloseChannel, CloseSwallowed
  <1>2. Stored' = Stored
    BY <1>0, <1>1, StoredCopies DEF Stored, Conservation
  <1>3. CASE Invoke(a)
    <2>1. Idle(a) /\ arriving[a] = {} /\ arriving' = arriving
      BY <1>0, <1>3 DEF Invoke, InvokePublish, InvokeEmptyPublish, InvokeOther, Start, Idle,
                        PhaseInv, FetchInv
    <2>2. got'[a] = {} /\ outcome'[a] # "ok"
      BY <1>0, <1>3 DEF Invoke, InvokePublish, InvokeEmptyPublish, InvokeOther, Start, TypeOK
    <2>3. ~Taking(a) /\ Holding(a) = {} /\ Holding(a)' = {} /\ Returned(a)' = {}
      BY <2>1, <2>2 DEF Taking, Holding, Returned, CopiesOf
    <2>4. /\ a \notin Takers /\ Takers' \in {Takers, Takers \cup {a}}
          /\ Holdings' = Holdings /\ Returneds' = [Returneds EXCEPT ![a] = {}]
      BY <1>0, <2>3, OthersView DEF Takers, Holdings
    <2>5. Box!Call(a)
      BY <1>1, <1>2, <2>3, <2>4 DEF Box!Call, Box!Returns, Stored, Takers, Holdings, Returneds
    <2>6. QED
      BY <2>5 DEF Box!Next
  <1>4. CASE CloseChannel(a) \/ CloseSwallowed(a)
    <2>1. /\ pc[a] = "close" /\ pc'[a] = "idle" /\ UNCHANGED <<call, got, arriving, outcome>>
          /\ arriving[a] = {}
      BY <1>0, <1>4 DEF CloseChannel, CloseSwallowed, TypeOK, PhaseInv, FetchInv
    <2>2. Returned(a) = {} /\ ~Taking(a)' /\ Holding(a)' = {}
      BY <2>1 DEF Returned, Taking, Holding, Idle
    <2>3. CASE Takes(a) /\ outcome[a] = "ok"
      <3>1. Taking(a) /\ Holding(a) = CopiesOf(got[a]) /\ Returned(a)' = {CopiesOf(got[a])}
        BY <2>1, <2>3 DEF Taking, Holding, Returned, Takes, Idle, Doomed, CopiesOf
      <3>2. /\ a \in Takers /\ Takers' = Takers \ {a}
            /\ Holdings' = [Holdings EXCEPT ![a] = {}]
            /\ Returneds' = [Returneds EXCEPT ![a] = {Holding(a)}]
        BY <1>0, <2>2, <3>1, OthersView DEF Takers
      <3>3. Box!Return(a)
        BY <1>1, <1>2, <3>2
           DEF Box!Return, Box!Returns, Box!Holds, Stored, Takers, Holdings, Returneds
      <3>4. QED
        BY <3>3 DEF Box!Next
    <2>4. CASE ~(Takes(a) /\ outcome[a] = "ok")
      <3>1. Returned(a)' = Returned(a)
        BY <2>1, <2>2, <2>4 DEF Returned, Takes
      <3>2. QED
        BY <1>0, <1>1, <2>2, <3>1, QuietStep
    <2>5. QED
      BY <2>3, <2>4
  <1>5. CASE Client(a) /\ ~CloseChannel(a) /\ ~CloseSwallowed(a)
    <2>1. ~Idle(a) /\ call' = call
      BY <1>5 DEF Client, OpenChannel, OpenFails, WriteFrame, Flush, FlushFails, Confirmed,
                  WaitFails, Get, Receive, ReceiveEmpty, LoopEnds, Idle
    <2>2. Returned(a)' = Returned(a)
      <3>1. Idle(a)' => outcome'[a] = "error"
        BY <1>0, <1>5 DEF Client, OpenChannel, OpenFails, WriteFrame, Flush, FlushFails,
                          Confirmed, WaitFails, Get, Receive, ReceiveEmpty, LoopEnds, Idle,
                          Raise, Succeed, Break, TypeOK
      <3>2. QED
        BY <2>1, <3>1 DEF Returned
    <2>3. ASSUME Taking(a)'
          PROVE  Taking(a) /\ Holding(a)' = Holding(a)
      <3>1. Takes(a)
        BY <2>1, <2>3 DEF Taking, Takes
      <3>2. CASE Receive(a)
        <4>1. /\ got'[a] \cup arriving'[a] = got[a] \cup arriving[a]
              /\ reply[a] = "delivered" /\ outcome' = outcome /\ pc[a] = "wait" /\ pc'[a] = "get"
          BY <1>0, <3>2 DEF Receive, Append, TypeOK
        <4>2. QED
          BY <2>1, <2>3, <3>1, <4>1 DEF Taking, Holding, Idle, Doomed
      <3>3. CASE ~Receive(a)
        <4>1. UNCHANGED <<got, arriving>>
          BY <1>5, <3>3 DEF Client, OpenChannel, OpenFails, WriteFrame, Flush, FlushFails,
                            Confirmed, WaitFails, Get, ReceiveEmpty, LoopEnds
        <4>2. Doomed(a) => Doomed(a)'
          BY <1>0, <1>5, <3>1, <3>3 DEF Client, OpenChannel, OpenFails, WriteFrame, Flush,
             FlushFails, Confirmed, WaitFails, Get, ReceiveEmpty, LoopEnds, Raise, Succeed,
             Break, TypeOK, Takes, Doomed, PhaseInv, FetchInv
        <4>3. QED
          BY <2>1, <2>3, <3>1, <4>1, <4>2 DEF Taking, Holding
      <3>4. QED
        BY <3>2, <3>3
    <2>4. QED
      BY <1>0, <1>1, <2>2, <2>3, QuietStep
  <1>6. QED
    BY <1>3, <1>4, <1>5

\* The broker's handling of a frame, and the loss of a connection.
LEMMA BrokerInBox ==
  ASSUME BoxInv, BoxInv', NEW a \in Agents, Broker(a) \/ Lose(a)
  PROVE  Box!Next \/ UNCHANGED Box!vars
  <1>0. /\ TypeOK /\ PhaseInv /\ FreshInv /\ FetchInv(a) /\ HeldInv /\ CallInv
        /\ Conservation /\ Conservation' /\ TypeOK' /\ OwnStep(a)
    BY DEF BoxInv, CallInv, FetchedInv, OwnStep
  <1>1. UNCHANGED <<pc, call, got, outcome>>
    BY DEF Broker, BrokerPublish, BrokerGet, BrokerGetNothing, BrokerSettle, Lose, request
  <1>2. Returned(a)' = Returned(a)
    BY <1>1 DEF Returned, Takes, Idle, CopiesOf
  <1>3. ASSUME ~Takes(a)
        PROVE  ~Taking(a) /\ ~Taking(a)' /\ Holding(a) = {} /\ Holding(a)' = {}
    BY <1>1, <1>3 DEF Taking, Holding, Takes
  <1>4. CASE BrokerPublish(a)
    <2>1. ~Takes(a)
      BY <1>4 DEF BrokerPublish, Takes
    <2>2. CASE call[a].dest \in Undeclared
      <3>1. UNCHANGED <<enqueued, removed>>
        BY <1>4, <2>2 DEF BrokerPublish
      <3>2. QED
        BY <1>0, <1>2, <1>3, <2>1, <3>1, QuietStep
    <2>3. CASE call[a].dest \notin Undeclared
      <3> DEFINE copies == Routes[call[a].dest] \X {mine[a]}
      <3>1. /\ enqueued' = enqueued \cup copies /\ ready' = ready \cup copies
            /\ UNCHANGED <<unacked, removed>>
        BY <1>4, <2>3 DEF BrokerPublish
      <3>2. copies \cap enqueued = {}
        BY <1>0, <1>4 DEF BrokerPublish, Handled, FreshInv, Unsent
      <3>3. copies \in SUBSET Copies
        BY <1>0, <3>1 DEF TypeOK
      <3>4. Stored' = Stored \cup copies
        BY <3>1 DEF Stored
      <3>5. Takers' = Takers /\ Holdings' = Holdings /\ Returneds' = Returneds
        BY <1>0, <1>2, <1>3, <2>1, OthersView DEF Takers, Holdings, Returneds
      <3> HIDE DEF copies
      <3>6. Box!Put(copies)
        BY <3>1, <3>2, <3>4, <3>5 DEF Box!Put, Stored, Takers, Holdings, Returneds
      <3>7. QED
        BY <3>3, <3>6 DEF Box!Next
    <2>4. QED
      BY <2>2, <2>3
  <1>5. CASE BrokerGet(a)
    <2>1. PICK c \in ready : Deliver(a, c, AutoAck(call[a]))
      BY <1>5 DEF BrokerGet, ReadyIn
    <2>2. enqueued' = enqueued /\ call[a].op = "consume"
      BY <1>5 DEF BrokerGet
    <2>3. CASE Takes(a)
      <3>1. removed' = removed \cup {c} /\ c \in Copies /\ c \in Stored
        BY <1>0, <2>1, <2>3 DEF Deliver, AutoAck, Takes, TypeOK, Stored
      <3>2. Stored' = Stored \ {c}
        <4>1. Stored = enqueued \ removed /\ Stored' = enqueued' \ removed'
          BY <1>0 DEF Conservation, Stored
        <4>2. QED
          BY <2>2, <3>1, <4>1
      <3>3. /\ pc[a] = "wait" /\ reply[a] = "none" /\ arriving[a] = {} /\ outcome[a] = "none"
            /\ channel[a] = "open" /\ channel' = channel
        BY <1>0, <1>5, <2>2 DEF BrokerGet, Handled, PhaseInv, FetchInv
      <3>4. reply'[a] = "delivered" /\ \E t : arriving'[a] = {[tag |-> t, copy |-> c]}
        BY <1>0, <2>1 DEF Deliver, Answer, TypeOK
      <3>5. Taking(a) /\ Taking(a)' /\ Holding(a) = CopiesOf(got[a])
        BY <1>1, <2>3, <3>3, <3>4 DEF Taking, Holding, Takes, Idle, Doomed, CopiesOf
      <3>6. Holding(a)' = CopiesOf(got[a]) \cup {c}
        <4>1. Holding(a)' = CopiesOf(got[a] \cup arriving[a])'
          BY <3>5 DEF Holding
        <4>2. CopiesOf(got[a] \cup arriving[a])' = CopiesOf(got[a]) \cup {c}
          <5>1. PICK t : arriving'[a] = {[tag |-> t, copy |-> c]}
            BY <3>4
          <5>2. [tag |-> t, copy |-> c].copy = c
            OBVIOUS
          <5>3. QED
            BY <1>1, <5>1, <5>2 DEF CopiesOf
        <4>3. QED
          BY <4>1, <4>2
      <3>7. /\ a \in Takers /\ Takers' = Takers /\ Returneds' = Returneds
            /\ Holdings' = [Holdings EXCEPT ![a] = Holding(a) \cup {c}]
        <4>1. a \in Takers /\ Takers' = Takers \cup {a}
          BY <1>0, <3>5, OthersView DEF Takers
        <4>2. Returneds' = Returneds
          BY <1>0, <1>2, OthersView DEF Returneds
        <4>3. Holdings' = [Holdings EXCEPT ![a] = Holding(a) \cup {c}]
          BY <1>0, <3>5, <3>6, OthersView
        <4>4. QED
          BY <4>1, <4>2, <4>3
      <3>8. Box!Take(a, c)
        BY <2>2, <3>1, <3>2, <3>7
           DEF Box!Take, Box!Holds, Stored, Takers, Holdings, Returneds
      <3>9. QED
        BY <3>1, <3>8 DEF Box!Next
    <2>4. CASE ~Takes(a)
      <3>1. removed' = removed
        BY <2>1, <2>2, <2>4 DEF Deliver, AutoAck, Takes
      <3>2. QED
        BY <1>0, <1>2, <1>3, <2>2, <2>4, <3>1, QuietStep
    <2>5. QED
      BY <2>3, <2>4
  <1>6. CASE BrokerGetNothing(a)
    <2>1. UNCHANGED <<enqueued, removed, arriving>>
      BY <1>6 DEF BrokerGetNothing
    <2>2. /\ pc[a] = "wait" /\ reply[a] = "none" /\ channel[a] = "open" /\ arriving[a] = {}
      BY <1>0, <1>6 DEF BrokerGetNothing, Handled, PhaseInv, FetchInv
    <2>3. Taking(a) \/ ~Takes(a) \/ outcome[a] = "error"
      BY <2>2 DEF Taking, Takes, Idle, Doomed
    <2>4. Taking(a)' => Taking(a) /\ Holding(a)' = Holding(a)
      BY <1>1, <2>1, <2>3 DEF Taking, Holding, Takes, Doomed, CopiesOf
    <2>5. QED
      BY <1>0, <1>2, <2>1, <2>4, QuietStep
  <1>7. CASE BrokerSettle(a)
    <2>1. call[a].op # "consume" /\ enqueued' = enqueued
      BY <1>7 DEF BrokerSettle
    <2>2. Covered(a) = {}
      BY <1>0, <2>1, NobodyAssumption DEF HeldInv, Covered, Outstanding
    <2>3. removed' = removed
      BY <1>7, <2>2 DEF BrokerSettle, CopiesOf
    <2>4. ~Takes(a)
      BY <2>1 DEF Takes
    <2>5. QED
      BY <1>0, <1>2, <1>3, <2>1, <2>3, <2>4, QuietStep
  <1>8. CASE Lose(a)
    <2>1. /\ UNCHANGED <<enqueued, removed>>
          /\ channel[a] = "open" /\ channel'[a] = "lost"
          /\ \/ UNCHANGED <<reply, arriving>>
             \/ reply'[a] = "none" /\ arriving'[a] = {}
      BY <1>0, <1>8 DEF Lose, Answer, TypeOK
    <2>2. Taking(a)' => Taking(a) /\ Holding(a)' = Holding(a)
      <3>1. CASE pc[a] = "wait"
        BY <1>1, <2>1, <3>1 DEF Taking, Holding, Takes, Idle, Doomed, CopiesOf
      <3>2. CASE pc[a] # "wait"
        <4>1. Takes(a) => arriving[a] = {} /\ arriving'[a] = {}
          BY <1>0, <2>1, <3>2 DEF PhaseInv, FetchInv, Takes
        <4>2. QED
          BY <1>1, <1>3, <3>2, <4>1 DEF Taking, Holding, Takes, Idle, Doomed, CopiesOf
      <3>3. QED
        BY <3>1, <3>2
    <2>3. QED
      BY <1>0, <1>2, <2>1, <2>2, QuietStep
  <1>9. QED
    BY <1>4, <1>5, <1>6, <1>7, <1>8 DEF Broker

\* Everything the refinement rests on holds throughout.
LEMMA BoxInvariant == Spec => []BoxInv
  <1>1. Init => HeldInv
    BY DEF Init, HeldInv
  <1>2. Init => FetchedInv
    BY DEF Init, FetchedInv, FetchInv, NoCall
  <1>3. QED
    BY <1>1, <1>2, StepHeldInv, StepFetchedInv, CallInvariant, CopiesConserved, PTL
       DEF Spec, BoxInv

\* The tools implement a Mailbox: whatever fails, and whoever else runs, a message put in
\* a queue is taken by one consume(auto_ack=True) call at most, and the call returns all
\* it took or fails; no other call takes anything (message_tools.py:139-170).
THEOREM Implements == Spec => ImplementsMailbox
  <1>1. Init => Box!Init
    BY DEF Init, Box!Init, Taking, Holding, Returned, Takes, NoCall, CopiesOf
  <1>2. BoxInv /\ BoxInv' /\ [Next]_vars => [Box!Next]_(Box!vars)
    <2> SUFFICES ASSUME BoxInv, BoxInv', [Next]_vars
                 PROVE  Box!Next \/ UNCHANGED Box!vars
      OBVIOUS
    <2>1. ASSUME NEW a \in Agents, Invoke(a) \/ Client(a) \/ Broker(a) \/ Lose(a)
          PROVE  Box!Next \/ UNCHANGED Box!vars
      BY <2>1, ClientInBox, BrokerInBox
    <2>2. CASE Reap
      <3>1. UNCHANGED <<enqueued, removed, pc, call, channel, reply, arriving, got, outcome>>
        BY <2>2 DEF Reap, request
      <3>2. Stored' = Stored
        BY <3>1 DEF BoxInv, Conservation, Stored
      <3>3. Takers' = Takers /\ Holdings' = Holdings /\ Returneds' = Returneds
        BY <3>1 DEF Takers, Holdings, Returneds, Taking, Holding, Returned, Takes, Idle, Doomed,
                    CopiesOf
      <3>4. QED
        BY <3>1, <3>2, <3>3 DEF Box!vars, Stored, Takers, Holdings, Returneds
    <2>3. CASE UNCHANGED vars
      BY <2>3 DEF vars, Box!vars, Taking, Holding, Returned, Takes, Idle, Doomed, CopiesOf
    <2>4. QED
      BY <2>1, <2>2, <2>3 DEF Next
  <1>3. QED
    BY <1>1, <1>2, BoxInvariant, PTL DEF Spec, ImplementsMailbox, Box!Spec
=============================================================================
