-------------------- MODULE SyncConnectionManagerProofs --------------------
(***************************************************************************)
(* What TLAPS proves about SyncConnectionManager, for every set of threads, *)
(* connections and faults.                                                  *)
(***************************************************************************)
EXTENDS SyncConnectionManager, TLAPS

(***************************************************************************)
(* Type correctness.  The attempts counter stays in 0..3 only because a call *)
(* that dials has failed at most twice, and status and casualties keep their *)
(* types only because a call holds a connection in the part that uses it.   *)
(***************************************************************************)
\* What the code of a call has established at each of its points.
ThreadInv(t) ==
  /\ pc[t] \in {"is_open", "is_open_prop", "params"} => attempts[t] = 0
  /\ pc[t] = "dial" => attempts[t] <= 2
  /\ pc[t] \notin {"idle", "finally"} => outcome[t] = "none"
  /\ pc[t] = "finally" => outcome[t] \in {"ok", "ToolError", "Foreign"}
  /\ pc[t] \notin {"store", "channel", "body", "finally"} => conn[t] = None
  /\ pc[t] \in {"store", "body", "finally"} => conn[t] # None

ControlInv == \A t \in Threads : ThreadInv(t)

TypeInv == CallsOK /\ ControlInv

\* Initially every thread is idle and holds nothing.
LEMMA InitTypeInv == Init => TypeInv
  BY DEF Init, TypeInv, CallsOK, ControlInv, ThreadInv, Labels, CallKinds, Outcomes

\* Finding a connection dead keeps the types of what it changes.
LEMMA DiscoverType ==
  ASSUME CallsOK, NEW t \in Threads, NEW c \in Conns, Discover(t, c)
  PROVE  /\ status' \in [Conns -> {"closed", "open", "lost"}]
         /\ casualties' \in [Threads -> [Conns -> 0..2]]
  BY DEF CallsOK, Discover

\* No step of the manager, of pika or of the broker breaks a type.
LEMMA StepCallsOK == TypeInv /\ [Next]_vars => CallsOK'
  <1> SUFFICES ASSUME TypeInv, [Next]_vars
               PROVE  CallsOK'
    OBVIOUS
  <1> USE DEF TypeInv, CallsOK, Labels, Outcomes, Goto, Finish
  <1>1. ASSUME NEW t \in Threads, NEW k \in CallKinds, Invoke(t, k)
        PROVE  CallsOK'
    BY <1>1 DEF Invoke, CallKinds
  <1>2. ASSUME NEW t \in Threads, IsOpen(t)
        PROVE  CallsOK'
    BY <1>2 DEF IsOpen, AfterIsOpen, HasConnection
  <1>3. ASSUME NEW t \in Threads, IsOpenProp(t)
        PROVE  CallsOK'
    BY <1>3 DEF IsOpenProp, AfterIsOpen
  <1>4. ASSUME NEW t \in Threads, Params(t)
        PROVE  CallsOK'
    BY <1>4 DEF Params
  <1>5. ASSUME NEW t \in Threads, NEW c \in Conns, DialSucceeds(t, c)
        PROVE  CallsOK'
    <2>1. attempts' \in [Threads -> 0..3]
      <3>1. attempts[t] \in 0..2
        BY <1>5 DEF DialSucceeds, ControlInv, ThreadInv
      <3>2. QED
        BY <1>5, <3>1 DEF DialSucceeds, CountAttempt
    <2>2. casualties' \in [Threads -> [Conns -> 0..2]]
      BY <1>5 DEF DialSucceeds
    <2>3. channels' \subseteq Threads \X Conns
      BY <1>5 DEF DialSucceeds
    <2>4. /\ status' \in [Conns -> {"closed", "open", "lost"}]
          /\ conn' \in [Threads -> Conns \cup {None}]
          /\ pc' \in [Threads -> Labels]
      BY <1>5 DEF DialSucceeds
    <2>5. QED
      BY <1>5, <2>1, <2>2, <2>3, <2>4 DEF DialSucceeds
  <1>6. ASSUME NEW t \in Threads, DialRefused(t)
        PROVE  CallsOK'
    <2>1. attempts' \in [Threads -> 0..3]
      <3>1. attempts[t] \in 0..2
        BY <1>6 DEF DialRefused, ControlInv, ThreadInv
      <3>2. QED
        BY <1>6, <3>1 DEF DialRefused, CountAttempt
    <2>2. QED
      BY <1>6, <2>1 DEF DialRefused, CountAttempt
  <1>7. ASSUME NEW t \in Threads, DialFails(t)
        PROVE  CallsOK'
    <2>1. attempts' \in [Threads -> 0..3]
      <3>1. attempts[t] \in 0..2
        BY <1>7 DEF DialFails, CountAttempt, ControlInv, ThreadInv
      <3>2. QED
        BY <1>7, <3>1 DEF DialFails, CountAttempt
    <2>2. QED
      BY <1>7, <2>1 DEF DialFails, CountAttempt
  <1>8. ASSUME NEW t \in Threads, Store(t)
        PROVE  CallsOK'
    BY <1>8 DEF Store, ControlInv, ThreadInv
  <1>9. ASSUME NEW t \in Threads, AssertNotNone(t)
        PROVE  CallsOK'
    BY <1>9 DEF AssertNotNone
  <1>10. ASSUME NEW t \in Threads, Return(t)
         PROVE  CallsOK'
    <2>1. CASE kind[t] = "enter"
      BY <1>10, <2>1 DEF Return
    <2>2. CASE kind[t] # "enter"
      BY <1>10, <2>2 DEF Return
    <2>3. QED
      BY <2>1, <2>2
  <1>11. ASSUME NEW t \in Threads, ChannelOpens(t)
         PROVE  CallsOK'
    BY <1>11 DEF ChannelOpens
  <1>12. ASSUME NEW t \in Threads, ChannelFindsDead(t)
         PROVE  CallsOK'
    BY <1>12 DEF ChannelFindsDead, Discover
  <1>13. ASSUME NEW t \in Threads, ChannelRefused(t)
         PROVE  CallsOK'
    BY <1>13 DEF ChannelRefused
  <1>14. ASSUME NEW t \in Threads, Body(t)
         PROVE  CallsOK'
    <2>1. /\ status' \in [Conns -> {"closed", "open", "lost"}]
          /\ casualties' \in [Threads -> [Conns -> 0..2]]
      <3>1. conn[t] \in Conns
        BY <1>14 DEF Body, ControlInv, ThreadInv
      <3>2. CASE Discover(t, conn[t])
        BY <3>1, <3>2, DiscoverType
      <3>3. CASE UNCHANGED <<status, casualties>>
        BY <3>3
      <3>4. QED
        BY <1>14, <3>2, <3>3 DEF Body
    <2>2. QED
      BY <1>14, <2>1 DEF Body, Raise
  <1>15. ASSUME NEW t \in Threads, CloseChannel(t)
         PROVE  CallsOK'
    <2>1. channels' \subseteq Threads \X Conns
      BY <1>15 DEF CloseChannel, ReleaseChannel
    <2>2. status' \in [Conns -> {"closed", "open", "lost"}]
      BY <1>15 DEF CloseChannel
    <2>3. outcome' \in [Threads -> Outcomes]
      BY <1>15 DEF CloseChannel
    <2>4. QED
      BY <1>15, <2>1, <2>2, <2>3 DEF CloseChannel
  <1>16. ASSUME NEW t \in Threads, CloseCall(t)
         PROVE  CallsOK'
    <2>1. CASE Close(t)
      BY <2>1 DEF Close, HasConnection
    <2>2. CASE CloseProp(t)
      BY <2>2 DEF CloseProp
    <2>3. CASE CloseConnection(t)
      BY <2>3 DEF CloseConnection
    <2>4. CASE CloseClear(t)
      BY <2>4 DEF CloseClear
    <2>5. QED
      BY <1>16, <2>1, <2>2, <2>3, <2>4 DEF CloseCall
  <1>17. ASSUME NEW t \in Threads, Race(t)
         PROVE  CallsOK'
    <2>1. status' \in [Conns -> {"closed", "open", "lost"}]
      BY <1>17 DEF Race
    <2>2. outcome' = [outcome EXCEPT ![t] = "Foreign"]
      BY <1>17 DEF Race, Raise
    <2>3. pc' \in [Threads -> Labels]
      BY <1>17 DEF Race, Raise
    <2>4. conn' \in [Threads -> Conns \cup {None}]
      BY <1>17 DEF Race
    <2>5. UNCHANGED <<connection, channels, kind, attempts, casualties>>
      BY <1>17 DEF Race
    <2>6. QED
      BY <2>1, <2>2, <2>3, <2>4, <2>5
  <1>18. ASSUME NEW c \in Conns, Drop(c)
         PROVE  CallsOK'
    BY <1>18 DEF Drop
  <1>19. CASE UNCHANGED vars
    BY <1>19 DEF vars, calls
  <1>20. QED
    BY <1>1, <1>2, <1>3, <1>4, <1>5, <1>6, <1>7, <1>8, <1>9, <1>10, <1>11, <1>12,
       <1>13, <1>14, <1>15, <1>16, <1>17, <1>18, <1>19 DEF Next, Step, Connect,
       Channel

\* Nor what a call knows, holds and has counted at each point of its code.
LEMMA StepControlInv == TypeInv /\ [Next]_vars => ControlInv'
  <1> SUFFICES ASSUME TypeInv, [Next]_vars
               PROVE  ControlInv'
    OBVIOUS
  <1> USE NoneAssumption DEF TypeInv, CallsOK, ControlInv, ThreadInv, Goto, Finish
  <1>1. ASSUME NEW t \in Threads, NEW k \in CallKinds, Invoke(t, k)
        PROVE  ControlInv'
    BY <1>1 DEF Invoke
  <1>2. ASSUME NEW t \in Threads, IsOpen(t)
        PROVE  ControlInv'
    BY <1>2 DEF IsOpen, AfterIsOpen, HasConnection
  <1>3. ASSUME NEW t \in Threads, IsOpenProp(t)
        PROVE  ControlInv'
    BY <1>3 DEF IsOpenProp, AfterIsOpen
  <1>4. ASSUME NEW t \in Threads, Params(t)
        PROVE  ControlInv'
    BY <1>4 DEF Params
  <1>5. ASSUME NEW t \in Threads, NEW c \in Conns, DialSucceeds(t, c)
        PROVE  ControlInv'
    BY <1>5 DEF DialSucceeds, CountAttempt
  <1>6. ASSUME NEW t \in Threads, DialRefused(t)
        PROVE  ControlInv'
    BY <1>6 DEF DialRefused, CountAttempt, StopAfterAttempt
  <1>7. ASSUME NEW t \in Threads, DialFails(t)
        PROVE  ControlInv'
    BY <1>7 DEF DialFails, CountAttempt
  <1>8. ASSUME NEW t \in Threads, Store(t)
        PROVE  ControlInv'
    BY <1>8 DEF Store
  <1>9. ASSUME NEW t \in Threads, AssertNotNone(t)
        PROVE  ControlInv'
    BY <1>9 DEF AssertNotNone
  <1>10. ASSUME NEW t \in Threads, Return(t)
         PROVE  ControlInv'
    BY <1>10 DEF Return
  <1>11. ASSUME NEW t \in Threads, ChannelOpens(t)
         PROVE  ControlInv'
    BY <1>11 DEF ChannelOpens
  <1>12. ASSUME NEW t \in Threads, ChannelFindsDead(t)
         PROVE  ControlInv'
    BY <1>12 DEF ChannelFindsDead, Discover
  <1>13. ASSUME NEW t \in Threads, ChannelRefused(t)
         PROVE  ControlInv'
    BY <1>13 DEF ChannelRefused
  <1>14. ASSUME NEW t \in Threads, Body(t)
         PROVE  ControlInv'
    BY <1>14 DEF Body, Raise, Discover
  <1>15. ASSUME NEW t \in Threads, CloseChannel(t)
         PROVE  ControlInv'
    BY <1>15 DEF CloseChannel, ReleaseChannel
  <1>16. ASSUME NEW t \in Threads, CloseCall(t)
         PROVE  ControlInv'
    BY <1>16 DEF CloseCall, Close, CloseProp, CloseConnection, CloseClear, HasConnection
  <1>17. ASSUME NEW t \in Threads, Race(t)
         PROVE  ControlInv'
    BY <1>17 DEF Race, Raise, InUse
  <1>18. ASSUME NEW c \in Conns, Drop(c)
         PROVE  ControlInv'
    BY <1>18 DEF Drop
  <1>19. CASE UNCHANGED vars
    BY <1>19 DEF vars, calls
  <1>20. QED
    BY <1>1, <1>2, <1>3, <1>4, <1>5, <1>6, <1>7, <1>8, <1>9, <1>10, <1>11, <1>12,
       <1>13, <1>14, <1>15, <1>16, <1>17, <1>18, <1>19 DEF Next, Step, Connect,
       Channel

\* Both together are an invariant, which every later proof starts from.
LEMMA TypeInvariant == Spec => []TypeInv
  <1>1. TypeInv /\ [Next]_vars => TypeInv'
    BY StepCallsOK, StepControlInv DEF TypeInv
  <1>2. QED
    BY InitTypeInv, <1>1, PTL DEF Spec

\* Every variable keeps its type, whatever the threads, pika and the broker do.
THEOREM TypeCorrect == Spec => []TypeOK
  <1>1. Init => TypeOK
    BY InitTypeInv DEF Init, TypeInv, TypeOK
  <1>2. TypeInv' /\ TypeOK /\ [Next]_vars => TypeOK'
    <2>1. TypeOK /\ [Next]_vars => overlap' \in BOOLEAN
      BY DEF TypeOK, Next, vars
    <2>2. QED
      BY <2>1 DEF TypeInv, TypeOK
  <1>3. QED
    BY <1>1, <1>2, TypeInvariant, PTL DEF Spec

(***************************************************************************)
(* Channels.  NoChannelLeak is inductive given TypeInv: a channel is opened *)
(* with its connection in the local of the thread, which only the finally   *)
(* clause, closing the channel, gives up.                                   *)
(***************************************************************************)
\* Only Race could let a live channel outlive the with statement it belongs to.
LEMMA StepNoChannelLeak == TypeInv /\ NoChannelLeak /\ [Next]_vars => NoChannelLeak'
  <1> SUFFICES ASSUME TypeInv, NoChannelLeak, [Next]_vars
               PROVE  NoChannelLeak'
    OBVIOUS
  <1> USE DEF TypeInv, CallsOK, ControlInv, ThreadInv, NoChannelLeak, Goto, Finish
  <1>1. ASSUME NEW t \in Threads, NEW k \in CallKinds, Invoke(t, k)
        PROVE  NoChannelLeak'
    BY <1>1 DEF Invoke
  <1>2. ASSUME NEW t \in Threads, IsOpen(t)
        PROVE  NoChannelLeak'
    BY <1>2 DEF IsOpen, AfterIsOpen, HasConnection
  <1>3. ASSUME NEW t \in Threads, IsOpenProp(t)
        PROVE  NoChannelLeak'
    BY <1>3 DEF IsOpenProp, AfterIsOpen
  <1>4. ASSUME NEW t \in Threads, Params(t)
        PROVE  NoChannelLeak'
    BY <1>4 DEF Params
  <1>5. ASSUME NEW t \in Threads, NEW c \in Conns, DialSucceeds(t, c)
        PROVE  NoChannelLeak'
    BY <1>5 DEF DialSucceeds, CountAttempt
  <1>6. ASSUME NEW t \in Threads, DialRefused(t)
        PROVE  NoChannelLeak'
    BY <1>6 DEF DialRefused, CountAttempt, StopAfterAttempt
  <1>7. ASSUME NEW t \in Threads, DialFails(t)
        PROVE  NoChannelLeak'
    BY <1>7 DEF DialFails, CountAttempt
  <1>8. ASSUME NEW t \in Threads, Store(t)
        PROVE  NoChannelLeak'
    BY <1>8 DEF Store
  <1>9. ASSUME NEW t \in Threads, AssertNotNone(t)
        PROVE  NoChannelLeak'
    BY <1>9 DEF AssertNotNone
  <1>10. ASSUME NEW t \in Threads, Return(t)
         PROVE  NoChannelLeak'
    BY <1>10 DEF Return
  <1>11. ASSUME NEW t \in Threads, ChannelOpens(t)
         PROVE  NoChannelLeak'
    BY <1>11 DEF ChannelOpens
  <1>12. ASSUME NEW t \in Threads, ChannelFindsDead(t)
         PROVE  NoChannelLeak'
    BY <1>12 DEF ChannelFindsDead, Discover
  <1>13. ASSUME NEW t \in Threads, ChannelRefused(t)
         PROVE  NoChannelLeak'
    BY <1>13 DEF ChannelRefused
  <1>14. ASSUME NEW t \in Threads, Body(t)
         PROVE  NoChannelLeak'
    BY <1>14 DEF Body, Raise, Discover
  <1>15. ASSUME NEW t \in Threads, CloseChannel(t)
         PROVE  NoChannelLeak'
    BY <1>15 DEF CloseChannel, ReleaseChannel
  <1>16. ASSUME NEW t \in Threads, CloseCall(t)
         PROVE  NoChannelLeak'
    BY <1>16 DEF CloseCall, Close, CloseProp, CloseConnection, CloseClear, HasConnection
  <1>17. ASSUME NEW t \in Threads, Race(t)
         PROVE  NoChannelLeak'
    BY <1>17 DEF Race, Raise, InUse
  <1>18. ASSUME NEW c \in Conns, Drop(c)
         PROVE  NoChannelLeak'
    BY <1>18 DEF Drop
  <1>19. CASE UNCHANGED vars
    BY <1>19 DEF vars, calls
  <1>20. QED
    BY <1>1, <1>2, <1>3, <1>4, <1>5, <1>6, <1>7, <1>8, <1>9, <1>10, <1>11, <1>12,
       <1>13, <1>14, <1>15, <1>16, <1>17, <1>18, <1>19 DEF Next, Step, Connect,
       Channel

\* channel() closes every channel it yields, unless pika is used from two threads
\* on one connection, for any number of threads and whatever else fails.
THEOREM ChannelsClosed == Spec => []NoChannelLeak
  <1>1. Init => NoChannelLeak
    BY DEF Init, NoChannelLeak
  <1>2. QED
    BY <1>1, StepNoChannelLeak, TypeInvariant, PTL DEF Spec

(***************************************************************************)
(* Giving up.  With transient failures only, RabbitMQConnectionError is the *)
(* outcome of DialRefused alone, at the last attempt.                       *)
(***************************************************************************)
\* A call that has given up on connecting has made all its attempts.
LEMMA StepGivesUpAfterThree == TypeInv /\ GivesUpAfterThree /\ [Next]_vars => GivesUpAfterThree'
  <1> SUFFICES ASSUME TypeInv, GivesUpAfterThree, [Next]_vars
               PROVE  GivesUpAfterThree'
    OBVIOUS
  <1> USE DEF TypeInv, CallsOK, ControlInv, ThreadInv, GivesUpAfterThree, Goto, Finish
  <1>1. ASSUME NEW t \in Threads, NEW k \in CallKinds, Invoke(t, k)
        PROVE  GivesUpAfterThree'
    BY <1>1 DEF Invoke
  <1>2. ASSUME NEW t \in Threads, IsOpen(t)
        PROVE  GivesUpAfterThree'
    BY <1>2 DEF IsOpen, AfterIsOpen, HasConnection
  <1>3. ASSUME NEW t \in Threads, IsOpenProp(t)
        PROVE  GivesUpAfterThree'
    BY <1>3 DEF IsOpenProp, AfterIsOpen
  <1>4. ASSUME NEW t \in Threads, Params(t)
        PROVE  GivesUpAfterThree'
    BY <1>4 DEF Params
  <1>5. ASSUME NEW t \in Threads, NEW c \in Conns, DialSucceeds(t, c)
        PROVE  GivesUpAfterThree'
    BY <1>5 DEF DialSucceeds, CountAttempt
  <1>6. ASSUME NEW t \in Threads, DialRefused(t)
        PROVE  GivesUpAfterThree'
    BY <1>6 DEF DialRefused, CountAttempt, StopAfterAttempt
  <1>7. ASSUME NEW t \in Threads, DialFails(t)
        PROVE  GivesUpAfterThree'
    BY <1>7 DEF DialFails, CountAttempt
  <1>8. ASSUME NEW t \in Threads, Store(t)
        PROVE  GivesUpAfterThree'
    BY <1>8 DEF Store
  <1>9. ASSUME NEW t \in Threads, AssertNotNone(t)
        PROVE  GivesUpAfterThree'
    BY <1>9 DEF AssertNotNone
  <1>10. ASSUME NEW t \in Threads, Return(t)
         PROVE  GivesUpAfterThree'
    BY <1>10 DEF Return
  <1>11. ASSUME NEW t \in Threads, ChannelOpens(t)
         PROVE  GivesUpAfterThree'
    BY <1>11 DEF ChannelOpens
  <1>12. ASSUME NEW t \in Threads, ChannelFindsDead(t)
         PROVE  GivesUpAfterThree'
    BY <1>12 DEF ChannelFindsDead, Discover
  <1>13. ASSUME NEW t \in Threads, ChannelRefused(t)
         PROVE  GivesUpAfterThree'
    BY <1>13 DEF ChannelRefused
  <1>14. ASSUME NEW t \in Threads, Body(t)
         PROVE  GivesUpAfterThree'
    BY <1>14 DEF Body, Raise, Discover
  <1>15. ASSUME NEW t \in Threads, CloseChannel(t)
         PROVE  GivesUpAfterThree'
    BY <1>15 DEF CloseChannel, ReleaseChannel
  <1>16. ASSUME NEW t \in Threads, CloseCall(t)
         PROVE  GivesUpAfterThree'
    BY <1>16 DEF CloseCall, Close, CloseProp, CloseConnection, CloseClear, HasConnection
  <1>17. ASSUME NEW t \in Threads, Race(t)
         PROVE  GivesUpAfterThree'
    BY <1>17 DEF Race, Raise, InUse
  <1>18. ASSUME NEW c \in Conns, Drop(c)
         PROVE  GivesUpAfterThree'
    BY <1>18 DEF Drop
  <1>19. CASE UNCHANGED vars
    BY <1>19 DEF vars, calls
  <1>20. QED
    BY <1>1, <1>2, <1>3, <1>4, <1>5, <1>6, <1>7, <1>8, <1>9, <1>10, <1>11, <1>12,
       <1>13, <1>14, <1>15, <1>16, <1>17, <1>18, <1>19 DEF Next, Step, Connect,
       Channel

\* Where only transient failures occur, a RabbitMQConnectionError means that the
\* broker has been tried three times, whatever the other threads do.
THEOREM GivesUpLate == Spec => []GivesUpAfterThree
  <1>1. Init => GivesUpAfterThree
    BY DEF Init, GivesUpAfterThree
  <1>2. QED
    BY <1>1, StepGivesUpAfterThree, TypeInvariant, PTL DEF Spec

(***************************************************************************)
(* Dead connections.  FailsOncePerDeath is not inductive.  What makes it     *)
(* hold: a connection whose death has failed a call is known to be closed   *)
(* (DeadInv); is_open() keeps a thread from picking such a connection up,    *)
(* and what another thread stores meanwhile is new (CleanInv), because a     *)
(* connection that is about to be stored is known to nobody else (FreshInv). *)
(***************************************************************************)
\* A connection just established is in no other local, not in the field, and unused.
FreshInv ==
  \A t \in Threads : pc[t] = "store" =>
    /\ conn[t] # connection
    /\ \A u \in Threads : conn[u] = conn[t] => u = t
    /\ \A u \in Threads : casualties[u][conn[t]] = 0

\* A connection that has failed a call is known to be dead.
DeadInv ==
  \A t \in Threads, c \in Conns : casualties[t][c] > 0 => status[c] = "closed"

\* What a thread is about to pick up, or uses, has not failed that thread before.
CleanInv ==
  \A t \in Threads :
    /\ pc[t] \in {"assert", "return"} /\ connection # None =>
         casualties[t][connection] = 0
    /\ pc[t] \in {"channel", "body"} /\ conn[t] # None => casualties[t][conn[t]] = 0

\* The inductive invariant behind FailsOncePerDeath.
DeathInv == TypeInv /\ FreshInv /\ DeadInv /\ CleanInv

\* A connection is known to nobody but the thread that is about to store it.
LEMMA StepFreshInv == DeathInv /\ [Next]_vars => FreshInv'
  <1> SUFFICES ASSUME DeathInv, [Next]_vars
               PROVE  FreshInv'
    OBVIOUS
  <1> USE NoneAssumption DEF DeathInv, TypeInv, CallsOK, ControlInv, ThreadInv, FreshInv, Goto, Finish
  <1>1. ASSUME NEW t \in Threads, NEW k \in CallKinds, Invoke(t, k)
        PROVE  FreshInv'
    BY <1>1 DEF Invoke
  <1>2. ASSUME NEW t \in Threads, IsOpen(t)
        PROVE  FreshInv'
    BY <1>2 DEF IsOpen, AfterIsOpen, HasConnection
  <1>3. ASSUME NEW t \in Threads, IsOpenProp(t)
        PROVE  FreshInv'
    BY <1>3 DEF IsOpenProp, AfterIsOpen
  <1>4. ASSUME NEW t \in Threads, Params(t)
        PROVE  FreshInv'
    BY <1>4 DEF Params
  <1>5. ASSUME NEW t \in Threads, NEW c \in Conns, DialSucceeds(t, c)
        PROVE  FreshInv'
    <2> SUFFICES ASSUME NEW u \in Threads, pc'[u] = "store"
                 PROVE  /\ conn'[u] # connection'
                        /\ \A v \in Threads : conn'[v] = conn'[u] => v = u
                        /\ \A v \in Threads : casualties'[v][conn'[u]] = 0
      BY DEF FreshInv
    <2>1. CASE u = t
      BY <1>5, <2>1 DEF DialSucceeds, CountAttempt, Free
    <2>2. CASE u # t
      BY <1>5, <2>2 DEF DialSucceeds, CountAttempt, Free
    <2>3. QED
      BY <2>1, <2>2
  <1>6. ASSUME NEW t \in Threads, DialRefused(t)
        PROVE  FreshInv'
    BY <1>6 DEF DialRefused, CountAttempt, StopAfterAttempt
  <1>7. ASSUME NEW t \in Threads, DialFails(t)
        PROVE  FreshInv'
    BY <1>7 DEF DialFails, CountAttempt
  <1>8. ASSUME NEW t \in Threads, Store(t)
        PROVE  FreshInv'
    BY <1>8 DEF Store
  <1>9. ASSUME NEW t \in Threads, AssertNotNone(t)
        PROVE  FreshInv'
    BY <1>9 DEF AssertNotNone
  <1>10. ASSUME NEW t \in Threads, Return(t)
         PROVE  FreshInv'
    BY <1>10 DEF Return
  <1>11. ASSUME NEW t \in Threads, ChannelOpens(t)
         PROVE  FreshInv'
    BY <1>11 DEF ChannelOpens
  <1>12. ASSUME NEW t \in Threads, ChannelFindsDead(t)
         PROVE  FreshInv'
    BY <1>12 DEF ChannelFindsDead, Discover
  <1>13. ASSUME NEW t \in Threads, ChannelRefused(t)
         PROVE  FreshInv'
    BY <1>13 DEF ChannelRefused
  <1>14. ASSUME NEW t \in Threads, Body(t)
         PROVE  FreshInv'
    <2>1. UNCHANGED <<connection, conn>> /\ pc' = [pc EXCEPT ![t] = "finally"]
      BY <1>14 DEF Body, Raise
    <2>2. CASE UNCHANGED casualties
      BY <2>1, <2>2
    <2>3. CASE Discover(t, conn[t])
      BY <1>14, <2>1, <2>3 DEF Body, Discover
    <2>4. QED
      BY <1>14, <2>2, <2>3 DEF Body
  <1>15. ASSUME NEW t \in Threads, CloseChannel(t)
         PROVE  FreshInv'
    BY <1>15 DEF CloseChannel, ReleaseChannel
  <1>16. ASSUME NEW t \in Threads, CloseCall(t)
         PROVE  FreshInv'
    BY <1>16 DEF CloseCall, Close, CloseProp, CloseConnection, CloseClear, HasConnection
  <1>17. ASSUME NEW t \in Threads, Race(t)
         PROVE  FreshInv'
    BY <1>17 DEF Race, Raise, InUse
  <1>18. ASSUME NEW c \in Conns, Drop(c)
         PROVE  FreshInv'
    BY <1>18 DEF Drop
  <1>19. CASE UNCHANGED vars
    BY <1>19 DEF vars, calls
  <1>20. QED
    BY <1>1, <1>2, <1>3, <1>4, <1>5, <1>6, <1>7, <1>8, <1>9, <1>10, <1>11, <1>12,
       <1>13, <1>14, <1>15, <1>16, <1>17, <1>18, <1>19 DEF Next, Step, Connect,
       Channel

\* A connection that has failed a call stays closed until the broker reuses its name.
LEMMA StepDeadInv == DeathInv /\ [Next]_vars => DeadInv'
  <1> SUFFICES ASSUME DeathInv, [Next]_vars
               PROVE  DeadInv'
    OBVIOUS
  <1> USE DEF DeathInv, TypeInv, CallsOK, ControlInv, ThreadInv, DeadInv, Goto, Finish
  <1>1. ASSUME NEW t \in Threads, NEW k \in CallKinds, Invoke(t, k)
        PROVE  DeadInv'
    BY <1>1 DEF Invoke
  <1>2. ASSUME NEW t \in Threads, IsOpen(t)
        PROVE  DeadInv'
    BY <1>2 DEF IsOpen, AfterIsOpen, HasConnection
  <1>3. ASSUME NEW t \in Threads, IsOpenProp(t)
        PROVE  DeadInv'
    BY <1>3 DEF IsOpenProp, AfterIsOpen
  <1>4. ASSUME NEW t \in Threads, Params(t)
        PROVE  DeadInv'
    BY <1>4 DEF Params
  <1>5. ASSUME NEW t \in Threads, NEW c \in Conns, DialSucceeds(t, c)
        PROVE  DeadInv'
    BY <1>5 DEF DialSucceeds, CountAttempt
  <1>6. ASSUME NEW t \in Threads, DialRefused(t)
        PROVE  DeadInv'
    BY <1>6 DEF DialRefused, CountAttempt, StopAfterAttempt
  <1>7. ASSUME NEW t \in Threads, DialFails(t)
        PROVE  DeadInv'
    BY <1>7 DEF DialFails, CountAttempt
  <1>8. ASSUME NEW t \in Threads, Store(t)
        PROVE  DeadInv'
    BY <1>8 DEF Store
  <1>9. ASSUME NEW t \in Threads, AssertNotNone(t)
        PROVE  DeadInv'
    BY <1>9 DEF AssertNotNone
  <1>10. ASSUME NEW t \in Threads, Return(t)
         PROVE  DeadInv'
    BY <1>10 DEF Return
  <1>11. ASSUME NEW t \in Threads, ChannelOpens(t)
         PROVE  DeadInv'
    BY <1>11 DEF ChannelOpens
  <1>12. ASSUME NEW t \in Threads, ChannelFindsDead(t)
         PROVE  DeadInv'
    BY <1>12, SMTT(20) DEF ChannelFindsDead, Discover
  <1>13. ASSUME NEW t \in Threads, ChannelRefused(t)
         PROVE  DeadInv'
    BY <1>13 DEF ChannelRefused
  <1>14. ASSUME NEW t \in Threads, Body(t)
         PROVE  DeadInv'
    BY <1>14 DEF Body, Raise, Discover
  <1>15. ASSUME NEW t \in Threads, CloseChannel(t)
         PROVE  DeadInv'
    BY <1>15 DEF CloseChannel, ReleaseChannel
  <1>16. ASSUME NEW t \in Threads, CloseCall(t)
         PROVE  DeadInv'
    BY <1>16 DEF CloseCall, Close, CloseProp, CloseConnection, CloseClear, HasConnection
  <1>17. ASSUME NEW t \in Threads, Race(t)
         PROVE  DeadInv'
    BY <1>17 DEF Race, Raise, InUse
  <1>18. ASSUME NEW c \in Conns, Drop(c)
         PROVE  DeadInv'
    BY <1>18 DEF Drop
  <1>19. CASE UNCHANGED vars
    BY <1>19 DEF vars, calls
  <1>20. QED
    BY <1>1, <1>2, <1>3, <1>4, <1>5, <1>6, <1>7, <1>8, <1>9, <1>10, <1>11, <1>12,
       <1>13, <1>14, <1>15, <1>16, <1>17, <1>18, <1>19 DEF Next, Step, Connect,
       Channel

\* No call picks up a connection that has already failed its thread.
LEMMA StepCleanInv == DeathInv /\ [Next]_vars => CleanInv'
  <1> SUFFICES ASSUME DeathInv, [Next]_vars
               PROVE  CleanInv'
    OBVIOUS
  <1> USE NoneAssumption DEF DeathInv, TypeInv, CallsOK, ControlInv, ThreadInv, FreshInv, DeadInv, CleanInv,
         ReportsOpen, Goto, Finish
  <1>1. ASSUME NEW t \in Threads, NEW k \in CallKinds, Invoke(t, k)
        PROVE  CleanInv'
    BY <1>1 DEF Invoke
  <1>2. ASSUME NEW t \in Threads, IsOpen(t)
        PROVE  CleanInv'
    BY <1>2 DEF IsOpen, AfterIsOpen, HasConnection
  <1>3. ASSUME NEW t \in Threads, IsOpenProp(t)
        PROVE  CleanInv'
    <2>1. CASE connection = None
      BY <1>3, <2>1 DEF IsOpenProp
    <2>2. CASE connection # None
      <3>1. ReportsOpen(connection) => casualties[t][connection] = 0
        BY <2>2
      <3>2. QED
        BY <1>3, <2>2, <3>1 DEF IsOpenProp, AfterIsOpen
    <2>3. QED
      BY <2>1, <2>2
  <1>4. ASSUME NEW t \in Threads, Params(t)
        PROVE  CleanInv'
    BY <1>4 DEF Params
  <1>5. ASSUME NEW t \in Threads, NEW c \in Conns, DialSucceeds(t, c)
        PROVE  CleanInv'
    BY <1>5 DEF DialSucceeds, CountAttempt
  <1>6. ASSUME NEW t \in Threads, DialRefused(t)
        PROVE  CleanInv'
    BY <1>6 DEF DialRefused, CountAttempt, StopAfterAttempt
  <1>7. ASSUME NEW t \in Threads, DialFails(t)
        PROVE  CleanInv'
    BY <1>7 DEF DialFails, CountAttempt
  <1>8. ASSUME NEW t \in Threads, Store(t)
        PROVE  CleanInv'
    BY <1>8 DEF Store
  <1>9. ASSUME NEW t \in Threads, AssertNotNone(t)
        PROVE  CleanInv'
    BY <1>9 DEF AssertNotNone
  <1>10. ASSUME NEW t \in Threads, Return(t)
         PROVE  CleanInv'
    BY <1>10 DEF Return
  <1>11. ASSUME NEW t \in Threads, ChannelOpens(t)
         PROVE  CleanInv'
    BY <1>11 DEF ChannelOpens
  <1>12. ASSUME NEW t \in Threads, ChannelFindsDead(t)
         PROVE  CleanInv'
    BY <1>12 DEF ChannelFindsDead, Discover
  <1>13. ASSUME NEW t \in Threads, ChannelRefused(t)
         PROVE  CleanInv'
    BY <1>13 DEF ChannelRefused
  <1>14. ASSUME NEW t \in Threads, Body(t)
         PROVE  CleanInv'
    BY <1>14 DEF Body, Raise, Discover
  <1>15. ASSUME NEW t \in Threads, CloseChannel(t)
         PROVE  CleanInv'
    BY <1>15 DEF CloseChannel, ReleaseChannel
  <1>16. ASSUME NEW t \in Threads, CloseCall(t)
         PROVE  CleanInv'
    BY <1>16 DEF CloseCall, Close, CloseProp, CloseConnection, CloseClear, HasConnection
  <1>17. ASSUME NEW t \in Threads, Race(t)
         PROVE  CleanInv'
    BY <1>17 DEF Race, Raise, InUse
  <1>18. ASSUME NEW c \in Conns, Drop(c)
         PROVE  CleanInv'
    BY <1>18 DEF Drop
  <1>19. CASE UNCHANGED vars
    BY <1>19 DEF vars, calls
  <1>20. QED
    BY <1>1, <1>2, <1>3, <1>4, <1>5, <1>6, <1>7, <1>8, <1>9, <1>10, <1>11, <1>12,
       <1>13, <1>14, <1>15, <1>16, <1>17, <1>18, <1>19 DEF Next, Step, Connect,
       Channel

\* So a death is counted against a thread at most once.
LEMMA StepFailsOnce == DeathInv /\ FailsOncePerDeath /\ [Next]_vars => FailsOncePerDeath'
  <1> SUFFICES ASSUME DeathInv, FailsOncePerDeath, [Next]_vars
               PROVE  FailsOncePerDeath'
    OBVIOUS
  <1> USE DEF DeathInv, TypeInv, CallsOK, ControlInv, ThreadInv, CleanInv, FailsOncePerDeath, Goto, Finish
  <1>1. ASSUME NEW t \in Threads, NEW k \in CallKinds, Invoke(t, k)
        PROVE  FailsOncePerDeath'
    BY <1>1 DEF Invoke
  <1>2. ASSUME NEW t \in Threads, IsOpen(t)
        PROVE  FailsOncePerDeath'
    BY <1>2 DEF IsOpen, AfterIsOpen, HasConnection
  <1>3. ASSUME NEW t \in Threads, IsOpenProp(t)
        PROVE  FailsOncePerDeath'
    BY <1>3 DEF IsOpenProp, AfterIsOpen
  <1>4. ASSUME NEW t \in Threads, Params(t)
        PROVE  FailsOncePerDeath'
    BY <1>4 DEF Params
  <1>5. ASSUME NEW t \in Threads, NEW c \in Conns, DialSucceeds(t, c)
        PROVE  FailsOncePerDeath'
    BY <1>5 DEF DialSucceeds, CountAttempt
  <1>6. ASSUME NEW t \in Threads, DialRefused(t)
        PROVE  FailsOncePerDeath'
    BY <1>6 DEF DialRefused, CountAttempt, StopAfterAttempt
  <1>7. ASSUME NEW t \in Threads, DialFails(t)
        PROVE  FailsOncePerDeath'
    BY <1>7 DEF DialFails, CountAttempt
  <1>8. ASSUME NEW t \in Threads, Store(t)
        PROVE  FailsOncePerDeath'
    BY <1>8 DEF Store
  <1>9. ASSUME NEW t \in Threads, AssertNotNone(t)
        PROVE  FailsOncePerDeath'
    BY <1>9 DEF AssertNotNone
  <1>10. ASSUME NEW t \in Threads, Return(t)
         PROVE  FailsOncePerDeath'
    BY <1>10 DEF Return
  <1>11. ASSUME NEW t \in Threads, ChannelOpens(t)
         PROVE  FailsOncePerDeath'
    BY <1>11 DEF ChannelOpens
  <1>12. ASSUME NEW t \in Threads, ChannelFindsDead(t)
         PROVE  FailsOncePerDeath'
    BY <1>12 DEF ChannelFindsDead, Discover
  <1>13. ASSUME NEW t \in Threads, ChannelRefused(t)
         PROVE  FailsOncePerDeath'
    BY <1>13 DEF ChannelRefused
  <1>14. ASSUME NEW t \in Threads, Body(t)
         PROVE  FailsOncePerDeath'
    <2>1. CASE UNCHANGED casualties
      BY <2>1
    <2>2. CASE Discover(t, conn[t])
      <3>1. conn[t] \in Conns /\ casualties[t][conn[t]] = 0
        BY <1>14 DEF Body
      <3>2. QED
        BY <2>2, <3>1 DEF Discover
    <2>3. QED
      BY <1>14, <2>1, <2>2 DEF Body
  <1>15. ASSUME NEW t \in Threads, CloseChannel(t)
         PROVE  FailsOncePerDeath'
    BY <1>15 DEF CloseChannel, ReleaseChannel
  <1>16. ASSUME NEW t \in Threads, CloseCall(t)
         PROVE  FailsOncePerDeath'
    BY <1>16 DEF CloseCall, Close, CloseProp, CloseConnection, CloseClear, HasConnection
  <1>17. ASSUME NEW t \in Threads, Race(t)
         PROVE  FailsOncePerDeath'
    BY <1>17 DEF Race, Raise, InUse
  <1>18. ASSUME NEW c \in Conns, Drop(c)
         PROVE  FailsOncePerDeath'
    BY <1>18 DEF Drop
  <1>19. CASE UNCHANGED vars
    BY <1>19 DEF vars, calls
  <1>20. QED
    BY <1>1, <1>2, <1>3, <1>4, <1>5, <1>6, <1>7, <1>8, <1>9, <1>10, <1>11, <1>12,
       <1>13, <1>14, <1>15, <1>16, <1>17, <1>18, <1>19 DEF Next, Step, Connect,
       Channel

\* The inductive invariant is kept.
LEMMA StepDeathInv == DeathInv /\ [Next]_vars => DeathInv'
  BY StepCallsOK, StepControlInv, StepFreshInv, StepDeadInv, StepCleanInv DEF DeathInv, TypeInv

LEMMA InitDeathInv == Init => DeathInv
  BY InitTypeInv DEF Init, DeathInv, FreshInv, DeadInv, CleanInv

\* The death of a connection fails at most one call of each thread, however the
\* threads that share the manager interleave.
THEOREM OneFailurePerDeath == Spec => []FailsOncePerDeath
  <1>1. Init => FailsOncePerDeath
    BY DEF Init, FailsOncePerDeath
  <1>2. QED
    BY <1>1, InitDeathInv, StepDeathInv, StepFailsOnce, PTL DEF Spec

(***************************************************************************)
(* Serialized callers.  Between the reads of a call the field stays what the *)
(* first read found: a connection, or one that may be replaced (KeptInv).     *)
(* Only the threads in the manager can change it, and only a dial, there,    *)
(* makes a connection live; tool bodies can but find theirs dead.           *)
(***************************************************************************)
\* connect() and close() overwrite the field only when what it holds is closed.
DeadFieldInv ==
  \A t \in Threads :
    pc[t] \in {"params", "dial", "store", "close_clear"} =>
      connection = None \/ status[connection] = "closed"

\* What connect() is about to store is not known to be closed.
NewInv == \A t \in Threads : pc[t] = "store" => status[conn[t]] # "closed"

KeptInv == NoneNeverUsed /\ DeadFieldInv /\ NewInv

\* Every connection that is not known to be closed is in the field, or about to be.
KnownInv ==
  \A c \in Conns : status[c] # "closed" =>
    connection = c \/ \E t \in Threads : pc[t] = "store" /\ conn[t] = c

\* The inductive invariant, until threads overlap in the manager.
SerialInv == DeathInv /\ KnownInv /\ KeptInv

\* What a thread that is alone in the manager has read there stays so, whoever works on the
\* connection meanwhile.
LEMMA StepKeptInv == Serialized /\ SerialInv /\ [Next]_vars => KeptInv'
  <1> SUFFICES ASSUME Serialized, SerialInv, [Next]_vars
               PROVE  KeptInv'
    OBVIOUS
  <1> USE NoneAssumption DEF Serialized, InManager, SerialInv, DeathInv, TypeInv, CallsOK, ControlInv,
      ThreadInv, FreshInv, KeptInv, NoneNeverUsed, DeadFieldInv, NewInv, ReportsOpen, Goto, Finish
  <1>1. ASSUME NEW t \in Threads, NEW k \in CallKinds, Invoke(t, k)
        PROVE  KeptInv'
    BY <1>1 DEF Invoke
  <1>2. ASSUME NEW t \in Threads, IsOpen(t)
        PROVE  KeptInv'
    BY <1>2 DEF IsOpen, AfterIsOpen, HasConnection
  <1>3. ASSUME NEW t \in Threads, IsOpenProp(t)
        PROVE  KeptInv'
    BY <1>3 DEF IsOpenProp, AfterIsOpen
  <1>4. ASSUME NEW t \in Threads, Params(t)
        PROVE  KeptInv'
    BY <1>4 DEF Params
  <1>5. ASSUME NEW t \in Threads, NEW c \in Conns, DialSucceeds(t, c)
        PROVE  KeptInv'
    BY <1>5 DEF DialSucceeds, CountAttempt, Free
  <1>6. ASSUME NEW t \in Threads, DialRefused(t)
        PROVE  KeptInv'
    BY <1>6 DEF DialRefused, CountAttempt, StopAfterAttempt
  <1>7. ASSUME NEW t \in Threads, DialFails(t)
        PROVE  KeptInv'
    BY <1>7 DEF DialFails, CountAttempt
  <1>8. ASSUME NEW t \in Threads, Store(t)
        PROVE  KeptInv'
    BY <1>8 DEF Store
  <1>9. ASSUME NEW t \in Threads, AssertNotNone(t)
        PROVE  KeptInv'
    BY <1>9 DEF AssertNotNone
  <1>10. ASSUME NEW t \in Threads, Return(t)
         PROVE  KeptInv'
    BY <1>10 DEF Return
  <1>11. ASSUME NEW t \in Threads, ChannelOpens(t)
         PROVE  KeptInv'
    BY <1>11 DEF ChannelOpens
  <1>12. ASSUME NEW t \in Threads, ChannelFindsDead(t)
         PROVE  KeptInv'
    BY <1>12 DEF ChannelFindsDead, Discover
  <1>13. ASSUME NEW t \in Threads, ChannelRefused(t)
         PROVE  KeptInv'
    BY <1>13 DEF ChannelRefused
  <1>14. ASSUME NEW t \in Threads, Body(t)
         PROVE  KeptInv'
    BY <1>14 DEF Body, Raise, Discover
  <1>15. ASSUME NEW t \in Threads, CloseChannel(t)
         PROVE  KeptInv'
    BY <1>15 DEF CloseChannel, ReleaseChannel
  <1>16. ASSUME NEW t \in Threads, CloseCall(t)
         PROVE  KeptInv'
    <2>1. CASE Close(t)
      BY <2>1 DEF Close, HasConnection
    <2>2. CASE CloseProp(t)
      BY <2>2 DEF CloseProp
    <2>3. CASE CloseConnection(t)
      BY <2>3 DEF CloseConnection
    <2>4. CASE CloseClear(t)
      BY <2>4 DEF CloseClear
    <2>5. QED
      BY <1>16, <2>1, <2>2, <2>3, <2>4 DEF CloseCall
  <1>17. ASSUME NEW t \in Threads, Race(t)
         PROVE  KeptInv'
    BY <1>17 DEF Race, Raise, InUse
  <1>18. ASSUME NEW c \in Conns, Drop(c)
         PROVE  KeptInv'
    BY <1>18 DEF Drop
  <1>19. CASE UNCHANGED vars
    BY <1>19 DEF vars, calls
  <1>20. QED
    BY <1>1, <1>2, <1>3, <1>4, <1>5, <1>6, <1>7, <1>8, <1>9, <1>10, <1>11, <1>12,
       <1>13, <1>14, <1>15, <1>16, <1>17, <1>18, <1>19 DEF Next, Step, Connect,
       Channel

\* A thread that is alone in the manager overwrites or clears the field only when its
\* connection is known to be closed.
LEMMA StepKnownInv == Serialized /\ SerialInv /\ [Next]_vars => KnownInv'
  <1> SUFFICES ASSUME Serialized, SerialInv, [Next]_vars
               PROVE  KnownInv'
    OBVIOUS
  <1> USE NoneAssumption DEF Serialized, InManager, SerialInv, DeathInv, TypeInv, CallsOK, ControlInv,
      ThreadInv, KeptInv, DeadFieldInv, KnownInv, Goto, Finish
  <1>1. ASSUME NEW t \in Threads, NEW k \in CallKinds, Invoke(t, k)
        PROVE  KnownInv'
    BY <1>1 DEF Invoke
  <1>2. ASSUME NEW t \in Threads, IsOpen(t)
        PROVE  KnownInv'
    BY <1>2 DEF IsOpen, AfterIsOpen, HasConnection
  <1>3. ASSUME NEW t \in Threads, IsOpenProp(t)
        PROVE  KnownInv'
    BY <1>3 DEF IsOpenProp, AfterIsOpen
  <1>4. ASSUME NEW t \in Threads, Params(t)
        PROVE  KnownInv'
    BY <1>4 DEF Params
  <1>5. ASSUME NEW t \in Threads, NEW c \in Conns, DialSucceeds(t, c)
        PROVE  KnownInv'
    BY <1>5 DEF DialSucceeds, CountAttempt, Free
  <1>6. ASSUME NEW t \in Threads, DialRefused(t)
        PROVE  KnownInv'
    BY <1>6 DEF DialRefused, CountAttempt, StopAfterAttempt
  <1>7. ASSUME NEW t \in Threads, DialFails(t)
        PROVE  KnownInv'
    BY <1>7 DEF DialFails, CountAttempt
  <1>8. ASSUME NEW t \in Threads, Store(t)
        PROVE  KnownInv'
    <2> SUFFICES ASSUME NEW c \in Conns, status[c] # "closed", c # conn[t]
                 PROVE  FALSE
      BY <1>8 DEF Store
    <2>1. connection = None \/ status[connection] = "closed"
      BY <1>8 DEF Store
    <2>2. PICK u \in Threads : pc[u] = "store" /\ conn[u] = c
      BY <2>1
    <2>3. u = t
      BY <1>8, <2>2 DEF Store
    <2>4. QED
      BY <2>2, <2>3
  <1>9. ASSUME NEW t \in Threads, AssertNotNone(t)
        PROVE  KnownInv'
    BY <1>9 DEF AssertNotNone
  <1>10. ASSUME NEW t \in Threads, Return(t)
         PROVE  KnownInv'
    BY <1>10 DEF Return
  <1>11. ASSUME NEW t \in Threads, ChannelOpens(t)
         PROVE  KnownInv'
    BY <1>11 DEF ChannelOpens
  <1>12. ASSUME NEW t \in Threads, ChannelFindsDead(t)
         PROVE  KnownInv'
    BY <1>12 DEF ChannelFindsDead, Discover
  <1>13. ASSUME NEW t \in Threads, ChannelRefused(t)
         PROVE  KnownInv'
    BY <1>13 DEF ChannelRefused
  <1>14. ASSUME NEW t \in Threads, Body(t)
         PROVE  KnownInv'
    BY <1>14 DEF Body, Raise, Discover
  <1>15. ASSUME NEW t \in Threads, CloseChannel(t)
         PROVE  KnownInv'
    BY <1>15 DEF CloseChannel, ReleaseChannel
  <1>16. ASSUME NEW t \in Threads, CloseCall(t)
         PROVE  KnownInv'
    <2>1. CASE Close(t)
      BY <2>1 DEF Close, HasConnection
    <2>2. CASE CloseProp(t)
      BY <2>2 DEF CloseProp
    <2>3. CASE CloseConnection(t)
      BY <2>3 DEF CloseConnection
    <2>4. CASE CloseClear(t)
      <3>1. connection = None \/ status[connection] = "closed"
        BY <2>4 DEF CloseClear
      <3>2. /\ status' = status
            /\ \A u \in Threads : pc[u] = "store" => pc'[u] = "store" /\ conn'[u] = conn[u]
        BY <2>4 DEF CloseClear
      <3>3. QED
        BY <3>1, <3>2
    <2>5. QED
      BY <1>16, <2>1, <2>2, <2>3, <2>4 DEF CloseCall
  <1>17. ASSUME NEW t \in Threads, Race(t)
         PROVE  KnownInv'
    <2>1. connection' = connection /\ \A c \in Conns : status'[c] # "closed" => status[c] # "closed"
      BY <1>17 DEF Race, Raise, InUse
    <2>2. \A u \in Threads : pc[u] = "store" => pc'[u] = "store" /\ conn'[u] = conn[u]
      BY <1>17 DEF Race, Raise, InUse
    <2>3. QED
      BY <2>1, <2>2
  <1>18. ASSUME NEW c \in Conns, Drop(c)
         PROVE  KnownInv'
    BY <1>18 DEF Drop
  <1>19. CASE UNCHANGED vars
    BY <1>19 DEF vars, calls
  <1>20. QED
    BY <1>1, <1>2, <1>3, <1>4, <1>5, <1>6, <1>7, <1>8, <1>9, <1>10, <1>11, <1>12,
       <1>13, <1>14, <1>15, <1>16, <1>17, <1>18, <1>19 DEF Next, Step, Connect,
       Channel

\* Only a call for a connection goes past is_open().
KindInv ==
  \A t \in Threads :
    /\ pc[t] \in {"is_open", "is_open_prop"} => kind[t] # "close"
    /\ pc[t] \in {"params", "dial", "store", "assert", "return"} => kind[t] \in {"tool", "enter"}

\* A call stays of its kind until the next one.
LEMMA StepKindInv == TypeInv /\ KindInv /\ [Next]_vars => KindInv'
  <1> SUFFICES ASSUME TypeInv, KindInv, [Next]_vars
               PROVE  KindInv'
    OBVIOUS
  <1> USE DEF TypeInv, CallsOK, KindInv, CallKinds, Goto, Finish
  <1>1. ASSUME NEW t \in Threads, NEW k \in CallKinds, Invoke(t, k)
        PROVE  KindInv'
    BY <1>1 DEF Invoke
  <1>2. ASSUME NEW t \in Threads, IsOpen(t)
        PROVE  KindInv'
    BY <1>2 DEF IsOpen, AfterIsOpen, HasConnection
  <1>3. ASSUME NEW t \in Threads, IsOpenProp(t)
        PROVE  KindInv'
    BY <1>3 DEF IsOpenProp, AfterIsOpen
  <1>4. ASSUME NEW t \in Threads, Params(t)
        PROVE  KindInv'
    BY <1>4 DEF Params
  <1>5. ASSUME NEW t \in Threads, NEW c \in Conns, DialSucceeds(t, c)
        PROVE  KindInv'
    BY <1>5 DEF DialSucceeds, CountAttempt, Free
  <1>6. ASSUME NEW t \in Threads, DialRefused(t)
        PROVE  KindInv'
    BY <1>6 DEF DialRefused, CountAttempt, StopAfterAttempt
  <1>7. ASSUME NEW t \in Threads, DialFails(t)
        PROVE  KindInv'
    BY <1>7 DEF DialFails, CountAttempt
  <1>8. ASSUME NEW t \in Threads, Store(t)
        PROVE  KindInv'
    BY <1>8 DEF Store
  <1>9. ASSUME NEW t \in Threads, AssertNotNone(t)
        PROVE  KindInv'
    BY <1>9 DEF AssertNotNone
  <1>10. ASSUME NEW t \in Threads, Return(t)
         PROVE  KindInv'
    BY <1>10 DEF Return
  <1>11. ASSUME NEW t \in Threads, ChannelOpens(t)
         PROVE  KindInv'
    BY <1>11 DEF ChannelOpens
  <1>12. ASSUME NEW t \in Threads, ChannelFindsDead(t)
         PROVE  KindInv'
    BY <1>12 DEF ChannelFindsDead, Discover
  <1>13. ASSUME NEW t \in Threads, ChannelRefused(t)
         PROVE  KindInv'
    BY <1>13 DEF ChannelRefused
  <1>14. ASSUME NEW t \in Threads, Body(t)
         PROVE  KindInv'
    BY <1>14 DEF Body, Raise, Discover
  <1>15. ASSUME NEW t \in Threads, CloseChannel(t)
         PROVE  KindInv'
    BY <1>15 DEF CloseChannel, ReleaseChannel
  <1>16. ASSUME NEW t \in Threads, CloseCall(t)
         PROVE  KindInv'
    BY <1>16 DEF CloseCall, Close, CloseProp, CloseConnection, CloseClear, HasConnection
  <1>17. ASSUME NEW t \in Threads, Race(t)
         PROVE  KindInv'
    BY <1>17 DEF Race, Raise, InUse
  <1>18. ASSUME NEW c \in Conns, Drop(c)
         PROVE  KindInv'
    BY <1>18 DEF Drop
  <1>19. CASE UNCHANGED vars
    BY <1>19 DEF vars, calls
  <1>20. QED
    BY <1>1, <1>2, <1>3, <1>4, <1>5, <1>6, <1>7, <1>8, <1>9, <1>10, <1>11, <1>12,
       <1>13, <1>14, <1>15, <1>16, <1>17, <1>18, <1>19 DEF Next, Step, Connect,
       Channel

\* All that holds until threads overlap in the manager, and holds for ever if they never do.
UntilOverlap == DeathInv /\ KindInv /\ (~overlap => Serialized /\ SerialInv)

LEMMA SerialInvariant == Spec => []UntilOverlap
  <1>1. Init => UntilOverlap
    BY InitDeathInv DEF Init, UntilOverlap, Serialized, InManager, SerialInv, KnownInv, KeptInv,
       NoneNeverUsed, DeadFieldInv, NewInv, KindInv
  <1>2. UntilOverlap /\ [Next]_vars => UntilOverlap'
    <2> SUFFICES ASSUME UntilOverlap, [Next]_vars
                 PROVE  UntilOverlap'
      OBVIOUS
    <2>1. DeathInv' /\ KindInv'
      BY StepDeathInv, StepKindInv DEF UntilOverlap, DeathInv
    <2>2. ASSUME ~overlap'
          PROVE  ~overlap /\ Serialized'
      <3>1. CASE Next
        BY <2>2, <3>1 DEF Next
      <3>2. CASE UNCHANGED vars
        BY <2>2, <3>2 DEF UntilOverlap, vars, calls, Serialized, InManager
      <3>3. QED
        BY <3>1, <3>2
    <2>3. ASSUME ~overlap
          PROVE  SerialInv'
      BY <2>1, <2>3, StepKeptInv, StepKnownInv DEF UntilOverlap, SerialInv
    <2>4. QED
      BY <2>1, <2>2, <2>3 DEF UntilOverlap
  <1>3. QED
    BY <1>1, <1>2, PTL DEF Spec

\* Until two threads are inside the manager at the same time, it keeps one connection, and
\* uses no None.
THEOREM SharedUntilOverlap == Spec => []SharesUntilOverlap
  <1>1. UntilOverlap => SharesUntilOverlap
    BY DEF UntilOverlap, SerialInv, KnownInv, KeptInv, SharesUntilOverlap, SharedConnection
  <1>2. QED
    BY <1>1, SerialInvariant, PTL

(***************************************************************************)
(* One thread.  It never overlaps with another, and nobody but itself finds  *)
(* out that the connection it is about to return is dead (OpenInv).          *)
(***************************************************************************)
\* What connect() returns is not known to be closed.
OpenInv == \A t \in Threads : pc[t] \in {"assert", "return"} => ReportsOpen(connection)

AloneInv == HandsOutOpen /\ OpenInv

\* A single thread finds the connection as it left it.
LEMMA StepAloneInv == OneThread /\ SerialInv /\ AloneInv /\ [Next]_vars => AloneInv'
  <1> SUFFICES ASSUME OneThread, SerialInv, AloneInv, [Next]_vars
               PROVE  AloneInv'
    OBVIOUS
  <1> USE NoneAssumption DEF OneThread, SerialInv, DeathInv, TypeInv, CallsOK, ControlInv,
      ThreadInv, AloneInv, HandsOutOpen, OpenInv, KeptInv, NoneNeverUsed, NewInv, ReportsOpen, Goto, Finish
  <1>1. ASSUME NEW t \in Threads, NEW k \in CallKinds, Invoke(t, k)
        PROVE  AloneInv'
    BY <1>1 DEF Invoke
  <1>2. ASSUME NEW t \in Threads, IsOpen(t)
        PROVE  AloneInv'
    BY <1>2 DEF IsOpen, AfterIsOpen, HasConnection
  <1>3. ASSUME NEW t \in Threads, IsOpenProp(t)
        PROVE  AloneInv'
    BY <1>3 DEF IsOpenProp, AfterIsOpen
  <1>4. ASSUME NEW t \in Threads, Params(t)
        PROVE  AloneInv'
    BY <1>4 DEF Params
  <1>5. ASSUME NEW t \in Threads, NEW c \in Conns, DialSucceeds(t, c)
        PROVE  AloneInv'
    BY <1>5 DEF DialSucceeds, CountAttempt, Free
  <1>6. ASSUME NEW t \in Threads, DialRefused(t)
        PROVE  AloneInv'
    BY <1>6 DEF DialRefused, CountAttempt, StopAfterAttempt
  <1>7. ASSUME NEW t \in Threads, DialFails(t)
        PROVE  AloneInv'
    BY <1>7 DEF DialFails, CountAttempt
  <1>8. ASSUME NEW t \in Threads, Store(t)
        PROVE  AloneInv'
    BY <1>8 DEF Store
  <1>9. ASSUME NEW t \in Threads, AssertNotNone(t)
        PROVE  AloneInv'
    BY <1>9 DEF AssertNotNone
  <1>10. ASSUME NEW t \in Threads, Return(t)
         PROVE  AloneInv'
    BY <1>10 DEF Return
  <1>11. ASSUME NEW t \in Threads, ChannelOpens(t)
         PROVE  AloneInv'
    BY <1>11 DEF ChannelOpens
  <1>12. ASSUME NEW t \in Threads, ChannelFindsDead(t)
         PROVE  AloneInv'
    BY <1>12 DEF ChannelFindsDead, Discover
  <1>13. ASSUME NEW t \in Threads, ChannelRefused(t)
         PROVE  AloneInv'
    BY <1>13 DEF ChannelRefused
  <1>14. ASSUME NEW t \in Threads, Body(t)
         PROVE  AloneInv'
    BY <1>14 DEF Body, Raise, Discover
  <1>15. ASSUME NEW t \in Threads, CloseChannel(t)
         PROVE  AloneInv'
    BY <1>15 DEF CloseChannel, ReleaseChannel
  <1>16. ASSUME NEW t \in Threads, CloseCall(t)
         PROVE  AloneInv'
    BY <1>16 DEF CloseCall, Close, CloseProp, CloseConnection, CloseClear, HasConnection
  <1>17. ASSUME NEW t \in Threads, Race(t)
         PROVE  AloneInv'
    BY <1>17 DEF Race, Raise, InUse
  <1>18. ASSUME NEW c \in Conns, Drop(c)
         PROVE  AloneInv'
    BY <1>18 DEF Drop
  <1>19. CASE UNCHANGED vars
    BY <1>19 DEF vars, calls
  <1>20. QED
    BY <1>1, <1>2, <1>3, <1>4, <1>5, <1>6, <1>7, <1>8, <1>9, <1>10, <1>11, <1>12,
       <1>13, <1>14, <1>15, <1>16, <1>17, <1>18, <1>19 DEF Next, Step, Connect,
       Channel

\* The sequential program: what its only thread relies on.
LEMMA Sequential ==
  ASSUME OneThread
  PROVE  Spec => [](SerialInv /\ AloneInv)
  <1>1. Init => ~overlap /\ AloneInv
    BY DEF Init, AloneInv, HandsOutOpen, OpenInv
  <1>2. ~overlap /\ [Next]_vars => ~overlap'
    BY OneThread DEF OneThread, Next, Serialized, vars
  <1>3. UntilOverlap /\ ~overlap => SerialInv
    BY DEF UntilOverlap
  <1>4. SerialInv /\ AloneInv /\ [Next]_vars => AloneInv'
    BY OneThread, StepAloneInv
  <1>5. QED
    BY <1>1, <1>2, <1>3, <1>4, SerialInvariant, PTL DEF Spec

\* Called from one thread, the manager never holds more than the connection in its field.
THEOREM OneConnection ==
  ASSUME OneThread
  PROVE  Spec => []SharedConnection
  <1>1. SerialInv => SharedConnection
    BY DEF SerialInv, KnownInv, SharedConnection
  <1>2. QED
    BY <1>1, OneThread, Sequential, PTL

\* Called from one thread, it hands out no connection it knows to be dead.
THEOREM OpenHandedOut ==
  ASSUME OneThread
  PROVE  Spec => []HandsOutOpen
  <1>1. AloneInv => HandsOutOpen
    BY DEF AloneInv
  <1>2. QED
    BY <1>1, OneThread, Sequential, PTL

\* Called from one thread, it never trips over a None it has excluded.
THEOREM NoneExcluded ==
  ASSUME OneThread
  PROVE  Spec => []NoneNeverUsed
  <1>1. SerialInv => NoneNeverUsed
    BY DEF SerialInv, KeptInv
  <1>2. QED
    BY <1>1, OneThread, Sequential, PTL

(***************************************************************************)
(* Refinement.  As long as threads are serialized, every step of the manager *)
(* is a step of its abstract specification, or leaves held, live and lent    *)
(* alone.  A tool is lent its connection when connect() finds it open, or     *)
(* stores it: by the time connect() returns another tool may have found it   *)
(* dead.                                                                     *)
(***************************************************************************)
Loans == [t \in Threads |-> Lent(t)]

Shows == Lifecycle!Next \/ UNCHANGED Lifecycle!vars

\* A step of one call changes no loan but that of its thread.
LEMMA OwnLoan ==
  ASSUME NEW t \in Threads, \A u \in Threads \ {t} : Lent(u)' = Lent(u)
  PROVE  /\ Loans' = [Loans EXCEPT ![t] = Lent(t)']
         /\ Lent(t)' = Lent(t) => Loans' = Loans
  BY DEF Loans

\* A connection that is opened for a thread shows in the abstract specification.
LEMMA OpenShows ==
  ASSUME NEW c \in Conns, NEW t \in Threads, Lifecycle!Open(c, t)
  PROVE  Shows
  BY DEF Shows, Lifecycle!Next

\* Only what the field holds is known to be alive.
LEMMA KnownHeld == SerialInv => Known \subseteq {connection}
  BY DEF SerialInv, KnownInv, Known

\* When the field holds nothing that lives, nothing is known to live.
LEMMA NothingKnown ==
  ASSUME SerialInv, connection = None \/ status[connection] = "closed"
  PROVE  Known = {}
  <1>1. \A c \in Known : c = connection /\ c # None /\ status[c] # "closed"
    BY KnownHeld, NoneAssumption DEF Known
  <1>2. QED
    BY <1>1

\* A step that changes no loan, and the field neither, loses the connection or does not show.
LEMMA LoseOrNothing ==
  ASSUME SerialInv, UNCHANGED connection, Loans' = Loans, Known' \in SUBSET Known
  PROVE  Shows
  <1>1. CASE Known' = Known
    BY <1>1 DEF Shows, Lifecycle!vars, Loans
  <1>2. CASE Known' # Known
    <2>1. Known' = {}
      BY <1>2, KnownHeld
    <2>2. Lifecycle!Lose
      BY <2>1 DEF Lifecycle!Lose, Loans
    <2>3. QED
      BY <2>2 DEF Shows, Lifecycle!Next
  <1>3. QED
    BY <1>1, <1>2

\* A step in which a tool lets go of its connection, and may have found it dead.
LEMMA GivesBack ==
  ASSUME UNCHANGED connection, NEW t \in Threads, Lent(t) # None,
         Loans' = [Loans EXCEPT ![t] = None], Known' \in {Known, Known \ {Lent(t)}}
  PROVE  Shows
  <1>1. Loans[t] = Lent(t)
    BY DEF Loans
  <1>2. Lifecycle!GiveBack(t)
    BY <1>1 DEF Lifecycle!GiveBack, Loans
  <1>3. QED
    BY <1>2 DEF Shows, Lifecycle!Next

\* The abstract step of each step of the code.
LEMMA StepImplements == Serialized /\ KindInv /\ SerialInv /\ SerialInv' /\ [Next]_vars => Shows
  <1> SUFFICES ASSUME Serialized, KindInv, SerialInv, SerialInv', [Next]_vars
               PROVE  Shows
    OBVIOUS
  <1> USE NoneAssumption DEF Serialized, InManager, SerialInv, DeathInv, TypeInv, CallsOK, ControlInv,
      ThreadInv, FreshInv, KnownInv, KeptInv, NoneNeverUsed, DeadFieldInv, NewInv, ReportsOpen, Goto,
      Finish, Known, Lent, Loans
  <1>1. ASSUME NEW t \in Threads, NEW k \in CallKinds, Invoke(t, k)
        PROVE  Shows
    <2>1. UNCHANGED <<connection, Known, Loans>>
      BY <1>1 DEF Invoke
    <2>2. QED
      BY <2>1, LoseOrNothing
  <1>2. ASSUME NEW t \in Threads, IsOpen(t)
        PROVE  Shows
    <2>1. UNCHANGED <<connection, Known, Loans>>
      BY <1>2 DEF IsOpen, AfterIsOpen, HasConnection
    <2>2. QED
      BY <2>1, LoseOrNothing
  <1>3. ASSUME NEW t \in Threads, IsOpenProp(t)
        PROVE  Shows
    <2>1. UNCHANGED <<connection, Known>> /\ connection # None
      BY <1>3 DEF IsOpenProp, AfterIsOpen
    <2>2. CASE kind[t] = "tool" /\ ReportsOpen(connection)
      <3>1. connection \in Known
        BY <1>3, <2>1, <2>2
      <3>2. /\ pc' = [pc EXCEPT ![t] = "assert"]
            /\ UNCHANGED <<conn, kind>>
        BY <1>3, <2>1, <2>2 DEF IsOpenProp, AfterIsOpen
      <3>3. \A u \in Threads \ {t} : Lent(u)' = Lent(u)
        BY <2>1, <3>2
      <3>4. Lent(t)' = connection
        BY <2>1, <2>2, <3>2
      <3>5. Loans' = [Loans EXCEPT ![t] = connection]
        <4> HIDE DEF Loans, Lent
        <4>1. QED
          BY <3>3, <3>4, OwnLoan
      <3>6. Lifecycle!Lend(t)
        BY <2>1, <3>1, <3>5 DEF Lifecycle!Lend
      <3>7. QED
        BY <3>6 DEF Shows, Lifecycle!Next
    <2>3. CASE ~(kind[t] = "tool" /\ ReportsOpen(connection))
      <3>1. Loans' = Loans
        BY <1>3, <2>1, <2>3 DEF IsOpenProp, AfterIsOpen
      <3>2. QED
        BY <2>1, <3>1, LoseOrNothing
    <2>4. QED
      BY <2>2, <2>3
  <1>4. ASSUME NEW t \in Threads, Params(t)
        PROVE  Shows
    <2>1. UNCHANGED <<connection, Known, Loans>>
      BY <1>4 DEF Params
    <2>2. QED
      BY <2>1, LoseOrNothing
  <1>5. ASSUME NEW t \in Threads, NEW c \in Conns, DialSucceeds(t, c)
        PROVE  Shows
    <2>1. UNCHANGED <<connection, Known, Loans>>
      BY <1>5 DEF DialSucceeds, CountAttempt, Free
    <2>2. QED
      BY <2>1, LoseOrNothing
  <1>6. ASSUME NEW t \in Threads, DialRefused(t)
        PROVE  Shows
    <2>1. UNCHANGED <<connection, Known, Loans>>
      BY <1>6 DEF DialRefused, CountAttempt, StopAfterAttempt
    <2>2. QED
      BY <2>1, LoseOrNothing
  <1>7. ASSUME NEW t \in Threads, DialFails(t)
        PROVE  Shows
    <2>1. UNCHANGED <<connection, Known, Loans>>
      BY <1>7 DEF DialFails, CountAttempt
    <2>2. QED
      BY <2>1, LoseOrNothing
  <1>8. ASSUME NEW t \in Threads, Store(t)
        PROVE  Shows
    <2>1. Known = {} /\ Known' = {conn[t]} /\ connection' = conn[t] /\ conn[t] \in Conns
      BY <1>8 DEF Store
    <2>2. pc[t] = "store" /\ InManager(t)
      BY <1>8 DEF Store
    <2>3. ASSUME NEW u \in Threads \ {t}
          PROVE  Lent(u)' = Lent(u)
      <3>1. pc'[u] = pc[u] /\ conn'[u] = conn[u] /\ kind' = kind
        BY <1>8, <2>3 DEF Store
      <3>2. pc[u] \notin {"assert", "return"}
        BY <2>2, <2>3
      <3>3. QED
        BY <3>1, <3>2
    <2>4. Lent(t) = None /\ Lent(t)' \in {None, conn[t]}
      BY <1>8 DEF Store
    <2>5. Loans' \in {Loans, [Loans EXCEPT ![t] = conn[t]]}
      <3> HIDE DEF Loans, Lent
      <3>1. QED
        BY <2>3, <2>4, OwnLoan
    <2>6. Lifecycle!Open(conn[t], t)
      BY <2>1, <2>5 DEF Lifecycle!Open
    <2>7. QED
      <3> HIDE DEF Lifecycle!Open, Shows, Known, Loans, Lent
      <3>1. QED
        BY <2>1, <2>6, OpenShows
  <1>9. ASSUME NEW t \in Threads, AssertNotNone(t)
        PROVE  Shows
    <2>1. UNCHANGED <<connection, Known, Loans>>
      BY <1>9 DEF AssertNotNone
    <2>2. QED
      BY <2>1, LoseOrNothing
  <1>10. ASSUME NEW t \in Threads, Return(t)
         PROVE  Shows
    <2>1. UNCHANGED connection /\ Known' = Known
      BY <1>10 DEF Return
    <2>2. \A u \in Threads \ {t} : Lent(u)' = Lent(u)
      <3>1. ASSUME NEW u \in Threads \ {t}
            PROVE  pc'[u] = pc[u] /\ conn'[u] = conn[u] /\ kind' = kind
        BY <1>10 DEF Return
      <3>2. QED
        BY <2>1, <3>1
    <2>3. Lent(t)' = Lent(t)
      <3>1. CASE kind[t] = "enter"
        BY <1>10, <3>1 DEF Return
      <3>2. CASE kind[t] # "enter"
        BY <1>10, <3>2 DEF Return, KindInv
      <3>3. QED
        BY <3>1, <3>2
    <2>4. QED
      BY <2>1, <2>2, <2>3, OwnLoan, LoseOrNothing
  <1>11. ASSUME NEW t \in Threads, ChannelOpens(t)
         PROVE  Shows
    <2>1. UNCHANGED <<connection, Known, Loans>>
      BY <1>11 DEF ChannelOpens
    <2>2. QED
      BY <2>1, LoseOrNothing
  <1>12. ASSUME NEW t \in Threads, ChannelFindsDead(t)
         PROVE  Shows
    <2>1. connection' = connection /\ Known' = Known \ {conn[t]}
      BY <1>12 DEF ChannelFindsDead, Discover
    <2>2. Lent(t) = conn[t] /\ conn[t] # None
      BY <1>12 DEF ChannelFindsDead
    <2>3. Loans' = [Loans EXCEPT ![t] = None]
      BY <1>12 DEF ChannelFindsDead, Discover
    <2>4. QED
      BY <2>1, <2>2, <2>3, GivesBack
  <1>13. ASSUME NEW t \in Threads, ChannelRefused(t)
         PROVE  Shows
    <2>1. connection' = connection /\ Known' = Known
      BY <1>13 DEF ChannelRefused
    <2>2. Lent(t) = conn[t] /\ Lent(t)' = None /\ \A u \in Threads \ {t} : Lent(u)' = Lent(u)
      BY <1>13 DEF ChannelRefused
    <2>3. CASE conn[t] = None
      <3>1. Loans' = Loans
        BY <2>2, <2>3
      <3>2. QED
        BY <2>1, <3>1, LoseOrNothing
    <2>4. CASE conn[t] # None
      <3>1. Loans' = [Loans EXCEPT ![t] = None]
        <4> HIDE DEF Loans, Lent
        <4>1. QED
          BY <2>2, OwnLoan
      <3>2. QED
        BY <2>1, <2>2, <2>4, <3>1, GivesBack
    <2>5. QED
      BY <2>3, <2>4
  <1>14. ASSUME NEW t \in Threads, Body(t)
         PROVE  Shows
    <2>1. connection' = connection /\ Known' \in {Known, Known \ {conn[t]}}
      BY <1>14 DEF Body, Raise, Discover
    <2>2. Loans' = Loans
      BY <1>14 DEF Body, Raise, Discover
    <2>3. QED
      BY <2>1, <2>2, LoseOrNothing
  <1>15. ASSUME NEW t \in Threads, CloseChannel(t)
         PROVE  Shows
    <2>1. connection' = connection /\ Known' \in {Known, Known \ {conn[t]}}
      BY <1>15 DEF CloseChannel, ReleaseChannel
    <2>2. Lent(t) = conn[t] /\ conn[t] # None
      BY <1>15 DEF CloseChannel
    <2>3. Loans' = [Loans EXCEPT ![t] = None]
      BY <1>15 DEF CloseChannel, ReleaseChannel
    <2>4. QED
      BY <2>1, <2>2, <2>3, GivesBack
  <1>16. ASSUME NEW t \in Threads, CloseCall(t)
         PROVE  Shows
    <2>1. Loans' = Loans
      BY <1>16 DEF CloseCall, Close, CloseProp, CloseConnection, CloseClear, HasConnection
    <2>2. CASE Close(t) \/ CloseProp(t)
      <3>1. UNCHANGED <<connection, Known>>
        BY <2>2 DEF Close, CloseProp, HasConnection
      <3>2. QED
        BY <2>1, <3>1, LoseOrNothing
    <2>3. CASE CloseConnection(t)
      <3>1. connection' = connection /\ Known' \in SUBSET Known
        BY <2>3 DEF CloseConnection
      <3>2. QED
        BY <2>1, <3>1, LoseOrNothing
    <2>4. CASE CloseClear(t)
      <3>1. connection' = None /\ status' = status
        BY <2>4 DEF CloseClear
      <3>2. \A u \in Threads : pc[u] # "store" /\ pc'[u] # "store"
        BY <2>4 DEF CloseClear
      <3>3. connection = None \/ status[connection] = "closed"
        BY <2>4 DEF CloseClear
      <3>4. Known = {}
        <4> HIDE DEF SerialInv, Known
        <4>1. QED
          BY <3>3, NothingKnown
      <3>5. Known' = Known
        BY <3>1, <3>2
      <3>6. Lifecycle!Forget
        BY <2>1, <3>1, <3>4, <3>5 DEF Lifecycle!Forget
      <3>7. QED
        BY <3>6 DEF Shows, Lifecycle!Next
    <2>5. QED
      BY <1>16, <2>2, <2>3, <2>4 DEF CloseCall
  <1>17. ASSUME NEW t \in Threads, Race(t)
         PROVE  Shows
    <2>1. connection' = connection /\ Known' \in {Known, Known \ {InUse(t)}}
      BY <1>17 DEF Race, Raise, InUse
    <2>2. CASE pc[t] \in {"channel", "finally"}
      <3>1. Lent(t) = InUse(t) /\ InUse(t) # None
        BY <1>17, <2>2 DEF Race, InUse
      <3>2. /\ pc' = [pc EXCEPT ![t] = "idle"]
            /\ conn' = [conn EXCEPT ![t] = None]
            /\ UNCHANGED <<connection, kind>>
        BY <1>17, <2>2 DEF Race
      <3>3. Loans' = [Loans EXCEPT ![t] = None]
        <4>1. \A u \in Threads \ {t} : Lent(u)' = Lent(u)
          BY <3>2
        <4>2. Lent(t)' = None
          BY <3>2
        <4>3. QED
          <5> HIDE DEF Loans, Lent
          <5>1. QED
            BY <4>1, <4>2, OwnLoan
      <3>4. Known' \in {Known, Known \ {Lent(t)}}
        BY <2>1, <3>1
      <3>5. Lent(t) # None
        BY <3>1
      <3>6. QED
        BY <3>2, <3>3, <3>4, <3>5, GivesBack
    <2>3. CASE pc[t] \in {"body", "close_conn"}
      <3>1. Loans' = Loans
        BY <1>17, <2>3 DEF Race, Raise
      <3>2. QED
        BY <2>1, <3>1, LoseOrNothing
    <2>4. QED
      BY <1>17, <2>2, <2>3 DEF Race, InUse
  <1>18. ASSUME NEW c \in Conns, Drop(c)
         PROVE  Shows
    <2>1. UNCHANGED <<connection, Known, Loans>>
      BY <1>18 DEF Drop
    <2>2. QED
      BY <2>1, LoseOrNothing
  <1>19. CASE UNCHANGED vars
    BY <1>19 DEF vars, calls, Shows, Lifecycle!vars
  <1>20. QED
    BY <1>1, <1>2, <1>3, <1>4, <1>5, <1>6, <1>7, <1>8, <1>9, <1>10, <1>11, <1>12,
       <1>13, <1>14, <1>15, <1>16, <1>17, <1>18, <1>19 DEF Next, Step, Connect,
       Channel

\* The manager implements ConnectionLifecycle until two threads are inside it at the same
\* time, for any number of threads, connections and faults.
THEOREM Implements == Spec => ImplementsLifecycle
  <1>1. Init => Lifecycle!Init
    <2>1. SUFFICES ASSUME Init PROVE Lifecycle!Init
      OBVIOUS
    <2>2. Known = {}
      BY <2>1 DEF Init, Known
    <2>3. [t \in Threads |-> Lent(t)] = [t \in Threads |-> None]
      BY <2>1 DEF Init, Lent
    <2>4. QED
      BY <2>1, <2>2, <2>3 DEF Init, Lifecycle!Init
  <1>2. UntilOverlap /\ UntilOverlap' /\ [Next]_vars
          => [Lifecycle!Next \/ overlap']_(Lifecycle!vars)
    <2> SUFFICES ASSUME UntilOverlap, UntilOverlap', [Next]_vars, ~overlap'
                 PROVE  Shows
      BY DEF Shows
    <2>1. ~overlap
      BY DEF Next, vars
    <2>2. QED
      BY <2>1, StepImplements DEF UntilOverlap
  <1>3. QED
    BY <1>1, <1>2, SerialInvariant, PTL DEF Spec, ImplementsLifecycle
=============================================================================
