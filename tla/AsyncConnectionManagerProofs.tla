-------------------- MODULE AsyncConnectionManagerProofs --------------------
(***************************************************************************)
(* What TLAPS proves about AsyncConnectionManager, for every set of tasks,  *)
(* connections, messages and faults.                                        *)
(***************************************************************************)
EXTENDS AsyncConnectionManager, TLAPS

(***************************************************************************)
(* Type correctness.  status and channels keep their types because a task    *)
(* holds a connection wherever it awaits one, attempts because a task that   *)
(* dials has failed at most twice.                                          *)
(***************************************************************************)
\* What the code of a call has established at each of its awaits.
TaskInv(t) ==
  /\ pc[t] \in {"idle", "start", "dial"} => conn[t] = None
  /\ pc[t] \notin {"idle", "start", "dial"} => conn[t] \in Conns
  /\ pc[t] = "start" => attempts[t] = 0
  /\ pc[t] = "dial" => attempts[t] <= 2

ControlInv == \A t \in Tasks : TaskInv(t)

TypeInv == TypeOK /\ ControlInv

\* No step of a task, of aio-pika or of the broker breaks a type.
LEMMA StepTypeOK == TypeInv /\ [Next]_vars => TypeOK'
  <1> SUFFICES ASSUME TypeInv, [Next]_vars
               PROVE  TypeOK'
    OBVIOUS
  <1> USE NoneAssumption DEF TypeInv, TypeOK, ControlInv, TaskInv, Labels, CallKinds, Outcomes, Goto, Finish
  <1>1. ASSUME NEW t \in Tasks, NEW k \in CallKinds \ {"publish"}, Invoke(t, k, message[t])
        PROVE  TypeOK'
    BY <1>1 DEF Invoke
  <1>2. ASSUME NEW t \in Tasks, NEW m \in Messages, Invoke(t, "publish", m)
        PROVE  TypeOK'
    BY <1>2 DEF Invoke
  <1>3. ASSUME NEW t \in Tasks, InvokeEmpty(t)
        PROVE  TypeOK'
    BY <1>3 DEF InvokeEmpty
  <1>4. ASSUME NEW t \in Tasks, ConnectBegins(t)
        PROVE  TypeOK'
    <2>1. overlap' \in BOOLEAN
      BY <1>4, Zenon DEF ConnectBegins, Handed, IsOpen, EnterAwait
    <2>2. QED
      BY <1>4, <2>1 DEF ConnectBegins, Handed, IsOpen, EnterAwait
  <1>5. ASSUME NEW t \in Tasks, NEW c \in Conns, DialSucceeds(t, c)
        PROVE  TypeOK'
    BY <1>5 DEF DialSucceeds, Handed, CountAttempt
  <1>6. ASSUME NEW t \in Tasks, DialRefused(t)
        PROVE  TypeOK'
    BY <1>6 DEF DialRefused, Retry, CountAttempt, StopAfterAttempt
  <1>7. ASSUME NEW t \in Tasks, DialFails(t)
        PROVE  TypeOK'
    BY <1>7 DEF DialFails, CountAttempt
  <1>8. ASSUME NEW t \in Tasks, ChannelOpens(t)
        PROVE  TypeOK'
    BY <1>8 DEF ChannelOpens
  <1>9. ASSUME NEW t \in Tasks, ChannelFails(t)
        PROVE  TypeOK'
    BY <1>9 DEF ChannelFails
  <1>10. ASSUME NEW t \in Tasks, GetExchange(t)
         PROVE  TypeOK'
    BY <1>10 DEF GetExchange, Leave
  <1>11. ASSUME NEW t \in Tasks, Publish(t)
         PROVE  TypeOK'
    <2>1. message[t].routable \in BOOLEAN
      BY MessagesAssumption
    <2>2. routed' \in [Tasks -> BOOLEAN]
      BY <1>11, <2>1 DEF Publish
    <2>3. /\ pc' \in [Tasks -> Labels]
          /\ outcome' \in [Tasks -> Outcomes]
      BY <1>11 DEF Publish, Leave
    <2>4. QED
      BY <1>11, <2>2, <2>3 DEF Publish
  <1>12. ASSUME NEW t \in Tasks, BodyFails(t)
         PROVE  TypeOK'
    <2>1. message[t].routable \in BOOLEAN
      BY MessagesAssumption
    <2>2. routed' \in [Tasks -> BOOLEAN]
      BY <1>12, <2>1 DEF BodyFails
    <2>3. /\ pc' \in [Tasks -> Labels]
          /\ outcome' \in [Tasks -> Outcomes]
      BY <1>12 DEF BodyFails, Leave
    <2>4. QED
      BY <1>12, <2>2, <2>3 DEF BodyFails
  <1>13. ASSUME NEW t \in Tasks, CloseChannel(t)
         PROVE  TypeOK'
    BY <1>13 DEF CloseChannel, ReleaseChannel
  <1>14. ASSUME NEW t \in Tasks, CloseChannelFails(t)
         PROVE  TypeOK'
    BY <1>14 DEF CloseChannelFails, ReleaseChannel
  <1>15. ASSUME NEW t \in Tasks, CloseBegins(t)
         PROVE  TypeOK'
    <2>1. overlap' \in BOOLEAN
      BY <1>15, Zenon DEF CloseBegins, IsOpen, EnterAwait
    <2>2. QED
      BY <1>15, <2>1 DEF CloseBegins, IsOpen, EnterAwait
  <1>16. ASSUME NEW t \in Tasks, CloseEnds(t)
         PROVE  TypeOK'
    BY <1>16 DEF CloseEnds, Closed
  <1>17. ASSUME NEW t \in Tasks, Cancel(t)
         PROVE  TypeOK'
    BY <1>17 DEF Cancel, Leave, Closed, ReleaseChannel
  <1>18. ASSUME NEW c \in Conns, Break(c)
         PROVE  TypeOK'
    BY <1>18 DEF Break
  <1>19. ASSUME NEW c \in Conns, Reconnect(c)
         PROVE  TypeOK'
    BY <1>19 DEF Reconnect
  <1>20. CASE UNCHANGED vars
    BY <1>20 DEF vars
  <1>21. QED
    BY <1>1, <1>2, <1>3, <1>4, <1>5, <1>6, <1>7, <1>8, <1>9, <1>10,
       <1>11, <1>12, <1>13, <1>14, <1>15, <1>16, <1>17, <1>18, <1>19, <1>20
       DEF Next, Step, Connect, Tool

\* Nor what a call holds and has counted at each of its awaits.
LEMMA StepControlInv == TypeInv /\ [Next]_vars => ControlInv'
  <1> SUFFICES ASSUME TypeInv, [Next]_vars
               PROVE  ControlInv'
    OBVIOUS
  <1> USE NoneAssumption DEF TypeInv, TypeOK, ControlInv, TaskInv, Goto, Finish
  <1>1. ASSUME NEW t \in Tasks, NEW k \in CallKinds \ {"publish"}, Invoke(t, k, message[t])
        PROVE  ControlInv'
    BY <1>1 DEF Invoke
  <1>2. ASSUME NEW t \in Tasks, NEW m \in Messages, Invoke(t, "publish", m)
        PROVE  ControlInv'
    BY <1>2 DEF Invoke
  <1>3. ASSUME NEW t \in Tasks, InvokeEmpty(t)
        PROVE  ControlInv'
    BY <1>3 DEF InvokeEmpty
  <1>4. ASSUME NEW t \in Tasks, ConnectBegins(t)
        PROVE  ControlInv'
    BY <1>4 DEF ConnectBegins, Handed, IsOpen, EnterAwait
  <1>5. ASSUME NEW t \in Tasks, NEW c \in Conns, DialSucceeds(t, c)
        PROVE  ControlInv'
    BY <1>5 DEF DialSucceeds, Handed, CountAttempt
  <1>6. ASSUME NEW t \in Tasks, DialRefused(t)
        PROVE  ControlInv'
    BY <1>6 DEF DialRefused, Retry, CountAttempt, StopAfterAttempt
  <1>7. ASSUME NEW t \in Tasks, DialFails(t)
        PROVE  ControlInv'
    BY <1>7 DEF DialFails, CountAttempt
  <1>8. ASSUME NEW t \in Tasks, ChannelOpens(t)
        PROVE  ControlInv'
    BY <1>8 DEF ChannelOpens
  <1>9. ASSUME NEW t \in Tasks, ChannelFails(t)
        PROVE  ControlInv'
    BY <1>9 DEF ChannelFails
  <1>10. ASSUME NEW t \in Tasks, GetExchange(t)
         PROVE  ControlInv'
    BY <1>10 DEF GetExchange, Leave
  <1>11. ASSUME NEW t \in Tasks, Publish(t)
         PROVE  ControlInv'
    BY <1>11 DEF Publish, Leave
  <1>12. ASSUME NEW t \in Tasks, BodyFails(t)
         PROVE  ControlInv'
    BY <1>12 DEF BodyFails, Leave
  <1>13. ASSUME NEW t \in Tasks, CloseChannel(t)
         PROVE  ControlInv'
    BY <1>13 DEF CloseChannel, ReleaseChannel
  <1>14. ASSUME NEW t \in Tasks, CloseChannelFails(t)
         PROVE  ControlInv'
    BY <1>14 DEF CloseChannelFails, ReleaseChannel
  <1>15. ASSUME NEW t \in Tasks, CloseBegins(t)
         PROVE  ControlInv'
    BY <1>15 DEF CloseBegins, IsOpen, EnterAwait
  <1>16. ASSUME NEW t \in Tasks, CloseEnds(t)
         PROVE  ControlInv'
    BY <1>16 DEF CloseEnds, Closed
  <1>17. ASSUME NEW t \in Tasks, Cancel(t)
         PROVE  ControlInv'
    BY <1>17 DEF Cancel, Leave, Closed, ReleaseChannel
  <1>18. ASSUME NEW c \in Conns, Break(c)
         PROVE  ControlInv'
    BY <1>18 DEF Break
  <1>19. ASSUME NEW c \in Conns, Reconnect(c)
         PROVE  ControlInv'
    BY <1>19 DEF Reconnect
  <1>20. CASE UNCHANGED vars
    BY <1>20 DEF vars
  <1>21. QED
    BY <1>1, <1>2, <1>3, <1>4, <1>5, <1>6, <1>7, <1>8, <1>9, <1>10,
       <1>11, <1>12, <1>13, <1>14, <1>15, <1>16, <1>17, <1>18, <1>19, <1>20
       DEF Next, Step, Connect, Tool

\* Initially no task is in a call.
LEMMA InitTypeInv == Init => TypeInv
  <1> SUFFICES ASSUME Init
               PROVE  TypeInv
    OBVIOUS
  <1>1. overlap \in BOOLEAN
    BY Zenon DEF Init
  <1>2. ControlInv
    BY DEF Init, ControlInv, TaskInv
  <1>3. routed \in [Tasks -> BOOLEAN]
    BY DEF Init
  <1>4. QED
    BY <1>1, <1>2, <1>3 DEF Init, TypeInv, TypeOK, Labels, CallKinds, Outcomes

\* The state is well typed and every call holds what its point needs.
LEMMA TypeInvariant == Spec => []TypeInv
  <1>1. Init => TypeInv
    BY InitTypeInv
  <1>2. TypeInv /\ [Next]_vars => TypeInv'
    BY StepTypeOK, StepControlInv DEF TypeInv
  <1>3. QED
    BY <1>1, <1>2, PTL DEF Spec

\* Type correctness of the manager and its tool.
THEOREM TypeCorrect == Spec => []TypeOK
  <1>1. TypeInv => TypeOK
    BY DEF TypeInv
  <1>2. QED
    BY <1>1, TypeInvariant, PTL

(***************************************************************************)
(* Channels.  NoChannelLeak is inductive given TypeInv.                      *)
(***************************************************************************)
\* A channel never outlives the try statement it was opened for.
LEMMA StepNoChannelLeak == TypeInv /\ NoChannelLeak /\ [Next]_vars => NoChannelLeak'
  <1> SUFFICES ASSUME TypeInv, NoChannelLeak, [Next]_vars
               PROVE  NoChannelLeak'
    OBVIOUS
  <1> USE NoneAssumption DEF TypeInv, TypeOK, ControlInv, TaskInv, NoChannelLeak, Goto, Finish
  <1>1. ASSUME NEW t \in Tasks, NEW k \in CallKinds \ {"publish"}, Invoke(t, k, message[t])
        PROVE  NoChannelLeak'
    BY <1>1 DEF Invoke
  <1>2. ASSUME NEW t \in Tasks, NEW m \in Messages, Invoke(t, "publish", m)
        PROVE  NoChannelLeak'
    BY <1>2 DEF Invoke
  <1>3. ASSUME NEW t \in Tasks, InvokeEmpty(t)
        PROVE  NoChannelLeak'
    BY <1>3 DEF InvokeEmpty
  <1>4. ASSUME NEW t \in Tasks, ConnectBegins(t)
        PROVE  NoChannelLeak'
    BY <1>4 DEF ConnectBegins, Handed, IsOpen, EnterAwait
  <1>5. ASSUME NEW t \in Tasks, NEW c \in Conns, DialSucceeds(t, c)
        PROVE  NoChannelLeak'
    BY <1>5 DEF DialSucceeds, Handed, CountAttempt
  <1>6. ASSUME NEW t \in Tasks, DialRefused(t)
        PROVE  NoChannelLeak'
    BY <1>6 DEF DialRefused, Retry, CountAttempt, StopAfterAttempt
  <1>7. ASSUME NEW t \in Tasks, DialFails(t)
        PROVE  NoChannelLeak'
    BY <1>7 DEF DialFails, CountAttempt
  <1>8. ASSUME NEW t \in Tasks, ChannelOpens(t)
        PROVE  NoChannelLeak'
    BY <1>8 DEF ChannelOpens
  <1>9. ASSUME NEW t \in Tasks, ChannelFails(t)
        PROVE  NoChannelLeak'
    BY <1>9 DEF ChannelFails
  <1>10. ASSUME NEW t \in Tasks, GetExchange(t)
         PROVE  NoChannelLeak'
    BY <1>10 DEF GetExchange, Leave
  <1>11. ASSUME NEW t \in Tasks, Publish(t)
         PROVE  NoChannelLeak'
    BY <1>11 DEF Publish, Leave
  <1>12. ASSUME NEW t \in Tasks, BodyFails(t)
         PROVE  NoChannelLeak'
    BY <1>12 DEF BodyFails, Leave
  <1>13. ASSUME NEW t \in Tasks, CloseChannel(t)
         PROVE  NoChannelLeak'
    BY <1>13 DEF CloseChannel, ReleaseChannel
  <1>14. ASSUME NEW t \in Tasks, CloseChannelFails(t)
         PROVE  NoChannelLeak'
    BY <1>14 DEF CloseChannelFails, ReleaseChannel
  <1>15. ASSUME NEW t \in Tasks, CloseBegins(t)
         PROVE  NoChannelLeak'
    BY <1>15 DEF CloseBegins, IsOpen, EnterAwait
  <1>16. ASSUME NEW t \in Tasks, CloseEnds(t)
         PROVE  NoChannelLeak'
    BY <1>16 DEF CloseEnds, Closed
  <1>17. ASSUME NEW t \in Tasks, Cancel(t)
         PROVE  NoChannelLeak'
    BY <1>17 DEF Cancel, Leave, Closed, ReleaseChannel
  <1>18. ASSUME NEW c \in Conns, Break(c)
         PROVE  NoChannelLeak'
    BY <1>18 DEF Break
  <1>19. ASSUME NEW c \in Conns, Reconnect(c)
         PROVE  NoChannelLeak'
    BY <1>19 DEF Reconnect
  <1>20. CASE UNCHANGED vars
    BY <1>20 DEF vars
  <1>21. QED
    BY <1>1, <1>2, <1>3, <1>4, <1>5, <1>6, <1>7, <1>8, <1>9, <1>10,
       <1>11, <1>12, <1>13, <1>14, <1>15, <1>16, <1>17, <1>18, <1>19, <1>20
       DEF Next, Step, Connect, Tool

\* The tool closes every channel it gets, however it ends.
THEOREM ChannelsClosed == Spec => []NoChannelLeak
  <1>1. Init => NoChannelLeak
    BY DEF Init, NoChannelLeak
  <1>2. QED
    BY <1>1, StepNoChannelLeak, TypeInvariant, PTL DEF Spec

(***************************************************************************)
(* Handing out.  A task comes to await a channel by ConnectBegins, which has *)
(* just asked is_open(), or by DialSucceeds, with a connection just opened.  *)
(***************************************************************************)
\* What a step hands to channel() is not being closed when the step ends.
HandsOutAlive ==
  \A t \in Tasks : pc[t] # "channel" /\ pc'[t] = "channel" => Alive(conn[t])'

\* Every step hands out a living connection, or none.
LEMMA StepHandsOut == TypeInv /\ [Next]_vars => HandsOutAlive
  <1> SUFFICES ASSUME TypeInv, [Next]_vars
               PROVE  HandsOutAlive
    OBVIOUS
  <1> USE DEF TypeInv, TypeOK, HandsOutAlive, Alive, Goto, Finish
  <1>1. ASSUME NEW t \in Tasks, NEW k \in CallKinds \ {"publish"}, Invoke(t, k, message[t])
        PROVE  HandsOutAlive
    BY <1>1 DEF Invoke
  <1>2. ASSUME NEW t \in Tasks, NEW m \in Messages, Invoke(t, "publish", m)
        PROVE  HandsOutAlive
    BY <1>2 DEF Invoke
  <1>3. ASSUME NEW t \in Tasks, InvokeEmpty(t)
        PROVE  HandsOutAlive
    BY <1>3 DEF InvokeEmpty
  <1>4. ASSUME NEW t \in Tasks, ConnectBegins(t)
        PROVE  HandsOutAlive
    BY <1>4 DEF ConnectBegins, Handed, IsOpen, EnterAwait
  <1>5. ASSUME NEW t \in Tasks, NEW c \in Conns, DialSucceeds(t, c)
        PROVE  HandsOutAlive
    BY <1>5 DEF DialSucceeds, Handed, CountAttempt
  <1>6. ASSUME NEW t \in Tasks, DialRefused(t)
        PROVE  HandsOutAlive
    BY <1>6 DEF DialRefused, Retry, CountAttempt, StopAfterAttempt
  <1>7. ASSUME NEW t \in Tasks, DialFails(t)
        PROVE  HandsOutAlive
    BY <1>7 DEF DialFails, CountAttempt
  <1>8. ASSUME NEW t \in Tasks, ChannelOpens(t)
        PROVE  HandsOutAlive
    BY <1>8 DEF ChannelOpens
  <1>9. ASSUME NEW t \in Tasks, ChannelFails(t)
        PROVE  HandsOutAlive
    BY <1>9 DEF ChannelFails
  <1>10. ASSUME NEW t \in Tasks, GetExchange(t)
         PROVE  HandsOutAlive
    BY <1>10 DEF GetExchange, Leave
  <1>11. ASSUME NEW t \in Tasks, Publish(t)
         PROVE  HandsOutAlive
    BY <1>11 DEF Publish, Leave
  <1>12. ASSUME NEW t \in Tasks, BodyFails(t)
         PROVE  HandsOutAlive
    BY <1>12 DEF BodyFails, Leave
  <1>13. ASSUME NEW t \in Tasks, CloseChannel(t)
         PROVE  HandsOutAlive
    BY <1>13 DEF CloseChannel, ReleaseChannel
  <1>14. ASSUME NEW t \in Tasks, CloseChannelFails(t)
         PROVE  HandsOutAlive
    BY <1>14 DEF CloseChannelFails, ReleaseChannel
  <1>15. ASSUME NEW t \in Tasks, CloseBegins(t)
         PROVE  HandsOutAlive
    BY <1>15 DEF CloseBegins, IsOpen, EnterAwait
  <1>16. ASSUME NEW t \in Tasks, CloseEnds(t)
         PROVE  HandsOutAlive
    BY <1>16 DEF CloseEnds, Closed
  <1>17. ASSUME NEW t \in Tasks, Cancel(t)
         PROVE  HandsOutAlive
    BY <1>17 DEF Cancel, Leave, Closed, ReleaseChannel
  <1>18. ASSUME NEW c \in Conns, Break(c)
         PROVE  HandsOutAlive
    BY <1>18 DEF Break
  <1>19. ASSUME NEW c \in Conns, Reconnect(c)
         PROVE  HandsOutAlive
    BY <1>19 DEF Reconnect
  <1>20. CASE UNCHANGED vars
    BY <1>20 DEF vars
  <1>21. QED
    BY <1>1, <1>2, <1>3, <1>4, <1>5, <1>6, <1>7, <1>8, <1>9, <1>10,
       <1>11, <1>12, <1>13, <1>14, <1>15, <1>16, <1>17, <1>18, <1>19, <1>20
       DEF Next, Step, Connect, Tool

\* No task is given a connection that another task has begun to close.
THEOREM HandsOutLiving == Spec => NeverHandsOutClosing
  <1>1. TypeInv /\ [Next]_vars =>
          [\A t \in Tasks : pc[t] # "channel" /\ pc'[t] = "channel" => Alive(conn[t])']_vars
    BY StepHandsOut DEF HandsOutAlive
  <1>2. QED
    BY <1>1, TypeInvariant, PTL DEF Spec, NeverHandsOutClosing

(***************************************************************************)
(* Tasks that neither dial nor close at the same time.  While one does,     *)
(* nothing lives, and no other task can come to live with it.               *)
(***************************************************************************)
\* What stays true during the awaits of connect() and close().
AwaitInv ==
  ~overlap =>
    /\ \A t \in Tasks : Busy(t) => ~IsOpen
    /\ \A t, u \in Tasks : Busy(t) /\ Busy(u) => t = u

OverlapInv == TypeInv /\ SharedConnection /\ AwaitInv

\* A task that is alone in its await finds the field as it left it.
LEMMA StepShared == OverlapInv /\ [Next]_vars => SharedConnection' /\ AwaitInv'
  <1> SUFFICES ASSUME OverlapInv, [Next]_vars
               PROVE  SharedConnection' /\ AwaitInv'
    OBVIOUS
  <1> USE NoneAssumption DEF OverlapInv, TypeInv, TypeOK, ControlInv, TaskInv, SharedConnection,
      AwaitInv, Busy, Alive, IsOpen, Goto, Finish
  <1>1. ASSUME NEW t \in Tasks, NEW k \in CallKinds \ {"publish"}, Invoke(t, k, message[t])
        PROVE  SharedConnection' /\ AwaitInv'
    BY <1>1 DEF Invoke
  <1>2. ASSUME NEW t \in Tasks, NEW m \in Messages, Invoke(t, "publish", m)
        PROVE  SharedConnection' /\ AwaitInv'
    BY <1>2 DEF Invoke
  <1>3. ASSUME NEW t \in Tasks, InvokeEmpty(t)
        PROVE  SharedConnection' /\ AwaitInv'
    BY <1>3 DEF InvokeEmpty
  <1>4. ASSUME NEW t \in Tasks, ConnectBegins(t)
        PROVE  SharedConnection' /\ AwaitInv'
    <2>1. UNCHANGED <<connection, status>>
      BY <1>4 DEF ConnectBegins
    <2>2. CASE IsOpen
      BY <1>4, <2>1, <2>2 DEF ConnectBegins, Handed
    <2>3. CASE ~IsOpen /\ overlap' = overlap
      <3>1. pc' = [pc EXCEPT ![t] = "idle"] \/ (\A u \in Tasks \ {t} : ~Busy(u)) \/ overlap
        BY <1>4, <2>3 DEF ConnectBegins, EnterAwait
      <3>2. pc' \in {[pc EXCEPT ![t] = "idle"], [pc EXCEPT ![t] = "dial"]}
        BY <1>4, <2>3 DEF ConnectBegins, EnterAwait
      <3>3. QED
        BY <2>1, <2>3, <3>1, <3>2
    <2>4. CASE ~IsOpen /\ overlap' # overlap
      <3>1. overlap'
        BY <1>4, <2>4, Zenon DEF ConnectBegins, EnterAwait
      <3>2. SharedConnection' /\ AwaitInv'
        BY <3>1 DEF SharedConnection, AwaitInv
      <3>3. QED
        BY <3>2
    <2>5. QED
      BY <2>2, <2>3, <2>4
  <1>5. ASSUME NEW t \in Tasks, NEW c \in Conns, DialSucceeds(t, c)
        PROVE  SharedConnection' /\ AwaitInv'
    BY <1>5 DEF DialSucceeds, Handed, CountAttempt
  <1>6. ASSUME NEW t \in Tasks, DialRefused(t)
        PROVE  SharedConnection' /\ AwaitInv'
    BY <1>6 DEF DialRefused, Retry, CountAttempt, StopAfterAttempt
  <1>7. ASSUME NEW t \in Tasks, DialFails(t)
        PROVE  SharedConnection' /\ AwaitInv'
    BY <1>7 DEF DialFails, CountAttempt
  <1>8. ASSUME NEW t \in Tasks, ChannelOpens(t)
        PROVE  SharedConnection' /\ AwaitInv'
    BY <1>8 DEF ChannelOpens
  <1>9. ASSUME NEW t \in Tasks, ChannelFails(t)
        PROVE  SharedConnection' /\ AwaitInv'
    BY <1>9 DEF ChannelFails
  <1>10. ASSUME NEW t \in Tasks, GetExchange(t)
         PROVE  SharedConnection' /\ AwaitInv'
    BY <1>10 DEF GetExchange, Leave
  <1>11. ASSUME NEW t \in Tasks, Publish(t)
         PROVE  SharedConnection' /\ AwaitInv'
    BY <1>11 DEF Publish, Leave
  <1>12. ASSUME NEW t \in Tasks, BodyFails(t)
         PROVE  SharedConnection' /\ AwaitInv'
    BY <1>12 DEF BodyFails, Leave
  <1>13. ASSUME NEW t \in Tasks, CloseChannel(t)
         PROVE  SharedConnection' /\ AwaitInv'
    BY <1>13 DEF CloseChannel, ReleaseChannel
  <1>14. ASSUME NEW t \in Tasks, CloseChannelFails(t)
         PROVE  SharedConnection' /\ AwaitInv'
    BY <1>14 DEF CloseChannelFails, ReleaseChannel
  <1>15. ASSUME NEW t \in Tasks, CloseBegins(t)
         PROVE  SharedConnection' /\ AwaitInv'
    BY <1>15 DEF CloseBegins, EnterAwait
  <1>16. ASSUME NEW t \in Tasks, CloseEnds(t)
         PROVE  SharedConnection' /\ AwaitInv'
    BY <1>16 DEF CloseEnds, Closed
  <1>17. ASSUME NEW t \in Tasks, Cancel(t)
         PROVE  SharedConnection' /\ AwaitInv'
    BY <1>17 DEF Cancel, Leave, Closed, ReleaseChannel
  <1>18. ASSUME NEW c \in Conns, Break(c)
         PROVE  SharedConnection' /\ AwaitInv'
    BY <1>18 DEF Break
  <1>19. ASSUME NEW c \in Conns, Reconnect(c)
         PROVE  SharedConnection' /\ AwaitInv'
    BY <1>19 DEF Reconnect
  <1>20. CASE UNCHANGED vars
    BY <1>20 DEF vars
  <1>21. QED
    BY <1>1, <1>2, <1>3, <1>4, <1>5, <1>6, <1>7, <1>8, <1>9, <1>10,
       <1>11, <1>12, <1>13, <1>14, <1>15, <1>16, <1>17, <1>18, <1>19, <1>20
       DEF Next, Step, Connect, Tool

\* The strengthened invariant holds of every behaviour.
LEMMA OverlapInvariant == Spec => []OverlapInv
  <1>1. Init => OverlapInv
    BY InitTypeInv DEF Init, OverlapInv, SharedConnection, AwaitInv, Busy, Alive
  <1>2. OverlapInv /\ [Next]_vars => OverlapInv'
    BY StepShared, StepTypeOK, StepControlInv DEF OverlapInv, TypeInv
  <1>3. QED
    BY <1>1, <1>2, PTL DEF Spec

\* Until two tasks dial or close at a time, no living connection is forgotten.
THEOREM OneConnection == Spec => []SharedConnection
  <1>1. OverlapInv => SharedConnection
    BY DEF OverlapInv
  <1>2. QED
    BY <1>1, OverlapInvariant, PTL

(***************************************************************************)
(* Refinement.  As long as that holds, every step is a step of              *)
(* ConnectionLifecycle, or leaves held, live and lent alone.                *)
(***************************************************************************)
\* The abstract step of each step of the code.
LEMMA StepImplements ==
  OverlapInv /\ [Next]_vars => [Lifecycle!Next \/ overlap']_(Lifecycle!vars)
  <1> DEFINE Loans == [t \in Tasks |-> Lent(t)]
             Goal == [Lifecycle!Next]_(Lifecycle!vars)
  <1> SUFFICES ASSUME OverlapInv, [Next]_vars, ~overlap'
               PROVE  Goal
    OBVIOUS
  <1> USE NoneAssumption DEF OverlapInv, TypeInv, TypeOK, ControlInv, TaskInv, SharedConnection,
      AwaitInv, Busy, Alive, IsOpen, Goto, Finish, Living, Lent, Lifecycle!vars
  <1>1. ASSUME NEW t \in Tasks, NEW k \in CallKinds \ {"publish"}, Invoke(t, k, message[t])
        PROVE  Goal
    BY <1>1 DEF Invoke
  <1>2. ASSUME NEW t \in Tasks, NEW m \in Messages, Invoke(t, "publish", m)
        PROVE  Goal
    BY <1>2 DEF Invoke
  <1>3. ASSUME NEW t \in Tasks, InvokeEmpty(t)
        PROVE  Goal
    BY <1>3 DEF InvokeEmpty
  <1>4. ASSUME NEW t \in Tasks, ConnectBegins(t)
        PROVE  Goal
    <2>1. UNCHANGED <<connection, Living>>
      BY <1>4 DEF ConnectBegins
    <2>2. CASE IsOpen /\ kind[t] # "enter"
      <3>1. connection \in Living
        BY <2>2
      <3>2. Loans' = [Loans EXCEPT ![t] = connection]
        BY <1>4, <2>2 DEF ConnectBegins, Handed
      <3>3. Lifecycle!Lend(t)
        BY <2>1, <3>1, <3>2 DEF Lifecycle!Lend
      <3>4. QED
        BY <3>3 DEF Lifecycle!Next
    <2>3. CASE ~(IsOpen /\ kind[t] # "enter")
      <3>1. pc[t] = "start" /\ pc' \in {[pc EXCEPT ![t] = "idle"], [pc EXCEPT ![t] = "dial"]}
        BY <1>4, <2>3 DEF ConnectBegins, Handed, EnterAwait
      <3>2. \A u \in Tasks \ {t} : conn'[u] = conn[u]
        BY <1>4 DEF ConnectBegins, Handed, EnterAwait
      <3>3. Loans' = Loans
        BY <3>1, <3>2
      <3>4. QED
        BY <2>1, <3>3 DEF Lifecycle!vars
    <2>4. QED
      BY <2>2, <2>3
  <1>5. ASSUME NEW t \in Tasks, NEW c \in Conns, DialSucceeds(t, c)
        PROVE  Goal
    <2>1. Living = {}
      BY <1>5 DEF DialSucceeds
    <2>2. Living' = {c} /\ connection' = c
      BY <1>5, <2>1 DEF DialSucceeds
    <2>3. CASE kind[t] = "enter"
      <3>1. Loans' = Loans
        BY <1>5, <2>3 DEF DialSucceeds, Handed
      <3>2. Lifecycle!Open(c, t)
        BY <2>1, <2>2, <3>1 DEF Lifecycle!Open
      <3>3. QED
        BY <3>2 DEF Lifecycle!Next
    <2>4. CASE kind[t] # "enter"
      <3>1. Loans' = [Loans EXCEPT ![t] = c]
        BY <1>5, <2>4 DEF DialSucceeds, Handed
      <3>2. Lifecycle!Open(c, t)
        BY <2>1, <2>2, <3>1 DEF Lifecycle!Open
      <3>3. QED
        BY <3>2 DEF Lifecycle!Next
    <2>5. QED
      BY <2>3, <2>4
  <1>6. ASSUME NEW t \in Tasks, DialRefused(t)
        PROVE  Goal
    BY <1>6 DEF DialRefused, Retry, CountAttempt, StopAfterAttempt
  <1>7. ASSUME NEW t \in Tasks, DialFails(t)
        PROVE  Goal
    BY <1>7 DEF DialFails, CountAttempt
  <1>8. ASSUME NEW t \in Tasks, ChannelOpens(t)
        PROVE  Goal
    BY <1>8 DEF ChannelOpens
  <1>9. ASSUME NEW t \in Tasks, ChannelFails(t)
        PROVE  Goal
    <2>1. UNCHANGED <<connection, Living>>
      BY <1>9 DEF ChannelFails
    <2>2. Loans[t] = conn[t] /\ conn[t] # None
      BY <1>9 DEF ChannelFails
    <2>3. Loans' = [Loans EXCEPT ![t] = None]
      BY <1>9 DEF ChannelFails
    <2>4. Lifecycle!GiveBack(t)
      BY <2>1, <2>2, <2>3 DEF Lifecycle!GiveBack
    <2>5. QED
      BY <2>4 DEF Lifecycle!Next
  <1>10. ASSUME NEW t \in Tasks, GetExchange(t)
         PROVE  Goal
    BY <1>10 DEF GetExchange, Leave
  <1>11. ASSUME NEW t \in Tasks, Publish(t)
         PROVE  Goal
    BY <1>11 DEF Publish, Leave
  <1>12. ASSUME NEW t \in Tasks, BodyFails(t)
         PROVE  Goal
    BY <1>12 DEF BodyFails, Leave
  <1>13. ASSUME NEW t \in Tasks, CloseChannel(t)
         PROVE  Goal
    <2>1. UNCHANGED <<connection, Living>>
      BY <1>13 DEF CloseChannel, ReleaseChannel
    <2>2. Loans[t] = conn[t] /\ conn[t] # None
      BY <1>13 DEF CloseChannel, ReleaseChannel
    <2>3. Loans' = [Loans EXCEPT ![t] = None]
      BY <1>13 DEF CloseChannel, ReleaseChannel
    <2>4. Lifecycle!GiveBack(t)
      BY <2>1, <2>2, <2>3 DEF Lifecycle!GiveBack
    <2>5. QED
      BY <2>4 DEF Lifecycle!Next
  <1>14. ASSUME NEW t \in Tasks, CloseChannelFails(t)
         PROVE  Goal
    <2>1. UNCHANGED <<connection, Living>>
      BY <1>14 DEF CloseChannelFails, ReleaseChannel
    <2>2. Loans[t] = conn[t] /\ conn[t] # None
      BY <1>14 DEF CloseChannelFails, ReleaseChannel
    <2>3. Loans' = [Loans EXCEPT ![t] = None]
      BY <1>14 DEF CloseChannelFails, ReleaseChannel
    <2>4. Lifecycle!GiveBack(t)
      BY <2>1, <2>2, <2>3 DEF Lifecycle!GiveBack
    <2>5. QED
      BY <2>4 DEF Lifecycle!Next
  <1>15. ASSUME NEW t \in Tasks, CloseBegins(t)
         PROVE  Goal
    <2>1. Loans' = Loans
      BY <1>15 DEF CloseBegins, EnterAwait
    <2>2. CASE IsOpen
      <3>1. Living' = {} /\ connection' = connection
        <4>1. connection' = connection
          BY <1>15, <2>2 DEF CloseBegins
        <4>2. \A c \in Conns : Alive(c) => c = connection
          BY <1>15, <2>2 DEF CloseBegins, EnterAwait
        <4>3. status' = [status EXCEPT ![connection] = "closing"]
          BY <1>15, <2>2 DEF CloseBegins
        <4>4. QED
          BY <4>1, <4>2, <4>3
      <3>2. Lifecycle!Lose
        BY <2>1, <3>1 DEF Lifecycle!Lose
      <3>3. QED
        BY <3>2 DEF Lifecycle!Next
    <2>3. CASE ~IsOpen
      <3>1. Living = {} /\ Living' = Living /\ connection' = None
        BY <1>15, <2>3 DEF CloseBegins
      <3>2. Lifecycle!Forget
        BY <2>1, <3>1 DEF Lifecycle!Forget
      <3>3. QED
        BY <3>2 DEF Lifecycle!Next
    <2>4. QED
      BY <2>2, <2>3
  <1>16. ASSUME NEW t \in Tasks, CloseEnds(t)
         PROVE  Goal
    <2>1. Living = {}
      BY <1>16 DEF CloseEnds
    <2>2. Living' = Living /\ connection' = None
      BY <1>16, <2>1 DEF CloseEnds, Closed
    <2>3. Loans' = Loans
      BY <1>16 DEF CloseEnds
    <2>4. Lifecycle!Forget
      BY <2>1, <2>2, <2>3 DEF Lifecycle!Forget
    <2>5. QED
      BY <2>4 DEF Lifecycle!Next
  <1>17. ASSUME NEW t \in Tasks, Cancel(t)
         PROVE  Goal
    <2>1. UNCHANGED <<connection, Living>>
      <3>1. connection' = connection
        BY <1>17 DEF Cancel
      <3>2. CASE pc[t] = "closing"
        <4>1. ~overlap /\ Busy(t)
          BY <1>17, <3>2 DEF Cancel
        <4>2. ~IsOpen
          BY <4>1
        <4>3. Living = {}
          BY <4>1, <4>2
        <4>4. \A c \in Conns : status'[c] \in {status[c], "closed"}
          BY <1>17 DEF Cancel, Closed
        <4>5. QED
          BY <3>1, <4>3, <4>4
      <3>3. CASE pc[t] # "closing"
        BY <1>17, <3>1, <3>3 DEF Cancel
      <3>4. QED
        BY <3>2, <3>3
    <2>2. CASE pc[t] \in {"channel", "finally"}
      <3>1. Loans[t] = conn[t] /\ conn[t] # None
        BY <2>2
      <3>2. Loans' = [Loans EXCEPT ![t] = None]
        BY <1>17, <2>2 DEF Cancel
      <3>3. Lifecycle!GiveBack(t)
        BY <2>1, <3>1, <3>2 DEF Lifecycle!GiveBack
      <3>4. QED
        BY <3>3 DEF Lifecycle!Next
    <2>3. CASE pc[t] \notin {"channel", "finally"}
      <3>1. Loans' = Loans
        BY <1>17, <2>3 DEF Cancel, Leave
      <3>2. QED
        BY <2>1, <3>1 DEF Lifecycle!vars
    <2>4. QED
      BY <2>2, <2>3
  <1>18. ASSUME NEW c \in Conns, Break(c)
         PROVE  Goal
    BY <1>18 DEF Break
  <1>19. ASSUME NEW c \in Conns, Reconnect(c)
         PROVE  Goal
    BY <1>19 DEF Reconnect
  <1>20. CASE UNCHANGED vars
    BY <1>20 DEF vars
  <1>21. QED
    BY <1>1, <1>2, <1>3, <1>4, <1>5, <1>6, <1>7, <1>8, <1>9, <1>10,
       <1>11, <1>12, <1>13, <1>14, <1>15, <1>16, <1>17, <1>18, <1>19, <1>20
       DEF Next, Step, Connect, Tool

\* The manager implements ConnectionLifecycle until two tasks dial or close at a time.
THEOREM Implements == Spec => ImplementsLifecycle
  <1>1. Init => Lifecycle!Init
    <2>1. SUFFICES ASSUME Init PROVE Lifecycle!Init
      OBVIOUS
    <2>2. Living = {}
      BY <2>1 DEF Init, Living, Alive
    <2>3. [t \in Tasks |-> Lent(t)] = [t \in Tasks |-> None]
      BY <2>1 DEF Init, Lent
    <2>4. QED
      BY <2>1, <2>2, <2>3 DEF Init, Lifecycle!Init
  <1>2. QED
    BY <1>1, StepImplements, OverlapInvariant, PTL DEF Spec, ImplementsLifecycle
=============================================================================
