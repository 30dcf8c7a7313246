---------------------- MODULE ReconnectingSocket_proofs ----------------------
(***************************************************************************)
(* Proofs about ReconnectingSocket, for every value of its constants.      *)
(***************************************************************************)
EXTENDS ReconnectingSocket, TLAPS

Live == {"CONNECTING", "OPEN"}

(* What the handlers that are running have still to do. *)
ToDo(step) == \E i \in 1 .. Len(stack) : stack[i] = step
Failing    == stack = <<"handleError">>

-----------------------------------------------------------------------------
(***************************************************************************)
(* Type correctness.                                                       *)
(***************************************************************************)

(* UpTo stays under its cap. *)
LEMMA UpToType ==
  ASSUME NEW cap \in Nat, NEW n \in -1 .. cap
  PROVE  UpTo(cap, n) \in 0 .. cap
BY DEF UpTo

(* _connect() keeps the types of what it sets, from any retry count. *)
LEMMA ConnectType ==
  ASSUME TypeOK, NEW retry \in -1 .. RetryCap, NEW tried \in 0 .. RetryCap + 2,
         NEW attached \in BOOLEAN, Connect(retry, tried, attached)
  PROVE  /\ retryCount' \in -1 .. RetryCap /\ tries' \in 0 .. RetryCap + 2
         /\ connectLock' \in BOOLEAN /\ listening' \in BOOLEAN
         /\ attempt' \in {"none", "wait", "provide"}
<1>1. UpTo(RetryCap, retry) \in -1 .. RetryCap
  BY SocketAssumption, UpToType
<1>2. UpTo(RetryCap + 2, tried) \in 0 .. RetryCap + 2
  <2>1. RetryCap + 2 \in Nat /\ tried \in -1 .. RetryCap + 2
    BY SocketAssumption
  <2>2. QED BY <2>1, UpToType
<1>3. QED BY <1>1, <1>2 DEF Connect, RetriesUsed, TypeOK

(* _disconnect() keeps the types of what it sets. *)
LEMMA DisconnectType ==
  ASSUME TypeOK, NEW retry \in -1 .. RetryCap, NEW tried \in 0 .. RetryCap + 2,
         Disconnect(retry, tried)
  PROVE  /\ retryCount' \in -1 .. RetryCap /\ tries' \in 0 .. RetryCap + 2
         /\ connectLock' \in BOOLEAN /\ listening' \in BOOLEAN
         /\ attempt' \in {"none", "wait", "provide"}
         /\ connectTimer' \in BOOLEAN /\ uptimeTimer' \in BOOLEAN
         /\ ws' \in ReadyStates
         /\ seen' \in {"nothing", "open", "close"} /\ closeEvents' \in 0 .. 2
<1>1. Connect(retry, tried, FALSE) BY DEF Disconnect
<1>2. UpTo(2, closeEvents) \in 0 .. 2 BY DEF UpTo, TypeOK
<1>3. QED BY <1>1, <1>2, ConnectType
          DEF Disconnect, CloseSocket, ReportClose, ClearTimeouts, TypeOK, ReadyStates

(* The stack keeps its type when a handler replaces its first step. *)
LEMMA StackType ==
  ASSUME NEW s \in Seq(Steps), s /= <<>>
  PROVE  /\ Tail(s) \in Seq(Steps)
         /\ <<"error", "connect">> \o Tail(s) \in Seq(Steps)
         /\ <<"close", "error", "connect">> \o Tail(s) \in Seq(Steps)
<1>1. Tail(s) \in Seq(Steps) OBVIOUS
<1>2. /\ <<"error", "connect">> \in Seq(Steps)
      /\ <<"close", "error", "connect">> \in Seq(Steps)
  BY DEF Steps, Events
<1>3. QED BY <1>1, <1>2

(* Every variable keeps its type, whatever step is taken. *)
LEMMA TypeStep == TypeOK /\ [Next]_vars => TypeOK'
<1> SUFFICES ASSUME TypeOK, [Next]_vars PROVE TypeOK'
  OBVIOUS
<1>0. UNCHANGED maxRetries
  BY DEF Next, vars
<1> USE <1>0
<1> USE SocketAssumption
<1>1. CASE Dispatched
  BY <1>1, StackType DEF Dispatched, Idle, TypeOK, socketVars, timerVars,
     flagVars, connectVars, outVars, userVars
<1>2. CASE RunHandleError
  <2>1. stack' \in Seq(Steps)
    BY <1>2, StackType DEF RunHandleError, Idle, TypeOK
  <2>2. CASE ws = "none"
    BY <1>2, <2>1, <2>2 DEF RunHandleError, TypeOK, ClearTimeouts, flagVars,
       connectVars, outVars, userVars
  <2>3. CASE ws /= "none"
    <3>1. Disconnect(retryCount, tries) /\ UNCHANGED <<opened, flagVars, outVars, calls>>
      BY <1>2, <2>3 DEF RunHandleError
    <3>2. retryCount \in -1 .. RetryCap /\ tries \in 0 .. RetryCap + 2
      BY DEF TypeOK
    <3>3. QED BY <2>1, <3>1, <3>2, DisconnectType DEF TypeOK, flagVars, outVars
  <2>4. QED BY <2>2, <2>3
<1>3. CASE RunConnect
  <2>1. stack' \in Seq(Steps)
    BY <1>3, StackType DEF RunConnect, Idle, TypeOK
  <2>2. Connect(retryCount, tries, listening)
    BY <1>3 DEF RunConnect
  <2>3. /\ retryCount \in -1 .. RetryCap /\ tries \in 0 .. RetryCap + 2
        /\ listening \in BOOLEAN
    BY DEF TypeOK
  <2>4. UNCHANGED <<socketVars, timerVars, flagVars, outVars, userVars, calls>>
    BY <1>3 DEF RunConnect
  <2>5. QED BY <2>1, <2>2, <2>3, <2>4, ConnectType
            DEF TypeOK, socketVars, timerVars, flagVars, outVars, userVars
<1>4. CASE Close
  <2>1. calls' \in 0 .. MaxCalls /\ ws' \in ReadyStates
    BY <1>4 DEF Close, CloseSocket, TypeOK, ReadyStates
  <2>2. QED BY <1>4, <2>1 DEF Close, CloseSocket, TypeOK, ClearTimeouts, connectVars,
               outVars, userVars
<1>5. CASE Reconnect
  <2>1. -1 \in -1 .. RetryCap /\ 0 \in 0 .. RetryCap + 2 /\ listening \in BOOLEAN
    BY DEF TypeOK
  <2>2a. calls' \in 0 .. MaxCalls
    BY <1>5 DEF Reconnect, Wanted, TypeOK
  <2>2. /\ calls' \in 0 .. MaxCalls /\ UNCHANGED <<opened, outVars>>
        /\ shouldReconnect' \in BOOLEAN /\ closeCalled' \in BOOLEAN
    BY <1>5, <2>2a DEF Reconnect, Wanted
  <2>3. CASE ws \in {"none", "CLOSED"}
    <3>1. Connect(-1, 0, listening) /\ UNCHANGED <<ws, timerVars, userVars, stack>>
      BY <1>5, <2>3 DEF Reconnect, Wanted
    <3>2. QED BY <2>1, <2>2, <3>1, ConnectType
              DEF TypeOK, timerVars, outVars, userVars
  <2>4. CASE ws \notin {"none", "CLOSED"}
    <3>1. Disconnect(-1, 0) /\ stack' = <<"close", "connect">> \o stack
      BY <1>5, <2>4 DEF Reconnect, Wanted
    <3>2. <<"close", "connect">> \in Seq(Steps) /\ stack \in Seq(Steps)
      BY DEF Steps, Events, TypeOK
    <3>3. stack' \in Seq(Steps)
      BY <3>1, <3>2
    <3>4. QED BY <2>1, <2>2, <3>1, <3>3, DisconnectType DEF TypeOK, outVars
  <2>5. QED BY <2>3, <2>4
<1>6. CASE Send
  <2>1. sent + 1 \in 1 .. MaxSends
    BY <1>6 DEF Send, TypeOK
  <2>2. messageQueue' \in Seq(1 .. MaxSends) /\ handed' \in Seq(1 .. MaxSends)
    <3>1. messageQueue \in Seq(1 .. MaxSends) /\ handed \in Seq(1 .. MaxSends)
      BY DEF TypeOK
    <3>2. /\ Append(messageQueue, sent + 1) \in Seq(1 .. MaxSends)
          /\ Append(handed, sent + 1) \in Seq(1 .. MaxSends)
      BY <2>1, <3>1
    <3>3. QED BY <1>6, <3>1, <3>2 DEF Send, SendOpen, SendQueued, SendDropped
  <2>3. sent' \in 0 .. MaxSends
    BY <1>6, <2>1 DEF Send
  <2>4. UNCHANGED <<socketVars, timerVars, flagVars, connectVars, userVars, stack, calls>>
    BY <1>6 DEF Send
  <2>5. QED BY <2>2, <2>3, <2>4 DEF TypeOK, socketVars, timerVars,
               flagVars, connectVars, userVars
<1>7. CASE Waited
  BY <1>7 DEF Waited, TypeOK, socketVars, timerVars, flagVars, outVars, userVars
<1>8. CASE ConnectTimeout
  <2>1. stack' \in Seq(Steps)
    BY <1>8 DEF ConnectTimeout, Steps, Events
  <2>2. QED BY <1>8, <2>1 DEF ConnectTimeout, TypeOK, socketVars, flagVars,
               connectVars, outVars, userVars
<1>9. CASE AcceptOpen
  <2>1. retryCount' \in -1 .. RetryCap /\ tries' \in 0 .. RetryCap + 2
    BY <1>9 DEF AcceptOpen
  <2>2. QED BY <1>9, <2>1 DEF AcceptOpen, TypeOK, socketVars, flagVars, outVars,
               userVars
<1>10. CASE ProviderResolves
  <2>1. ws' \in ReadyStates /\ closeEvents' \in 0 .. 2
    BY <1>10 DEF ProviderResolves, EndAttempt, ClosedMeanwhile, TypeOK, ReadyStates,
       socketVars
  <2>2. UNCHANGED <<uptimeTimer, flagVars, retryCount, tries, outVars, seen, stack, calls>>
    BY <1>10 DEF ProviderResolves, EndAttempt, ClosedMeanwhile
  <2>3. /\ opened' \in BOOLEAN /\ listening' \in BOOLEAN
        /\ connectTimer' \in BOOLEAN /\ connectLock' \in BOOLEAN
        /\ attempt' = "none"
    BY <1>10 DEF ProviderResolves, EndAttempt, ClosedMeanwhile, TypeOK, socketVars
  <2>4. QED BY <2>1, <2>2, <2>3 DEF TypeOK, flagVars, outVars
<1>11. CASE ProviderRejects
  <2>1. stack' \in Seq(Steps)
    BY <1>11 DEF ProviderRejects, Steps, Events
  <2>2. QED BY <1>11, <2>1 DEF ProviderRejects, EndAttempt, TypeOK, socketVars, timerVars,
               flagVars, outVars, userVars
<1>12. CASE WsOpen
  <2>1. handed' \in Seq(1 .. MaxSends) /\ messageQueue' \in Seq(1 .. MaxSends)
    BY <1>12 DEF WsOpen, StartUptime, FlushQueue, TypeOK
  <2>2. stack' \in Seq(Steps)
    BY <1>12 DEF WsOpen, StartUptime, FlushQueue, Steps, Events
  <2>3. QED BY <1>12, <2>1, <2>2 DEF WsOpen, StartUptime, FlushQueue, TypeOK,
               ReadyStates, flagVars, connectVars
<1>13. CASE WsMessage
  BY <1>13 DEF WsMessage, TypeOK, Steps, Events, socketVars, timerVars, flagVars,
     connectVars, outVars, userVars
<1>14. CASE WsPeerCloses
  BY <1>14 DEF WsPeerCloses, TypeOK, ReadyStates, timerVars, flagVars,
     connectVars, outVars, userVars
<1>15. CASE WsFail
  BY <1>15 DEF WsFail, TypeOK, ReadyStates, Steps, Events, timerVars, flagVars,
     connectVars, outVars, userVars
<1>16. CASE WsClose
  <2>1. /\ Connect(retryCount, tries, listening) /\ ReportClose /\ ClearTimeouts
        /\ ws' = "CLOSED" /\ stack' = <<"close">>
        /\ UNCHANGED <<opened, flagVars, outVars, calls>>
    BY <1>16 DEF WsClose
  <2>2. /\ retryCount \in -1 .. RetryCap /\ tries \in 0 .. RetryCap + 2
        /\ listening \in BOOLEAN
    BY DEF TypeOK
  <2>3. UpTo(2, closeEvents) \in 0 .. 2 BY DEF UpTo, TypeOK
  <2>4. stack' \in Seq(Steps) BY <2>1 DEF Steps, Events
  <2>5. QED BY <2>1, <2>2, <2>3, <2>4, ConnectType
            DEF TypeOK, ReadyStates, ClearTimeouts, ReportClose, flagVars, outVars
<1>17. CASE WsGone
  BY <1>17 DEF WsGone, TypeOK, ReadyStates, timerVars, flagVars, connectVars,
     outVars, userVars
<1>18. CASE UNCHANGED vars
  BY <1>18 DEF vars, runVars, TypeOK, socketVars, timerVars, flagVars, connectVars,
     outVars, userVars
<1>19. QED
  BY <1>1, <1>2, <1>3, <1>4, <1>5, <1>6, <1>7, <1>8, <1>9, <1>10, <1>11, <1>12,
     <1>13, <1>14, <1>15, <1>16, <1>17, <1>18
     DEF Next, Handlers, User, Timers, Provider, Network

(* The constructor leaves a well-typed object. *)
LEMMA TypeInit == Init => TypeOK
<1> SUFFICES ASSUME Init PROVE TypeOK
  OBVIOUS
<1>1. /\ retryCount \in -1 .. RetryCap /\ tries \in 0 .. RetryCap + 2
      /\ sent \in 0 .. MaxSends /\ calls \in 0 .. MaxCalls /\ closeEvents \in 0 .. 2
      /\ attempt \in {"none", "wait", "provide"} /\ ws \in ReadyStates
  BY SocketAssumption DEF Init, ReadyStates
<1>2. /\ messageQueue \in Seq(1 .. MaxSends) /\ handed \in Seq(1 .. MaxSends)
      /\ stack \in Seq(Steps)
  BY DEF Init
<1>3. QED BY <1>1, <1>2, SocketAssumption DEF Init, TypeOK

(* Every reachable state of the class is well typed. *)
THEOREM TypeCorrect == Spec => []TypeOK
BY TypeInit, TypeStep, PTL DEF Spec

-----------------------------------------------------------------------------
(***************************************************************************)
(* The inductive invariant.  NeverIdle and OneConnection speak of the      *)
(* moments between handlers; inside a handler, what they promise is owed   *)
(* by the steps that are still on the stack.                               *)
(***************************************************************************)

(* Something will go on: a live socket, an attempt, or a step to come. *)
GoesOn ==
  shouldReconnect =>
    \/ listening /\ ws \in {"CONNECTING", "OPEN", "CLOSING"}
    \/ connectLock
    \/ ToDo("connect") \/ ToDo("handleError")

LockHeld == maxRetries = Infinite => (connectLock <=> attempt /= "none")

(* While _connect() is still to be called there is no socket to protect. *)
StackShape ==
  /\ ToDo("handleError") => Failing
  /\ ToDo("connect") => ~listening /\ ws \notin Live
  /\ ws = "none" => ~listening

TimersInv ==
  /\ connectTimer => \/ ws = "CONNECTING" /\ listening
                     \/ Failing
  /\ uptimeTimer => \/ ws \in {"OPEN", "CLOSING"} /\ listening /\ opened
                    \/ Failing

(* The program's last event tells the state of the socket in _ws. *)
SeenInv ==
  /\ listening /\ opened /\ ws \in {"OPEN", "CLOSING"} => seen = "open"
  /\ seen = "open" => listening /\ opened
  /\ seen = "open" => ws \in {"OPEN", "CLOSING"} \/ Failing
  /\ ws = "CONNECTING" => ~opened

QueueInv == QueueEmptyWhenOpen /\ Len(messageQueue) <= MaxEnqueued

IInv ==
  /\ TypeOK
  /\ GoesOn
  /\ LockHeld
  /\ OneConnection
  /\ StackShape
  /\ TimersInv
  /\ CloseIsNoticed
  /\ SeenInv
  /\ QueueInv

(* What _connect() guarantees: with a wish to connect the lock is held     *)
(* afterwards, and a new attempt starts without listeners.                 *)
LEMMA ConnectEffect ==
  ASSUME TypeOK, LockHeld, OneConnection,
         NEW retry \in -1 .. RetryCap, NEW tried \in 0 .. RetryCap + 2,
         NEW attached \in BOOLEAN, Connect(retry, tried, attached), UNCHANGED maxRetries
  PROVE  /\ shouldReconnect' => connectLock'
         /\ connectLock => connectLock'
         /\ listening' => attached
         /\ attempt' = attempt \/ (shouldReconnect' /\ ~listening')
         /\ attempt' /= "none" => connectLock'
         /\ LockHeld'
<1>1. /\ shouldReconnect' => connectLock'
      /\ connectLock => connectLock'
      /\ listening' => attached
      /\ attempt' = attempt \/ (shouldReconnect' /\ ~listening')
      /\ attempt' /= "none" => connectLock'
  BY DEF Connect, RetriesUsed, TypeOK, OneConnection
<1>2. maxRetries = Infinite => ~(retry >= maxRetries)
  BY SocketAssumption DEF Infinite
<1>3. LockHeld'
  BY <1>2 DEF Connect, RetriesUsed, TypeOK, LockHeld
<1>4. QED BY <1>1, <1>3

(* What is left to do after the first step of the stack. *)
LEMMA TailToDo ==
  ASSUME stack \in Seq(Steps), stack /= <<>>, stack' = Tail(stack), NEW step
  PROVE  /\ ToDo(step)' => ToDo(step)
         /\ ToDo(step) /\ Head(stack) /= step => ToDo(step)'
<1>1. /\ Len(stack) \in Nat /\ Len(stack) >= 1
      /\ Len(Tail(stack)) = Len(stack) - 1
      /\ \A i \in 1 .. Len(stack) - 1 : Tail(stack)[i] = stack[i + 1]
      /\ Head(stack) = stack[1]
  OBVIOUS
<1>2. ASSUME ToDo(step)' PROVE ToDo(step)
  <2>1. PICK i \in 1 .. Len(stack') : stack'[i] = step
    BY <1>2 DEF ToDo
  <2>2. i + 1 \in 1 .. Len(stack) /\ stack[i + 1] = step
    BY <1>1, <2>1
  <2>3. QED BY <2>2 DEF ToDo
<1>3. ASSUME ToDo(step), Head(stack) /= step PROVE ToDo(step)'
  <2>1. PICK i \in 1 .. Len(stack) : stack[i] = step
    BY <1>3 DEF ToDo
  <2>2. i - 1 \in 1 .. Len(stack')
    BY <1>1, <1>3, <2>1
  <2>3. stack'[i - 1] = step
    BY <1>1, <2>1, <2>2
  <2>4. QED BY <2>2, <2>3 DEF ToDo
<1>4. QED BY <1>2, <1>3

(* Between handlers nothing is left to do. *)
LEMMA IdleToDo == Idle => ~Failing /\ \A step : ~ToDo(step)
BY DEF Idle, Failing, ToDo

(* What is left to do after a step that leaves just these on the stack. *)
LEMMA FailingToDo ==
  ASSUME stack' = <<"handleError">>
  PROVE  Failing' /\ ~Idle' /\ ToDo("handleError")' /\ ~ToDo("connect")'
<1>1. Len(stack') = 1 /\ stack'[1] = "handleError"
  OBVIOUS
<1>2. QED BY <1>1 DEF Failing, ToDo, Idle

(* With nothing but an event to dispatch, no call is to follow. *)
LEMMA EventToDo ==
  ASSUME NEW e \in Events, stack' = <<e>>
  PROVE  ~Idle' /\ ~Failing' /\ ~ToDo("connect")' /\ ~ToDo("handleError")'
<1>1. Len(stack') = 1 /\ stack'[1] = e
  OBVIOUS
<1>2. QED BY <1>1 DEF Events, Idle, Failing, ToDo

(* After _handleError()'s _disconnect(), its call of _connect() follows. *)
LEMMA ErrorToDo ==
  ASSUME \/ stack' = <<"error", "connect">>
         \/ stack' = <<"close", "error", "connect">>
  PROVE  ~Idle' /\ ~Failing' /\ ToDo("connect")' /\ ~ToDo("handleError")'
<1>1. CASE stack' = <<"error", "connect">>
  <2>1. Len(stack') = 2 /\ stack'[1] = "error" /\ stack'[2] = "connect"
    BY <1>1
  <2>2. QED BY <1>1, <2>1 DEF Idle, Failing, ToDo
<1>2. CASE stack' = <<"close", "error", "connect">>
  <2>1. /\ Len(stack') = 3 /\ stack'[1] = "close" /\ stack'[2] = "error"
        /\ stack'[3] = "connect"
    BY <1>2
  <2>2. QED BY <1>2, <2>1 DEF Idle, Failing, ToDo
<1>3. QED BY <1>1, <1>2

(* reconnect() puts the rest of its work before what was left to do. *)
LEMMA ReconnectToDo ==
  ASSUME stack \in Seq(Steps), stack' = <<"close", "connect">> \o stack
  PROVE  /\ ~Idle' /\ ~Failing' /\ ToDo("connect")'
         /\ ToDo("handleError")' => ToDo("handleError")
<1>1. /\ Len(stack) \in Nat
      /\ Len(stack') = Len(stack) + 2
      /\ stack'[1] = "close" /\ stack'[2] = "connect"
      /\ \A i \in 3 .. Len(stack') : stack'[i] = stack[i - 2]
  OBVIOUS
<1>2. ~Idle' /\ ~Failing' /\ ToDo("connect")'
  BY <1>1 DEF Idle, Failing, ToDo
<1>3. ASSUME ToDo("handleError")' PROVE ToDo("handleError")
  <2>1. PICK i \in 1 .. Len(stack') : stack'[i] = "handleError"
    BY <1>3 DEF ToDo
  <2>2. i \in 3 .. Len(stack')
    BY <1>1, <2>1
  <2>3. i - 2 \in 1 .. Len(stack) /\ stack[i - 2] = "handleError"
    BY <1>1, <2>1, <2>2
  <2>4. QED BY <2>3 DEF ToDo
<1>4. QED BY <1>2, <1>3

-----------------------------------------------------------------------------
(* The invariant holds initially. *)
LEMMA IInit == Init => IInv
<1> SUFFICES ASSUME Init PROVE IInv
  OBVIOUS
<1>1. TypeOK BY TypeInit
<1>2. \A step : ~ToDo(step)
  BY IdleToDo DEF Init, Idle
<1>3. Len(messageQueue) <= MaxEnqueued
  BY SocketAssumption DEF Init
<1>4. GoesOn /\ LockHeld /\ OneConnection /\ StackShape
  BY <1>2, SocketAssumption DEF Init, GoesOn, LockHeld, OneConnection, StackShape
<1>5. TimersInv /\ CloseIsNoticed /\ SeenInv /\ QueueInv
  BY <1>3, SocketAssumption
     DEF Init, TimersInv, CloseIsNoticed, SeenInv, QueueInv, QueueEmptyWhenOpen
<1>6. QED BY <1>1, <1>4, <1>5 DEF IInv

(* Every step preserves it. *)
LEMMA IStep == IInv /\ [Next]_vars => IInv'
<1> SUFFICES ASSUME IInv, [Next]_vars PROVE IInv'
  OBVIOUS
<1>b. UNCHANGED maxRetries
  BY DEF Next, vars
<1> USE <1>b
<1>0. TypeOK /\ TypeOK'
  BY TypeStep DEF IInv
<1> DEFINE Rest == /\ GoesOn' /\ LockHeld' /\ OneConnection' /\ StackShape'
                   /\ TimersInv' /\ CloseIsNoticed' /\ SeenInv' /\ QueueInv'
<1> SUFFICES Rest
  BY <1>0 DEF IInv
<1>a. stack \in Seq(Steps) /\ connectLock \in BOOLEAN /\ shouldReconnect \in BOOLEAN
  BY <1>0 DEF TypeOK
<1>1. CASE Dispatched
  <2>1. /\ ToDo("connect")' <=> ToDo("connect")
        /\ ToDo("handleError")' <=> ToDo("handleError")
    BY <1>1, <1>a, TailToDo DEF Dispatched, Idle, Events
  <2>2. ~Failing
    BY <1>1 DEF Dispatched, Failing, Events
  <2>3. UNCHANGED <<socketVars, timerVars, flagVars, connectVars, outVars, userVars, calls>>
    BY <1>1 DEF Dispatched
  <2>4. GoesOn' /\ LockHeld' /\ OneConnection'
    BY <2>1, <2>3 DEF IInv, GoesOn, LockHeld, OneConnection, socketVars, flagVars,
       connectVars
  <2>5. StackShape' /\ TimersInv' /\ CloseIsNoticed'
    BY <2>1, <2>2, <2>3 DEF IInv, StackShape, TimersInv, CloseIsNoticed, socketVars,
       timerVars, flagVars, connectVars
  <2>6. SeenInv' /\ QueueInv'
    BY <2>2, <2>3 DEF IInv, SeenInv, QueueInv, QueueEmptyWhenOpen, socketVars,
       connectVars, outVars, userVars
  <2>7. QED BY <2>4, <2>5, <2>6
<1>4. CASE Close
  <2>1. UNCHANGED stack /\ ~Failing
    BY <1>4 DEF Close, CloseSocket, UserTurn, Idle, Failing, Events
  <2>2. /\ ToDo("connect")' <=> ToDo("connect")
        /\ ToDo("handleError")' <=> ToDo("handleError")
    BY <2>1 DEF ToDo
  <2>3. GoesOn' /\ LockHeld' /\ OneConnection'
    BY <1>4, <2>2 DEF IInv, Close, CloseSocket, GoesOn, LockHeld, OneConnection, connectVars
  <2>4. StackShape' /\ TimersInv' /\ CloseIsNoticed'
    BY <1>4, <2>1, <2>2 DEF IInv, Close, CloseSocket, StackShape, TimersInv, CloseIsNoticed,
       ClearTimeouts, connectVars, Live, Failing
  <2>5. SeenInv' /\ QueueInv'
    BY <1>4, <2>1 DEF IInv, Close, CloseSocket, SeenInv, QueueInv, QueueEmptyWhenOpen,
       Failing,
       connectVars, outVars, userVars
  <2>6. QED BY <2>3, <2>4, <2>5
<1>2. CASE RunHandleError
  <2>1. Failing
    BY <1>2 DEF IInv, StackShape, RunHandleError, Idle, ToDo
  <2>2. stack' = <<"error", "connect">> \/ stack' = <<"close", "error", "connect">>
    BY <1>2, <2>1 DEF RunHandleError, Failing
  <2>3. ~Idle' /\ ~Failing' /\ ToDo("connect")' /\ ~ToDo("handleError")'
    BY <2>2, ErrorToDo
  <2>4. /\ UNCHANGED <<opened, flagVars, outVars>>
        /\ ~connectTimer' /\ ~uptimeTimer'
    BY <1>2 DEF RunHandleError, Disconnect, CloseSocket, ClearTimeouts
  <2>5. CASE ws = "none"
    <3>1. UNCHANGED <<ws, connectVars, userVars>>
      BY <1>2, <2>5 DEF RunHandleError
    <3>2. GoesOn' /\ LockHeld' /\ OneConnection' /\ CloseIsNoticed'
      BY <2>3, <2>4, <3>1 DEF IInv, GoesOn, LockHeld, OneConnection, CloseIsNoticed,
         connectVars, flagVars
    <3>3. StackShape' /\ TimersInv' /\ SeenInv' /\ QueueInv'
      BY <2>3, <2>4, <2>5, <3>1 DEF IInv, StackShape, TimersInv, SeenInv, QueueInv,
         QueueEmptyWhenOpen, Live, connectVars, outVars, userVars
    <3>4. QED BY <3>2, <3>3
  <2>6. CASE ws /= "none"
    <3>1. Disconnect(retryCount, tries)
      BY <1>2, <2>6 DEF RunHandleError
    <3>2. seen' = "close" /\ ws' \notin Live /\ Connect(retryCount, tries, FALSE)
      BY <3>1 DEF Disconnect, CloseSocket, ReportClose, Live
    <3>3. retryCount \in -1 .. RetryCap /\ tries \in 0 .. RetryCap + 2
      BY <1>0 DEF TypeOK
    <3>4. /\ LockHeld' /\ ~listening'
          /\ attempt' /= "none" => connectLock'
          /\ attempt' = attempt \/ shouldReconnect'
      BY <1>0, <3>2, <3>3, ConnectEffect DEF IInv
    <3>5. GoesOn' /\ OneConnection' /\ StackShape' /\ TimersInv' /\ CloseIsNoticed'
      BY <2>3, <2>4, <3>2, <3>4 DEF IInv, GoesOn, OneConnection, StackShape, TimersInv,
         CloseIsNoticed, Live, flagVars
    <3>6. SeenInv' /\ QueueInv'
      BY <2>4, <3>2, <3>4 DEF IInv, SeenInv, QueueInv, QueueEmptyWhenOpen, Live, outVars
    <3>7. QED BY <3>4, <3>5, <3>6
  <2>7. QED BY <2>5, <2>6
<1>3. CASE RunConnect
  <2>1. ~Failing /\ ToDo("connect")
    BY <1>3, <1>a DEF RunConnect, Failing, Idle, ToDo
  <2>2. /\ ToDo("connect")' => ToDo("connect")
        /\ ToDo("handleError")' <=> ToDo("handleError")
    BY <1>3, <1>a, TailToDo DEF RunConnect, Idle
  <2>3. ~ToDo("handleError") /\ ~listening /\ ws \notin Live
    BY <2>1 DEF IInv, StackShape
  <2>4. /\ UNCHANGED <<socketVars, timerVars, flagVars, outVars, userVars, calls>>
        /\ Connect(retryCount, tries, listening)
    BY <1>3 DEF RunConnect
  <2>5. /\ retryCount \in -1 .. RetryCap /\ tries \in 0 .. RetryCap + 2
        /\ listening \in BOOLEAN
    BY <1>0 DEF TypeOK
  <2>6. /\ shouldReconnect' => connectLock'
        /\ connectLock => connectLock'
        /\ listening' => listening
        /\ attempt' = attempt \/ (shouldReconnect' /\ ~listening')
        /\ attempt' /= "none" => connectLock'
        /\ LockHeld'
    BY <1>0, <2>4, <2>5, ConnectEffect DEF IInv
  <2>7. GoesOn' /\ OneConnection'
    BY <2>3, <2>4, <2>6 DEF GoesOn, OneConnection, Live, socketVars
  <2>8. StackShape' /\ CloseIsNoticed'
    BY <2>2, <2>3, <2>4, <2>6 DEF IInv, StackShape, CloseIsNoticed, Live, socketVars,
       flagVars
  <2>9. TimersInv' /\ SeenInv'
    BY <2>1, <2>3, <2>4, <2>6 DEF IInv, TimersInv, SeenInv, Live, socketVars, timerVars,
       userVars
  <2>10. QueueInv'
    BY <2>4 DEF IInv, QueueInv, QueueEmptyWhenOpen, socketVars, outVars
  <2>11. QED BY <2>6, <2>7, <2>8, <2>9, <2>10
<1>5. CASE Reconnect
  <2>1. ~Failing /\ ~ToDo("handleError")
    BY <1>5 DEF IInv, StackShape, Reconnect, Wanted, UserTurn, Idle, Failing, Events
  <2>2. shouldReconnect' /\ ~closeCalled' /\ UNCHANGED <<opened, outVars>>
    BY <1>5 DEF Reconnect, Wanted
  <2>3. listening \in BOOLEAN /\ -1 \in -1 .. RetryCap /\ 0 \in 0 .. RetryCap + 2
    BY <1>0, SocketAssumption DEF TypeOK
  <2>4. CASE ws \in {"none", "CLOSED"}
    <3>1. UNCHANGED <<ws, timerVars, userVars, stack>> /\ Connect(-1, 0, listening)
      BY <1>5, <2>4 DEF Reconnect, Wanted
    <3>2. /\ ToDo("connect")' <=> ToDo("connect")
          /\ ToDo("handleError")' <=> ToDo("handleError")
      BY <3>1 DEF ToDo
    <3>3. /\ connectLock' /\ LockHeld' /\ (listening' => listening)
          /\ attempt' /= "none" => connectLock'
          /\ attempt' = attempt \/ ~listening'
      BY <1>0, <2>2, <2>3, <3>1, ConnectEffect DEF IInv
    <3>4. GoesOn' /\ OneConnection'
      BY <2>4, <3>1, <3>3 DEF IInv, GoesOn, OneConnection
    <3>5. StackShape' /\ CloseIsNoticed'
      BY <2>1, <2>2, <3>1, <3>2, <3>3 DEF IInv, StackShape, CloseIsNoticed, Live
    <3>6. TimersInv' /\ SeenInv'
      BY <2>1, <2>2, <2>4, <3>1, <3>3 DEF IInv, TimersInv, SeenInv, timerVars, userVars
    <3>7. QueueInv'
      BY <2>2, <3>1 DEF IInv, QueueInv, QueueEmptyWhenOpen, outVars
    <3>8. QED BY <3>3, <3>4, <3>5, <3>6, <3>7
  <2>5. CASE ws \notin {"none", "CLOSED"}
    <3>1. Disconnect(-1, 0) /\ stack' = <<"close", "connect">> \o stack
      BY <1>5, <2>5 DEF Reconnect, Wanted
    <3>2. ~Idle' /\ ~Failing' /\ ToDo("connect")' /\ ~ToDo("handleError")'
      BY <1>a, <2>1, <3>1, ReconnectToDo
    <3>3. /\ ~connectTimer' /\ ~uptimeTimer' /\ seen' = "close"
          /\ ws' \notin Live
          /\ Connect(-1, 0, FALSE)
      BY <3>1 DEF Disconnect, CloseSocket, ClearTimeouts, ReportClose, Live
    <3>4. /\ connectLock' /\ LockHeld' /\ ~listening'
      BY <1>0, <2>2, <2>3, <3>3, ConnectEffect DEF IInv
    <3>5. GoesOn' /\ OneConnection' /\ StackShape' /\ TimersInv' /\ CloseIsNoticed'
      BY <2>2, <3>2, <3>3, <3>4
         DEF GoesOn, OneConnection, StackShape, TimersInv, CloseIsNoticed, Live
    <3>6. SeenInv' /\ QueueInv'
      BY <2>2, <3>3, <3>4 DEF IInv, SeenInv, QueueInv, QueueEmptyWhenOpen, Live, outVars
    <3>7. QED BY <3>4, <3>5, <3>6
  <2>6. QED BY <2>4, <2>5
<1>6. CASE Send
  <2>1. UNCHANGED <<socketVars, timerVars, flagVars, connectVars, userVars, stack, calls>>
    BY <1>6 DEF Send
  <2>2. /\ ToDo("connect")' <=> ToDo("connect")
        /\ ToDo("handleError")' <=> ToDo("handleError")
        /\ Failing' <=> Failing
    BY <2>1 DEF ToDo, Failing
  <2>3. GoesOn' /\ LockHeld' /\ OneConnection' /\ StackShape' /\ CloseIsNoticed'
    BY <2>1, <2>2 DEF IInv, GoesOn, LockHeld, OneConnection, StackShape, CloseIsNoticed,
       socketVars, flagVars, connectVars
  <2>4. TimersInv' /\ SeenInv'
    BY <2>1, <2>2 DEF IInv, TimersInv, SeenInv, socketVars, timerVars, connectVars,
       userVars
  <2>5. QueueEmptyWhenOpen'
    BY <1>6, <2>1 DEF IInv, QueueInv, QueueEmptyWhenOpen, Send, SendOpen, SendQueued,
       SendDropped, socketVars
  <2>6. Len(messageQueue') <= MaxEnqueued
    <3>1. Len(messageQueue) <= MaxEnqueued /\ MaxEnqueued \in Nat
          /\ messageQueue \in Seq(1 .. MaxSends)
      BY <1>0, SocketAssumption DEF IInv, QueueInv, TypeOK
    <3>2. Len(Append(messageQueue, sent + 1)) = Len(messageQueue) + 1
      BY <3>1
    <3>3. QED BY <1>6, <3>1, <3>2 DEF Send, SendOpen, SendQueued, SendDropped
  <2>7. QED BY <2>3, <2>4, <2>5, <2>6 DEF QueueInv
<1>7. CASE Waited
  <2>1. attempt /= "none" /\ attempt' /= "none"
        /\ UNCHANGED <<socketVars, timerVars, flagVars, retryCount, tries, connectLock,
                       listening, outVars, userVars, stack, calls>>
    BY <1>7 DEF Waited
  <2>2. /\ ToDo("connect")' <=> ToDo("connect")
        /\ ToDo("handleError")' <=> ToDo("handleError")
        /\ Failing' <=> Failing
    BY <2>1 DEF ToDo, Failing
  <2>3. GoesOn' /\ LockHeld' /\ OneConnection' /\ StackShape' /\ CloseIsNoticed'
    BY <2>1, <2>2 DEF IInv, GoesOn, LockHeld, OneConnection, StackShape, CloseIsNoticed,
       socketVars, flagVars
  <2>4. TimersInv' /\ SeenInv' /\ QueueInv'
    BY <2>1, <2>2 DEF IInv, TimersInv, SeenInv, QueueInv, QueueEmptyWhenOpen,
       socketVars, timerVars, outVars, userVars
  <2>5. QED BY <2>3, <2>4
<1>8. CASE ConnectTimeout
  <2>1. UNCHANGED <<socketVars, uptimeTimer, flagVars, connectVars, outVars, userVars,
                    calls>>
    BY <1>8 DEF ConnectTimeout
  <2>2. Failing' /\ ToDo("handleError")' /\ ~ToDo("connect")' /\ ~Failing
    BY <1>8, FailingToDo, IdleToDo DEF ConnectTimeout
  <2>3. GoesOn' /\ LockHeld' /\ OneConnection' /\ StackShape' /\ CloseIsNoticed'
    BY <2>1, <2>2 DEF IInv, GoesOn, LockHeld, OneConnection, StackShape, CloseIsNoticed,
       socketVars, flagVars, connectVars
  <2>4. TimersInv' /\ SeenInv' /\ QueueInv'
    BY <2>1, <2>2 DEF IInv, TimersInv, SeenInv, QueueInv, QueueEmptyWhenOpen,
       socketVars, outVars, userVars, connectVars
  <2>5. QED BY <2>3, <2>4
<1>9. CASE AcceptOpen
  <2>1. /\ UNCHANGED <<socketVars, connectTimer, flagVars, connectLock, attempt, listening,
                       outVars, userVars, stack, calls>>
        /\ ~uptimeTimer'
    BY <1>9 DEF AcceptOpen
  <2>2. /\ ToDo("connect")' <=> ToDo("connect")
        /\ ToDo("handleError")' <=> ToDo("handleError")
        /\ Failing' <=> Failing
    BY <2>1 DEF ToDo, Failing
  <2>3. GoesOn' /\ LockHeld' /\ OneConnection' /\ StackShape' /\ CloseIsNoticed'
    BY <2>1, <2>2 DEF IInv, GoesOn, LockHeld, OneConnection, StackShape, CloseIsNoticed,
       socketVars, flagVars
  <2>4. TimersInv' /\ SeenInv' /\ QueueInv'
    BY <2>1, <2>2 DEF IInv, TimersInv, SeenInv, QueueInv, QueueEmptyWhenOpen,
       socketVars, outVars, userVars
  <2>5. QED BY <2>3, <2>4
<1>10. CASE ProviderResolves
  <2>1. /\ ~Failing /\ ~ToDo("connect") /\ ~ToDo("handleError")
        /\ connectLock /\ ~listening /\ ~connectTimer /\ ~uptimeTimer
        /\ ws \notin Live /\ seen /= "open"
    BY <1>10, IdleToDo DEF IInv, ProviderResolves, EndAttempt, ClosedMeanwhile,
       OneConnection, TimersInv, SeenInv, Live
  <2>2. /\ ~connectLock' /\ attempt' = "none"
        /\ UNCHANGED <<uptimeTimer, flagVars, retryCount, tries, outVars, seen, stack,
                       calls>>
    BY <1>10 DEF ProviderResolves, EndAttempt, ClosedMeanwhile
  <2>3. ~Failing' /\ ~ToDo("connect")' /\ ~ToDo("handleError")'
    BY <2>1, <2>2 DEF ToDo, Failing
  <2>4. CASE closeCalled
    <3>1. ~shouldReconnect' /\ UNCHANGED <<socketVars, listening, connectTimer>>
      BY <1>10, <2>2, <2>4 DEF IInv, CloseIsNoticed, ProviderResolves, EndAttempt,
         ClosedMeanwhile, flagVars
    <3>2. GoesOn' /\ LockHeld' /\ OneConnection' /\ StackShape' /\ CloseIsNoticed'
      BY <2>2, <2>3, <3>1 DEF IInv, GoesOn, LockHeld, OneConnection, StackShape,
         CloseIsNoticed, socketVars, flagVars
    <3>3. TimersInv' /\ SeenInv' /\ QueueInv'
      BY <2>1, <2>2, <2>3, <3>1 DEF IInv, TimersInv, SeenInv, QueueInv,
         QueueEmptyWhenOpen, socketVars, outVars
    <3>4. QED BY <3>2, <3>3
  <2>5. CASE ~closeCalled
    <3>1. ws' = "CONNECTING" /\ ~opened' /\ listening'
      BY <1>10, <2>5 DEF ProviderResolves, EndAttempt, ClosedMeanwhile
    <3>2. GoesOn' /\ LockHeld' /\ OneConnection' /\ StackShape' /\ CloseIsNoticed'
      BY <2>2, <2>3, <3>1 DEF IInv, GoesOn, LockHeld, OneConnection, StackShape,
         CloseIsNoticed, flagVars
    <3>3. TimersInv' /\ SeenInv' /\ QueueInv'
      BY <2>1, <2>2, <2>3, <3>1 DEF IInv, TimersInv, SeenInv, QueueInv,
         QueueEmptyWhenOpen, outVars
    <3>4. QED BY <3>2, <3>3
  <2>6. QED BY <2>4, <2>5
<1>11. CASE ProviderRejects
  <2>1. Failing' /\ ToDo("handleError")' /\ ~ToDo("connect")' /\ ~Failing
    BY <1>11, FailingToDo, IdleToDo DEF ProviderRejects
  <2>2. /\ ~connectLock' /\ attempt' = "none"
        /\ UNCHANGED <<socketVars, timerVars, flagVars, retryCount, tries, listening,
                       outVars, userVars, calls>>
    BY <1>11 DEF ProviderRejects, EndAttempt
  <2>3. GoesOn' /\ LockHeld' /\ OneConnection' /\ StackShape' /\ CloseIsNoticed'
    BY <2>1, <2>2 DEF IInv, GoesOn, LockHeld, OneConnection, StackShape, CloseIsNoticed,
       socketVars, flagVars
  <2>4. TimersInv' /\ SeenInv' /\ QueueInv'
    BY <2>1, <2>2 DEF IInv, TimersInv, SeenInv, QueueInv, QueueEmptyWhenOpen,
       socketVars, outVars, userVars
  <2>5. QED BY <2>3, <2>4
<1>12. CASE WsOpen
  <2>1. ~Idle' /\ ~Failing' /\ ~ToDo("connect")' /\ ~ToDo("handleError")'
    BY <1>12, EventToDo DEF WsOpen, StartUptime, FlushQueue, Events
  <2>2. /\ ws = "CONNECTING" /\ listening
        /\ ws' = "OPEN" /\ opened' /\ ~connectTimer' /\ seen' = "open"
        /\ UNCHANGED <<flagVars, connectVars>>
    BY <1>12 DEF WsOpen, StartUptime, FlushQueue
  <2>3. attempt = "none"
    BY <2>2 DEF IInv, OneConnection
  <2>4. GoesOn' /\ LockHeld' /\ OneConnection' /\ StackShape' /\ CloseIsNoticed'
    BY <2>1, <2>2, <2>3 DEF IInv, GoesOn, LockHeld, OneConnection, StackShape,
       CloseIsNoticed, flagVars, connectVars
  <2>5. TimersInv' /\ SeenInv'
    BY <2>1, <2>2 DEF TimersInv, SeenInv, connectVars
  <2>6. QueueInv'
    BY <1>12, SocketAssumption DEF WsOpen, StartUptime, FlushQueue, QueueInv,
       QueueEmptyWhenOpen
  <2>7. QED BY <2>4, <2>5, <2>6
<1>13. CASE WsMessage
  <2>1. ~Idle' /\ ~Failing' /\ ~ToDo("connect")' /\ ~ToDo("handleError")'
    BY <1>13, EventToDo DEF WsMessage, Events
  <2>2. ~Failing /\ ~ToDo("connect") /\ ~ToDo("handleError")
        /\ UNCHANGED <<socketVars, timerVars, flagVars, connectVars, outVars, userVars,
                       calls>>
    BY <1>13, IdleToDo DEF WsMessage
  <2>3. GoesOn' /\ LockHeld' /\ OneConnection' /\ StackShape' /\ CloseIsNoticed'
    BY <2>1, <2>2 DEF IInv, GoesOn, LockHeld, OneConnection, StackShape, CloseIsNoticed,
       socketVars, flagVars, connectVars
  <2>4. TimersInv' /\ SeenInv' /\ QueueInv'
    BY <2>1, <2>2 DEF IInv, TimersInv, SeenInv, QueueInv, QueueEmptyWhenOpen,
       socketVars, timerVars, connectVars, outVars, userVars
  <2>5. QED BY <2>3, <2>4
<1>14. CASE WsPeerCloses
  <2>1. /\ ws = "OPEN" /\ ws' = "CLOSING"
        /\ UNCHANGED <<opened, timerVars, flagVars, connectVars, outVars, userVars,
                       stack, calls>>
    BY <1>14 DEF WsPeerCloses
  <2>2. /\ ~ToDo("connect") /\ ~ToDo("handleError") /\ ~Failing
        /\ ~ToDo("connect")' /\ ~ToDo("handleError")' /\ ~Failing'
    BY <1>14, <2>1, IdleToDo DEF WsPeerCloses, ToDo, Failing
  <2>3. GoesOn' /\ LockHeld' /\ OneConnection' /\ StackShape' /\ CloseIsNoticed'
    BY <2>1, <2>2 DEF IInv, GoesOn, LockHeld, OneConnection, StackShape, CloseIsNoticed,
       flagVars, connectVars
  <2>4. TimersInv' /\ SeenInv' /\ QueueInv'
    BY <2>1, <2>2 DEF IInv, TimersInv, SeenInv, QueueInv, QueueEmptyWhenOpen,
       timerVars, connectVars, outVars, userVars
  <2>5. QED BY <2>3, <2>4
<1>15. CASE WsFail
  <2>1. /\ ws \in {"CONNECTING", "OPEN", "CLOSING"} /\ listening
        /\ ws' \in {"CLOSING", "CLOSED"}
        /\ UNCHANGED <<opened, timerVars, flagVars, connectVars, outVars, userVars, calls>>
    BY <1>15 DEF WsFail
  <2>2. Failing' /\ ToDo("handleError")' /\ ~ToDo("connect")' /\ ~Failing
    BY <1>15, FailingToDo, IdleToDo DEF WsFail
  <2>3. GoesOn' /\ LockHeld' /\ OneConnection' /\ StackShape' /\ CloseIsNoticed'
    BY <2>1, <2>2 DEF IInv, GoesOn, LockHeld, OneConnection, StackShape, CloseIsNoticed,
       flagVars, connectVars
  <2>4. TimersInv' /\ SeenInv' /\ QueueInv'
    BY <2>1, <2>2 DEF IInv, TimersInv, SeenInv, QueueInv, QueueEmptyWhenOpen,
       connectVars, outVars, userVars
  <2>5. QED BY <2>3, <2>4
<1>16. CASE WsClose
  <2>1. /\ Connect(retryCount, tries, listening) /\ ws' = "CLOSED" /\ seen' = "close"
        /\ ~connectTimer' /\ ~uptimeTimer'
        /\ UNCHANGED <<opened, flagVars, outVars, calls>>
    BY <1>16 DEF WsClose, ReportClose, ClearTimeouts
  <2>2. ~Idle' /\ ~Failing' /\ ~ToDo("connect")' /\ ~ToDo("handleError")'
    BY <1>16, EventToDo DEF WsClose, Events
  <2>3. /\ retryCount \in -1 .. RetryCap /\ tries \in 0 .. RetryCap + 2
        /\ listening \in BOOLEAN
    BY <1>0 DEF TypeOK
  <2>4. /\ shouldReconnect' => connectLock'
        /\ attempt' = attempt \/ (shouldReconnect' /\ ~listening')
        /\ attempt' /= "none" => connectLock'
        /\ listening' => listening
        /\ LockHeld'
    BY <1>0, <2>1, <2>3, ConnectEffect DEF IInv
  <2>5. GoesOn' /\ OneConnection' /\ StackShape' /\ CloseIsNoticed'
    BY <2>1, <2>2, <2>4 DEF IInv, GoesOn, OneConnection, StackShape, CloseIsNoticed,
       flagVars
  <2>6. TimersInv' /\ SeenInv' /\ QueueInv'
    BY <2>1, <2>2 DEF IInv, TimersInv, SeenInv, QueueInv, QueueEmptyWhenOpen, outVars
  <2>7. QED BY <2>4, <2>5, <2>6
<1>17. CASE WsGone
  <2>1. /\ ws = "CLOSING" /\ ~listening /\ ws' = "CLOSED"
        /\ UNCHANGED <<opened, timerVars, flagVars, connectVars, outVars, userVars,
                       stack, calls>>
    BY <1>17 DEF WsGone
  <2>2. /\ ToDo("connect")' <=> ToDo("connect")
        /\ ToDo("handleError")' <=> ToDo("handleError")
        /\ Failing' <=> Failing
    BY <2>1 DEF ToDo, Failing
  <2>3. GoesOn' /\ LockHeld' /\ OneConnection' /\ StackShape' /\ CloseIsNoticed'
    BY <2>1, <2>2 DEF IInv, GoesOn, LockHeld, OneConnection, StackShape, CloseIsNoticed,
       Live, flagVars, connectVars
  <2>4. TimersInv' /\ SeenInv' /\ QueueInv'
    BY <2>1, <2>2 DEF IInv, TimersInv, SeenInv, QueueInv, QueueEmptyWhenOpen,
       timerVars, connectVars, outVars, userVars
  <2>5. QED BY <2>3, <2>4
<1>18. CASE UNCHANGED vars
  BY <1>18 DEF vars, runVars, IInv, GoesOn, LockHeld, OneConnection, StackShape, CloseIsNoticed,
     TimersInv, SeenInv, QueueInv, QueueEmptyWhenOpen, ToDo, Failing,
     socketVars, timerVars, flagVars, connectVars, outVars, userVars
<1>19. QED
  BY <1>1, <1>2, <1>3, <1>4, <1>5, <1>6, <1>7, <1>8, <1>9, <1>10, <1>11, <1>12,
     <1>13, <1>14, <1>15, <1>16, <1>17, <1>18
     DEF Next, Handlers, User, Timers, Provider, Network

-----------------------------------------------------------------------------
(* The inductive invariant holds in every reachable state. *)
LEMMA IInvCorrect == Spec => []IInv
BY IInit, IStep, PTL DEF Spec

(* The invariant implies what the runs check between handlers. *)
LEMMA IInvSafe ==
  IInv => NeverIdle /\ TimersBelongToSocket /\ QueueEmptyWhenOpen
<1> SUFFICES ASSUME IInv PROVE NeverIdle /\ TimersBelongToSocket /\ QueueEmptyWhenOpen
  OBVIOUS
<1>1. Idle => ~Failing /\ ~ToDo("connect") /\ ~ToDo("handleError")
  BY IdleToDo
<1>2. connectLock => attempt /= "none" \/ Exhausted
  BY DEF IInv, LockHeld, Exhausted
<1>3. NeverIdle
  BY <1>1, <1>2 DEF IInv, GoesOn, NeverIdle
<1>4. TimersBelongToSocket
  BY <1>1 DEF IInv, TimersInv, TimersBelongToSocket
<1>5. QED BY <1>3, <1>4 DEF IInv, QueueInv

(* A socket that should be connected is never forgotten: whatever close(), *)
(* reconnect() and the network did, something is under way (or the retries *)
(* are used up).                                                           *)
THEOREM NeverForgotten == Spec => []NeverIdle
<1>1. IInv => NeverIdle BY IInvSafe
<1>2. QED BY <1>1, IInvCorrect, PTL

(* At most one attempt, and never next to a live socket. *)
THEOREM AtMostOneConnection == Spec => []OneConnection
<1>1. IInv => OneConnection BY DEF IInv
<1>2. QED BY <1>1, IInvCorrect, PTL

(* No timer outlives the socket it was armed for. *)
THEOREM TimersAreCleared == Spec => []TimersBelongToSocket
<1>1. IInv => TimersBelongToSocket BY IInvSafe
<1>2. QED BY <1>1, IInvCorrect, PTL

(* A direct send never overtakes a buffered message. *)
THEOREM NothingOvertaken == Spec => []QueueEmptyWhenOpen
<1>1. IInv => QueueEmptyWhenOpen BY IInvSafe
<1>2. QED BY <1>1, IInvCorrect, PTL

(* An attempt that is no longer wanted will notice that close() was called. *)
THEOREM CloseNoticed == Spec => []CloseIsNoticed
<1>1. IInv => CloseIsNoticed BY DEF IInv
<1>2. QED BY <1>1, IInvCorrect, PTL

(* No socket is made unwanted, or next to one that connects or is open. *)
THEOREM NoSocketIsLeaked == Spec => NoLeakedSocket
<1>1. IInv /\ [Next]_vars =>
        [NewSocket => shouldReconnect /\ ws \notin {"CONNECTING", "OPEN"}]_vars
  <2> SUFFICES ASSUME IInv, Next, NewSocket
               PROVE  shouldReconnect /\ ws \notin {"CONNECTING", "OPEN"}
    OBVIOUS
  <2>1. ws \notin {"CONNECTING", "OPEN"} /\ (~closeCalled => shouldReconnect)
    BY DEF IInv, OneConnection, CloseIsNoticed, NewSocket
  <2>2. CASE Handlers \/ User
    BY <2>1, <2>2 DEF NewSocket, Handlers, User, Dispatched, RunHandleError, RunConnect,
       Close, Reconnect, Send, Disconnect, CloseSocket, socketVars
  <2>3. CASE Timers \/ Network
    BY <2>1, <2>3 DEF NewSocket, Timers, Network, Waited, ConnectTimeout, AcceptOpen,
       WsOpen, WsMessage, WsPeerCloses, WsFail, WsClose, WsGone, socketVars
  <2>4. CASE Provider
    BY <2>1, <2>4 DEF NewSocket, Provider, ProviderResolves, EndAttempt,
       ClosedMeanwhile, ProviderRejects, socketVars
  <2>5. QED BY <2>1, <2>2, <2>3, <2>4 DEF Next
<1>2. QED BY <1>1, IInvCorrect, PTL DEF Spec, NoLeakedSocket

(* The program never sees two opens without a close between them, and no   *)
(* message of a socket it was told is closed.                              *)
THEOREM EventsAreOrdered == Spec => EventsAlternate
<1> DEFINE A == Idle => /\ stack' = <<"open">> => seen /= "open"
                        /\ stack' = <<"message">> => seen = "open"
<1>1. IInv /\ [Next]_vars => [A]_vars
  <2> SUFFICES ASSUME IInv, Next, Idle
               PROVE  /\ stack' = <<"open">> => seen /= "open"
                      /\ stack' = <<"message">> => seen = "open"
    OBVIOUS
  <2>1. ~Failing
    BY IdleToDo
  <2>2. CASE WsOpen
    BY <2>1, <2>2 DEF WsOpen, StartUptime, FlushQueue, IInv, SeenInv
  <2>3. CASE WsMessage
    BY <2>3 DEF WsMessage, IInv, SeenInv
  <2>4. CASE Handlers
    BY <2>4 DEF Handlers, Dispatched, RunHandleError, RunConnect
  <2>5. CASE User
    <3>1. CASE Reconnect
      <4>1. stack' = <<>> \/ stack' = <<"close", "connect">>
        BY <3>1 DEF Reconnect, Wanted, Idle
      <4>2. QED BY <4>1
    <3>2. CASE Close \/ Send
      BY <3>2 DEF Close, CloseSocket, Send, Idle
    <3>3. QED BY <2>5, <3>1, <3>2 DEF User
  <2>6. CASE Timers \/ Provider
    BY <2>6 DEF Timers, Provider, Waited, ConnectTimeout, AcceptOpen, ProviderResolves,
       EndAttempt, ClosedMeanwhile,
       ProviderRejects, Idle
  <2>7. CASE WsPeerCloses \/ WsFail \/ WsClose \/ WsGone
    BY <2>7 DEF WsPeerCloses, WsFail, WsClose, WsGone, Idle
  <2>8. QED BY <2>2, <2>3, <2>4, <2>5, <2>6, <2>7 DEF Next, Network
<1>2. QED BY <1>1, IInvCorrect, PTL DEF Spec, EventsAlternate

(* The socket implements the outbox: every accepted message is given to    *)
(* one socket, once, in the order of the calls of send().                  *)
THEOREM OutboxImplemented == Spec => ImplementsOutbox
<1>1. Init => Out!OutboxInit
  BY DEF Init, Out!OutboxInit
<1>2. IInv /\ [Next]_vars => [Out!OutboxNext]_(Out!outboxVars)
  <2> SUFFICES ASSUME IInv, [Next]_vars
               PROVE  Out!OutboxNext \/ UNCHANGED Out!outboxVars
    OBVIOUS
  <2>1. CASE Send
    <3>1. CASE SendOpen
      BY <2>1, <3>1 DEF Send, SendOpen, IInv, QueueInv, QueueEmptyWhenOpen,
         Out!OutboxNext, Out!HandOver
    <3>2. CASE SendQueued
      BY <2>1, <3>2 DEF Send, SendQueued, Out!OutboxNext, Out!Buffer
    <3>3. CASE SendDropped
      <4>1. Len(messageQueue) = MaxEnqueued
        BY <3>3, SocketAssumption DEF SendDropped, IInv, QueueInv, TypeOK
      <4>2. QED BY <2>1, <3>3, <4>1 DEF Send, SendDropped, Out!OutboxNext, Out!Discard
    <3>4. QED BY <2>1, <3>1, <3>2, <3>3 DEF Send
  <2>2. CASE WsOpen
    BY <2>2 DEF WsOpen, StartUptime, FlushQueue, Out!OutboxNext, Out!Flush
  <2>3. CASE Handlers \/ Close \/ Reconnect \/ Timers \/ Provider
    BY <2>3 DEF Handlers, Timers, Provider, Dispatched, RunHandleError, RunConnect,
       Close, CloseSocket,
       Reconnect, Waited, ConnectTimeout, AcceptOpen, ProviderResolves, EndAttempt,
       ClosedMeanwhile, ProviderRejects,
       outVars, Out!outboxVars
  <2>4. CASE WsMessage \/ WsPeerCloses \/ WsFail \/ WsClose \/ WsGone
    BY <2>4 DEF WsMessage, WsPeerCloses, WsFail, WsClose, WsGone, outVars, Out!outboxVars
  <2>5. CASE UNCHANGED vars
    BY <2>5 DEF vars, runVars, outVars, Out!outboxVars
  <2>6. QED BY <2>1, <2>2, <2>3, <2>4, <2>5 DEF Next, User, Network
<1>3. QED BY <1>1, <1>2, IInvCorrect, PTL DEF Spec, ImplementsOutbox, Out!OutboxSpec

-----------------------------------------------------------------------------
(***************************************************************************)
(* Retries.  Each attempt counts itself in _retryCount, which is set back  *)
(* to -1 by reconnect() and to 0 when a socket has been open for long.     *)
(***************************************************************************)

Counted(retry, tried) ==
  maxRetries /= Infinite => tried <= retry + 1 /\ retry <= maxRetries
CountInv == Counted(retryCount, tries)

(* _connect() makes an attempt only when a retry is left for it. *)
LEMMA ConnectCounts ==
  ASSUME TypeOK, UNCHANGED maxRetries, NEW retry \in -1 .. RetryCap,
         NEW tried \in 0 .. RetryCap + 2, NEW attached,
         Counted(retry, tried), Connect(retry, tried, attached)
  PROVE  CountInv'
<1>1. CASE retryCount' = retry /\ tries' = tried
  BY <1>1 DEF Counted, CountInv, Infinite
<1>2. CASE /\ retry < maxRetries
           /\ retryCount' = UpTo(RetryCap, retry) /\ tries' = UpTo(RetryCap + 2, tried)
  <2>1. maxRetries \in 0 .. RetryCap + 1 /\ RetryCap \in Nat
    BY SocketAssumption DEF TypeOK, Infinite
  <2>2. CASE maxRetries = Infinite
    BY <2>2 DEF CountInv, Counted, Infinite
  <2>3. CASE maxRetries /= Infinite
    <3>1. retry < RetryCap BY <1>2, <2>1, <2>3 DEF Infinite
    <3>2. retryCount' = retry + 1 BY <1>2, <3>1 DEF UpTo
    <3>3. tries' <= tried + 1 BY <1>2, <2>1 DEF UpTo
    <3>4. tries' \in Nat BY <1>2, <2>1 DEF UpTo
    <3>5. QED BY <1>2, <2>1, <3>2, <3>3, <3>4 DEF Counted, CountInv, Infinite
  <2>4. QED BY <2>2, <2>3
<1>3. QED
  <2>1. maxRetries \in Int BY DEF TypeOK
  <2>2. QED BY <1>1, <1>2, <2>1 DEF Connect, RetriesUsed

(* No step makes an attempt that is not counted. *)
LEMMA CountStep == TypeOK /\ CountInv /\ [Next]_vars => CountInv'
<1> SUFFICES ASSUME TypeOK, CountInv, [Next]_vars PROVE CountInv'
  OBVIOUS
<1>1. UNCHANGED maxRetries
  BY DEF Next, vars
<1>2. CASE UNCHANGED <<retryCount, tries>>
  BY <1>1, <1>2 DEF CountInv, Counted, Infinite
<1>3. CASE retryCount' = 0 /\ tries' = 0
  BY <1>1, <1>3, SocketAssumption DEF CountInv, Counted, TypeOK, Infinite
<1>4. CASE \E attached : Connect(retryCount, tries, attached)
  BY <1>1, <1>4, ConnectCounts DEF CountInv, TypeOK
<1>5. CASE \E attached : Connect(-1, 0, attached)
  <2>1. Counted(-1, 0) BY SocketAssumption DEF Counted, TypeOK, Infinite
  <2>2. -1 \in -1 .. RetryCap /\ 0 \in 0 .. RetryCap + 2 BY SocketAssumption
  <2>3. QED BY <1>1, <1>5, <2>1, <2>2, ConnectCounts
<1>6. \/ UNCHANGED <<retryCount, tries>> \/ (retryCount' = 0 /\ tries' = 0)
      \/ (\E attached : Connect(retryCount, tries, attached))
      \/ (\E attached : Connect(-1, 0, attached))
  <2>1. CASE Handlers
    BY <2>1 DEF Handlers, Dispatched, RunHandleError, RunConnect, Disconnect, connectVars
  <2>2. CASE User
    BY <2>2 DEF User, Close, Reconnect, Send, Disconnect, connectVars
  <2>3. CASE Timers
    BY <2>3 DEF Timers, Waited, ConnectTimeout, AcceptOpen, connectVars
  <2>4. CASE Provider
    BY <2>4 DEF Provider, ProviderResolves, ProviderRejects
  <2>5. CASE Network
    BY <2>5 DEF Network, WsOpen, WsMessage, WsPeerCloses, WsFail, WsClose, WsGone, connectVars
  <2>6. CASE UNCHANGED vars
    BY <2>6 DEF vars, runVars, connectVars
  <2>7. QED BY <2>1, <2>2, <2>3, <2>4, <2>5, <2>6 DEF Next
<1>7. QED BY <1>2, <1>3, <1>4, <1>5, <1>6

(* After the first try, or after reconnect(), at most maxRetries retries   *)
(* are made, whatever the limit and the calls (ws.ts:450).                 *)
THEOREM RetriesAreBounded == Spec => []RetriesBounded
<1>1. Init => CountInv
  BY SocketAssumption DEF Init, CountInv, Counted, Infinite
<1>2. TypeOK /\ CountInv => RetriesBounded
  BY SocketAssumption DEF TypeOK, CountInv, Counted, RetriesBounded, Infinite
<1>3. QED BY <1>1, <1>2, TypeCorrect, CountStep, PTL DEF Spec
=============================================================================
