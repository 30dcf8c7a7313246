------------------------- MODULE ReconnectingSocket -------------------------
(***************************************************************************)
(* partysocket's ReconnectingWebSocket (packages/partysocket/src/ws.ts):   *)
(* one socket object, the timers it arms, the connection attempt it may    *)
(* have under way, and the program that uses it.                           *)
(*                                                                         *)
(* A handler of the class runs to completion, except that it calls the     *)
(* program's listeners in the middle, and a listener may call close(),     *)
(* reconnect() or send().  The rest of a handler that is interrupted that  *)
(* way is kept on the variable `stack': the events still to be dispatched  *)
(* and the calls of _connect() still to be made.  Timers, promises and the *)
(* network act only between handlers, when the stack is empty.             *)
(***************************************************************************)
EXTENDS Integers, Sequences

CONSTANTS
  RetryLimits,          \* the values of options.maxRetries there are; Infinite
                        \* when it is not set
  RetryCap,             \* where the count of retries saturates (a bound)
  MaxEnqueued,          \* options.maxEnqueuedMessages
  MaxCalls,             \* bound: calls of close() and reconnect()
  MaxSends              \* bound: calls of send()

Infinite == RetryCap + 1

ASSUME SocketAssumption ==
  /\ RetryCap \in Nat
  /\ RetryLimits \subseteq 0 .. Infinite
  /\ MaxEnqueued \in Nat
  /\ MaxCalls \in Nat
  /\ MaxSends \in Nat

VARIABLES
  maxRetries,           \* options.maxRetries
  ws,                   \* _ws: "none" or the readyState of the latest socket
  opened,               \* the handshake of _ws has succeeded
  listening,            \* our listeners are attached to _ws
  retryCount,           \* _retryCount
  connectTimer,         \* _connectTimeout is armed
  uptimeTimer,          \* _uptimeTimeout is armed
  shouldReconnect,      \* _shouldReconnect
  closeCalled,          \* _closeCalled
  connectLock,          \* _connectLock
  attempt,              \* the promise chain of _connect(): "none", "wait" for
                        \* the delay, "provide" for the url and protocols
  messageQueue,         \* _messageQueue
  stack,                \* what is left of the handlers that are running
  calls,                \* calls of close() and reconnect() so far
  sent,                 \* calls of send() so far
  handed,               \* messages given to a socket, oldest first
  tries,                \* attempts begun since the count of retries was reset
                        \* (history, saturates at RetryCap + 2)
  seen,                 \* the last of the events open and close dispatched
  closeEvents           \* close events dispatched for _ws (at most 2 counted)

timerVars   == <<connectTimer, uptimeTimer>>
flagVars    == <<shouldReconnect, closeCalled>>
connectVars == <<retryCount, tries, connectLock, attempt, listening>>
outVars     == <<messageQueue, sent, handed>>
userVars    == <<seen, closeEvents>>
socketVars  == <<ws, opened>>
runVars ==
  <<socketVars, timerVars, flagVars, connectVars, outVars, userVars, stack, calls>>
vars == <<maxRetries, runVars>>

ReadyStates == {"none", "CONNECTING", "OPEN", "CLOSING", "CLOSED"}
Events      == {"open", "message", "close", "error"}
Steps       == Events \cup {"connect", "handleError"}

TypeOK ==
  /\ maxRetries \in 0 .. Infinite
  /\ ws \in ReadyStates
  /\ opened \in BOOLEAN /\ listening \in BOOLEAN
  /\ retryCount \in -1 .. RetryCap
  /\ tries \in 0 .. RetryCap + 2
  /\ connectTimer \in BOOLEAN /\ uptimeTimer \in BOOLEAN
  /\ shouldReconnect \in BOOLEAN /\ closeCalled \in BOOLEAN
  /\ connectLock \in BOOLEAN
  /\ attempt \in {"none", "wait", "provide"}
  /\ messageQueue \in Seq(1 .. MaxSends)
  /\ handed \in Seq(1 .. MaxSends)
  /\ sent \in 0 .. MaxSends
  /\ calls \in 0 .. MaxCalls
  /\ stack \in Seq(Steps)
  /\ seen \in {"nothing", "open", "close"}
  /\ closeEvents \in 0 .. 2

-----------------------------------------------------------------------------
(***************************************************************************)
(* The private methods that several handlers call.  Each sets the primed   *)
(* variables it names from the values it is given.                         *)
(***************************************************************************)

ClearTimeouts == connectTimer' = FALSE /\ uptimeTimer' = FALSE

(* close() of the socket itself, which has an effect only on a live one. *)
CloseSocket == ws' = IF ws \in {"CONNECTING", "OPEN"} THEN "CLOSING" ELSE ws

(* The successor of n, saturating at cap. *)
UpTo(cap, n) == IF n < cap THEN n + 1 ELSE n

(* The retries are used up. *)
RetriesUsed(retry) == retry >= maxRetries

(* _connect(): nothing when an attempt holds the lock or none is wanted;   *)
(* with the retries used up it takes the lock and makes no attempt.        *)
Connect(retry, tried, attached) ==
  \/ /\ connectLock \/ ~shouldReconnect'
     /\ retryCount' = retry /\ tries' = tried /\ listening' = attached
     /\ UNCHANGED <<connectLock, attempt>>
  \/ /\ ~connectLock /\ shouldReconnect'
     /\ RetriesUsed(retry)
     /\ connectLock' = TRUE
     /\ retryCount' = retry /\ tries' = tried /\ listening' = attached
     /\ UNCHANGED attempt
  \/ /\ ~connectLock /\ shouldReconnect'
     /\ ~RetriesUsed(retry)
     /\ connectLock' = TRUE
     /\ retryCount' = UpTo(RetryCap, retry) /\ tries' = UpTo(RetryCap + 2, tried)
     /\ listening' = FALSE
     /\ attempt' = "wait"

(* A close event reaches the program's listeners. *)
ReportClose ==
  /\ seen' = "close"
  /\ closeEvents' = UpTo(2, closeEvents)

(* _disconnect() of an existing socket, up to the listeners of the close   *)
(* event it makes up: _handleClose() calls _connect() before them.         *)
ListenersKept(retry, tried) ==                              \* mutant
  ClearTimeouts /\ CloseSocket /\ ReportClose /\ Connect(retry, tried, listening)
Disconnect(retry, tried) ==
  /\ ClearTimeouts
  /\ CloseSocket
  /\ ReportClose
  /\ Connect(retry, tried, FALSE)

-----------------------------------------------------------------------------
(***************************************************************************)
(* The steps of the handlers.                                              *)
(***************************************************************************)

Idle == stack = <<>>

(* The listeners of an event have returned. *)
Dispatched ==
  /\ ~Idle /\ Head(stack) \in Events
  /\ stack' = Tail(stack)
  /\ UNCHANGED <<socketVars, timerVars, flagVars, connectVars, outVars, userVars, calls>>

(* _handleError(): disconnect, then the error event, then _connect(). *)
RunHandleError ==
  /\ ~Idle /\ Head(stack) = "handleError"
  /\ UNCHANGED <<opened, flagVars, outVars, calls>>
  /\ \/ /\ ws = "none"
        /\ ClearTimeouts
        /\ stack' = <<"error", "connect">> \o Tail(stack)
        /\ UNCHANGED <<ws, connectVars, userVars>>
     \/ /\ ws /= "none"
        /\ Disconnect(retryCount, tries)
        /\ stack' = <<"close", "error", "connect">> \o Tail(stack)

(* The call of _connect() that ends _handleError() and reconnect(). *)
NoRetryAfterError ==                                        \* mutant
  /\ ~Idle /\ Head(stack) = "connect"
  /\ stack' = Tail(stack)
  /\ UNCHANGED <<socketVars, timerVars, flagVars, connectVars, outVars, userVars, calls>>
RunConnect ==
  /\ ~Idle /\ Head(stack) = "connect"
  /\ UNCHANGED flagVars
  /\ Connect(retryCount, tries, listening)
  /\ stack' = Tail(stack)
  /\ UNCHANGED <<socketVars, timerVars, outVars, userVars, calls>>

-----------------------------------------------------------------------------
(***************************************************************************)
(* The program: between handlers, or inside a listener.                    *)
(***************************************************************************)

UserTurn == ~Idle => Head(stack) \in Events

Close ==
  /\ UserTurn /\ calls < MaxCalls
  /\ calls' = calls + 1
  /\ closeCalled' = TRUE
  /\ shouldReconnect' = FALSE
  /\ ClearTimeouts
  /\ CloseSocket
  /\ UNCHANGED <<opened, connectVars, outVars, userVars, stack>>

Wanted == shouldReconnect' = TRUE /\ closeCalled' = FALSE

Reconnect ==
  /\ UserTurn /\ calls < MaxCalls
  /\ calls' = calls + 1
  /\ Wanted
  /\ UNCHANGED <<opened, outVars>>
  /\ \/ /\ ws \in {"none", "CLOSED"}
        /\ Connect(-1, 0, listening)
        /\ UNCHANGED <<ws, timerVars, userVars, stack>>
     \/ /\ ws \notin {"none", "CLOSED"}
        /\ Disconnect(-1, 0)
        /\ stack' = <<"close", "connect">> \o stack

(* send(): to the socket when it is open, else into the queue if it has    *)
(* room, else the message is dropped.                                      *)
SendOpen ==
  /\ ws = "OPEN"
  /\ handed' = Append(handed, sent + 1)
  /\ UNCHANGED messageQueue

SendQueued ==
  /\ ws /= "OPEN" /\ Len(messageQueue) < MaxEnqueued
  /\ messageQueue' = Append(messageQueue, sent + 1)
  /\ UNCHANGED handed

OldestDropped ==                                            \* mutant
  /\ ws /= "OPEN" /\ Len(messageQueue) >= MaxEnqueued
  /\ messageQueue' = Append(Tail(messageQueue), sent + 1)
  /\ UNCHANGED handed
SendDropped ==
  /\ ws /= "OPEN" /\ Len(messageQueue) >= MaxEnqueued
  /\ UNCHANGED <<messageQueue, handed>>

Send ==
  /\ UserTurn /\ sent < MaxSends
  /\ sent' = sent + 1
  /\ SendOpen \/ SendQueued \/ SendDropped
  /\ UNCHANGED <<socketVars, timerVars, flagVars, connectVars, userVars, stack, calls>>

-----------------------------------------------------------------------------
(***************************************************************************)
(* The promise chain of _connect() and the timers.                         *)
(***************************************************************************)

(* The chain is over, with a socket or without. *)
LockKept == attempt' = "none" /\ UNCHANGED connectLock      \* mutant
EndAttempt == attempt' = "none" /\ connectLock' = FALSE

(* _wait() is over: the url and protocols are asked for. *)
Waited ==
  /\ Idle /\ attempt = "wait"
  /\ attempt' = "provide"
  /\ UNCHANGED <<socketVars, timerVars, flagVars, retryCount, tries, connectLock, listening,
                 outVars, userVars, stack, calls>>

(* Url and protocols are there: no socket is made if close() was called. *)
Unconcerned == FALSE                                        \* mutant
ClosedMeanwhile == closeCalled

ProviderResolves ==
  /\ Idle /\ attempt = "provide"
  /\ EndAttempt
  /\ \/ /\ ClosedMeanwhile
        /\ UNCHANGED <<socketVars, listening, connectTimer, closeEvents>>
     \/ /\ ~ClosedMeanwhile
        /\ ws' = "CONNECTING" /\ opened' = FALSE
        /\ listening' = TRUE
        /\ connectTimer' = TRUE
        /\ closeEvents' = 0
  /\ UNCHANGED <<uptimeTimer, flagVars, retryCount, tries, outVars, seen, stack, calls>>

(* The provider throws or rejects, or the socket's constructor throws. *)
ProviderRejects ==
  /\ Idle /\ attempt = "provide"
  /\ EndAttempt
  /\ stack' = <<"handleError">>
  /\ UNCHANGED <<socketVars, timerVars, flagVars, retryCount, tries, listening, outVars,
                 userVars, calls>>

ConnectTimeout ==
  /\ Idle /\ connectTimer
  /\ connectTimer' = FALSE
  /\ stack' = <<"handleError">>
  /\ UNCHANGED <<socketVars, uptimeTimer, flagVars, connectVars, outVars, userVars, calls>>

(* _acceptOpen(): the socket has been open for minUptime. *)
AcceptOpen ==
  /\ Idle /\ uptimeTimer
  /\ uptimeTimer' = FALSE
  /\ retryCount' = 0 /\ tries' = 0
  /\ UNCHANGED <<socketVars, connectTimer, flagVars, connectLock, attempt, listening,
                 outVars, userVars, stack, calls>>

-----------------------------------------------------------------------------
(***************************************************************************)
(* The network: what happens to the socket in _ws.  A socket we no longer  *)
(* listen to still changes its state.                                      *)
(***************************************************************************)

(* The handshake succeeds; _handleOpen() flushes the queue. *)
StartUptime == connectTimer' = FALSE /\ uptimeTimer' = TRUE

FlushQueue == handed' = handed \o messageQueue /\ messageQueue' = <<>>

WsOpen ==
  /\ Idle /\ ws = "CONNECTING" /\ listening
  /\ ws' = "OPEN" /\ opened' = TRUE
  /\ StartUptime
  /\ FlushQueue
  /\ seen' = "open"
  /\ stack' = <<"open">>
  /\ UNCHANGED <<flagVars, connectVars, sent, closeEvents, calls>>

WsMessage ==
  /\ Idle /\ ws \in {"OPEN", "CLOSING"} /\ opened /\ listening
  /\ stack' = <<"message">>
  /\ UNCHANGED <<socketVars, timerVars, flagVars, connectVars, outVars, userVars, calls>>

(* The peer has begun the closing handshake: no event. *)
WsPeerCloses ==
  /\ Idle /\ ws = "OPEN"
  /\ ws' = "CLOSING"
  /\ UNCHANGED <<opened, timerVars, flagVars, connectVars, outVars, userVars, stack, calls>>

(* The connection fails: an error event, with the socket CLOSED already or *)
(* still CLOSING.  The close event that follows finds no listener of ours. *)
WsFail ==
  /\ Idle /\ ws \in {"CONNECTING", "OPEN", "CLOSING"} /\ listening
  /\ ws' \in {"CLOSING", "CLOSED"}
  /\ stack' = <<"handleError">>
  /\ UNCHANGED <<opened, timerVars, flagVars, connectVars, outVars, userVars, calls>>

(* The connection is closed cleanly: _handleClose(). *)
WsClose ==
  /\ Idle /\ ws \in {"OPEN", "CLOSING"} /\ listening
  /\ ws' = "CLOSED"
  /\ UNCHANGED <<opened, flagVars, outVars, calls>>
  /\ ClearTimeouts
  /\ Connect(retryCount, tries, listening)
  /\ ReportClose
  /\ stack' = <<"close">>

(* A socket that we have let go of closes. *)
WsGone ==
  /\ Idle /\ ws = "CLOSING" /\ ~listening
  /\ ws' = "CLOSED"
  /\ UNCHANGED <<opened, timerVars, flagVars, connectVars, outVars, userVars, stack, calls>>

-----------------------------------------------------------------------------

(* The constructor, up to its return: it has called _connect(), which does *)
(* nothing with options.startClosed.                                       *)
Init ==
  /\ maxRetries \in RetryLimits
  /\ ws = "none" /\ opened = FALSE /\ listening = FALSE
  /\ connectTimer = FALSE /\ uptimeTimer = FALSE
  /\ shouldReconnect \in BOOLEAN                             \* ~startClosed
  /\ closeCalled = FALSE
  /\ connectLock = shouldReconnect
  /\ retryCount = IF shouldReconnect THEN 0 ELSE -1
  /\ tries = IF shouldReconnect THEN 1 ELSE 0
  /\ attempt = IF shouldReconnect THEN "wait" ELSE "none"
  /\ messageQueue = <<>> /\ sent = 0 /\ handed = <<>>
  /\ stack = <<>> /\ calls = 0
  /\ seen = "nothing" /\ closeEvents = 0

Handlers == Dispatched \/ RunHandleError \/ RunConnect
User     == Close \/ Reconnect \/ Send
Timers   == Waited \/ ConnectTimeout \/ AcceptOpen
Provider == ProviderResolves \/ ProviderRejects
Network  == WsOpen \/ WsMessage \/ WsPeerCloses \/ WsFail \/ WsClose \/ WsGone

Next ==
  /\ Handlers \/ User \/ Timers \/ Provider \/ Network
  /\ UNCHANGED maxRetries

Spec == Init /\ [][Next]_vars

-----------------------------------------------------------------------------
(***************************************************************************)
(* Safety.                                                                 *)
(***************************************************************************)

(* Between handlers, a socket that should reconnect is never left alone:   *)
(* it is listening to a live socket, or an attempt of _connect() is under  *)
(* way, or the retries are used up (_connect, _handleClose, _handleError). *)
Exhausted == connectLock /\ attempt = "none" /\ maxRetries /= Infinite

NeverIdle ==
  Idle /\ shouldReconnect =>
    \/ listening /\ ws \in {"CONNECTING", "OPEN", "CLOSING"}
    \/ attempt /= "none"
    \/ Exhausted

(* An attempt and a live socket exclude each other, and an attempt always  *)
(* holds the lock: _connect() never has two chains under way, whatever     *)
(* close() and reconnect() did in the meantime.                            *)
OneConnection ==
  attempt /= "none" =>
    connectLock /\ ~listening /\ ws \notin {"CONNECTING", "OPEN"}

(* A timer belongs to the socket it was armed for: the connection timeout  *)
(* never fires on a socket that has opened, and minUptime never counts for *)
(* a socket that was closed or replaced (_clearTimeouts, _handleOpen).     *)
TimersBelongToSocket ==
  /\ Idle /\ connectTimer => ws = "CONNECTING" /\ listening
  /\ Idle /\ uptimeTimer  => ws \in {"OPEN", "CLOSING"} /\ listening /\ opened

(* After the first try, or after reconnect(), at most maxRetries retries   *)
(* are made before a connection stays up for minUptime (_acceptOpen).      *)
RetriesBounded == maxRetries /= Infinite => tries <= maxRetries + 1

(* Nothing waits in the queue while the socket is open, so a message sent  *)
(* directly never overtakes a buffered one (send, _handleOpen).            *)
QueueEmptyWhenOpen == ws = "OPEN" => messageQueue = <<>>

(* After close() the only thing under way is an attempt that will notice   *)
(* it: _closeCalled is set whenever an attempt runs unwanted.              *)
CloseIsNoticed ==
  /\ closeCalled => ~shouldReconnect
  /\ attempt /= "none" /\ ~shouldReconnect => closeCalled

(* A new socket is made only when one is wanted, and never while another   *)
(* one is connecting or open (ProviderResolves, _disconnect).              *)
NewSocket == attempt /= "none" /\ attempt' = "none" /\ ws' = "CONNECTING"
NoLeakedSocket ==
  [][NewSocket => shouldReconnect /\ ws \notin {"CONNECTING", "OPEN"}]_vars

(* The program sees open, then messages, then close, and so on: never two  *)
(* opens without a close between them, never a message of a socket whose   *)
(* close it was told of (_removeListeners before every replacement).       *)
EventsAlternate ==
  [][Idle => /\ stack' = <<"open">> => seen /= "open"
             /\ stack' = <<"message">> => seen = "open"]_vars

(* Every message that was accepted is given to exactly one socket, once,   *)
(* in the order of the calls of send().                                    *)
Out == INSTANCE Outbox WITH Limit <- MaxEnqueued, pending <- messageQueue
ImplementsOutbox == Out!OutboxSpec

-----------------------------------------------------------------------------
(***************************************************************************)
(* Liveness.  Handlers, timers and promises run; a closing socket is       *)
(* closed at last; and a provider or a handshake that is tried again and   *)
(* again succeeds at last.                                                 *)
(***************************************************************************)
Fairness ==
  /\ WF_runVars(Handlers)
  /\ WF_runVars(Waited)
  /\ WF_runVars(ConnectTimeout)
  /\ SF_runVars(ws = "CLOSING" /\ (WsClose \/ WsFail))
  /\ SF_runVars(ProviderResolves)
  /\ SF_runVars(WsOpen)

LiveSpec == Spec /\ Fairness

(* A socket that is to be connected is open again at last, or was closed,  *)
(* or has used its retries up.                                             *)
Reopens == shouldReconnect ~> (ws = "OPEN" \/ ~shouldReconnect \/ Exhausted)

-----------------------------------------------------------------------------
(***************************************************************************)
(* What comments in the source say and the code does not do.               *)
(***************************************************************************)

(* ws.ts:327 "Closes the WebSocket connection or connection attempt and    *)
(* connects again. Resets retry counter": after reconnect(), an attempt is *)
(* under way or has led to a socket.  _retryCount is -1 from reconnect()   *)
(* to the next attempt.                                                    *)
ReconnectConnects ==
  Idle /\ shouldReconnect /\ retryCount = -1 =>
    \/ attempt /= "none"
    \/ listening /\ ws \in {"CONNECTING", "OPEN", "CLOSING"}

(* ws.ts:287 a close event is for "when the WebSocket connection's         *)
(* readyState changes to CLOSED": at most once for each socket.            *)
OneCloseEventPerSocket == closeEvents <= 1
=============================================================================
