----------------------------- MODULE YProvider -----------------------------
(***************************************************************************)
(* The connection of y-partyserver's YProvider and of the                  *)
(* WebsocketProvider it extends (packages/y-partyserver/src/provider/      *)
(* index.ts): the flags that say what its WebSocket is doing, the timers   *)
(* that make a new one, and connect(), which may wait for the program's    *)
(* params before it does anything.                                         *)
(***************************************************************************)
EXTENDS Integers

CONSTANTS
  UseBc,                \* ~disableBc
  MaxBackoff,           \* where the count of failures saturates (a bound)
  MaxTimers,            \* where the count of timers saturates (a bound)
  MaxCalls              \* bound: calls of connect(), disconnect(), destroy()

ASSUME ProviderAssumption ==
  /\ UseBc \in BOOLEAN
  /\ MaxBackoff \in Nat /\ MaxTimers \in Nat \ {0} /\ MaxCalls \in Nat

VARIABLES
  asyncParams,          \* the params option is a function that takes time
  shouldConnect,        \* shouldConnect
  ws,                   \* the readyState of ws, "none" when it is null
  wsconnecting,         \* wsconnecting
  wsconnected,          \* wsconnected
  synced,               \* _synced
  failures,             \* wsUnsuccessfulReconnects
  timers,               \* how many setTimeout(setupWS) are to come
  fetching,             \* calls of connect() that await the params
  bcconnected,          \* bcconnected
  destroyed,            \* destroy() was called
  calls                 \* calls of the program so far

socketVars == <<ws, wsconnecting, wsconnected, synced>>
runVars ==
  <<shouldConnect, socketVars, failures, timers, fetching, bcconnected, destroyed, calls>>
vars == <<asyncParams, runVars>>

TypeOK ==
  /\ asyncParams \in BOOLEAN
  /\ shouldConnect \in BOOLEAN
  /\ ws \in {"none", "CONNECTING", "OPEN", "CLOSING"}
  /\ wsconnecting \in BOOLEAN /\ wsconnected \in BOOLEAN /\ synced \in BOOLEAN
  /\ failures \in 0 .. MaxBackoff
  /\ timers \in 0 .. MaxTimers
  /\ fetching \in 0 .. MaxCalls
  /\ bcconnected \in BOOLEAN /\ destroyed \in BOOLEAN
  /\ calls \in 0 .. MaxCalls

-----------------------------------------------------------------------------
(***************************************************************************)
(* What several handlers do.                                               *)
(***************************************************************************)

(* setupWS(), when it is wanted and there is no socket. *)
Wanted == shouldConnect' /\ ws = "none"

SetupWS ==
  \/ /\ Wanted
     /\ ws' = "CONNECTING"
     /\ wsconnecting' = TRUE /\ wsconnected' = FALSE /\ synced' = FALSE
  \/ ~Wanted /\ UNCHANGED socketVars

(* ws.close() *)
CloseSocket == ws' = IF ws \in {"CONNECTING", "OPEN"} THEN "CLOSING" ELSE ws

(* WebsocketProvider.connect() *)
ConnectNow ==
  /\ shouldConnect' = TRUE
  /\ SetupWS
  /\ \/ ~wsconnected /\ ws = "none" /\ bcconnected' = UseBc
     \/ (wsconnected \/ ws /= "none") /\ UNCHANGED bcconnected

DisconnectNow ==
  /\ shouldConnect' = FALSE
  /\ bcconnected' = FALSE
  /\ CloseSocket
  /\ UNCHANGED <<wsconnecting, wsconnected, synced>>

-----------------------------------------------------------------------------
(***************************************************************************)
(* The program.                                                            *)
(***************************************************************************)

Called == calls < MaxCalls /\ ~destroyed /\ calls' = calls + 1

(* connect() goes on at once, or when its params have come. *)
Connect ==
  /\ Called
  /\ \/ ~asyncParams /\ ConnectNow /\ UNCHANGED fetching
     \/ /\ asyncParams
        /\ fetching' = fetching + 1
        /\ UNCHANGED <<shouldConnect, socketVars, bcconnected>>
  /\ UNCHANGED <<failures, timers, destroyed>>

ParamsResolve ==
  /\ fetching > 0
  /\ fetching' = fetching - 1
  /\ ConnectNow
  /\ UNCHANGED <<failures, timers, destroyed, calls>>

ParamsReject ==
  /\ fetching > 0
  /\ fetching' = fetching - 1
  /\ UNCHANGED <<shouldConnect, socketVars, failures, timers, bcconnected, destroyed, calls>>

Disconnect ==
  /\ Called
  /\ DisconnectNow
  /\ UNCHANGED <<failures, timers, fetching, destroyed>>

(* destroy(): no pending timer of setupWS is cleared. *)
Destroy ==
  /\ Called
  /\ destroyed' = TRUE
  /\ DisconnectNow
  /\ UNCHANGED <<failures, timers, fetching>>

-----------------------------------------------------------------------------
(***************************************************************************)
(* Timers and the socket.                                                  *)
(***************************************************************************)

TimerFires ==
  /\ timers > 0
  /\ timers' = timers - 1
  /\ UNCHANGED shouldConnect
  /\ SetupWS
  /\ UNCHANGED <<failures, fetching, bcconnected, destroyed, calls>>

(* Nothing was heard for messageReconnectTimeout; destroy() ends this. *)
CheckInterval ==
  /\ wsconnected /\ ~destroyed
  /\ CloseSocket
  /\ UNCHANGED <<shouldConnect, wsconnecting, wsconnected, synced, failures, timers,
                 fetching, bcconnected, destroyed, calls>>

WsOpen ==
  /\ ws = "CONNECTING"
  /\ ws' = "OPEN"
  /\ wsconnecting' = FALSE /\ wsconnected' = TRUE
  /\ failures' = 0
  /\ UNCHANGED <<shouldConnect, synced, timers, fetching, bcconnected, destroyed, calls>>

(* The server's answer to sync step 1. *)
SyncStep2 ==
  /\ ws = "OPEN"
  /\ synced' = TRUE
  /\ UNCHANGED <<shouldConnect, ws, wsconnecting, wsconnected, failures, timers, fetching,
                 bcconnected, destroyed, calls>>

(* The server begins to close. *)
PeerCloses ==
  /\ ws = "OPEN"
  /\ ws' = "CLOSING"
  /\ UNCHANGED <<shouldConnect, wsconnecting, wsconnected, synced, failures, timers, fetching,
                 bcconnected, destroyed, calls>>

(* The close event, of a socket in whatever state, at any time: a new      *)
(* timer is set unless MaxTimers of them are to come.                      *)
TimerOnlyAfterFailure ==                                    \* mutant
  timers' = IF ~wsconnected /\ timers < MaxTimers THEN timers + 1 ELSE timers
TimerSet == timers' = IF timers < MaxTimers THEN timers + 1 ELSE timers

SyncedStays ==                                              \* mutant
  wsconnected /\ wsconnected' = FALSE /\ UNCHANGED <<synced, failures>>
WasConnected ==
  wsconnected /\ wsconnected' = FALSE /\ synced' = FALSE /\ UNCHANGED failures
NeverConnected ==
  /\ ~wsconnected
  /\ failures' = IF failures < MaxBackoff THEN failures + 1 ELSE failures
  /\ UNCHANGED <<wsconnected, synced>>

WsClose ==
  /\ ws /= "none"
  /\ ws' = "none"
  /\ wsconnecting' = FALSE
  /\ WasConnected \/ NeverConnected
  /\ TimerSet
  /\ UNCHANGED <<shouldConnect, fetching, bcconnected, destroyed, calls>>

-----------------------------------------------------------------------------

Init ==
  /\ asyncParams \in BOOLEAN
  /\ shouldConnect = FALSE
  /\ ws = "none" /\ wsconnecting = FALSE /\ wsconnected = FALSE /\ synced = FALSE
  /\ failures = 0 /\ timers = 0 /\ fetching = 0
  /\ bcconnected = FALSE /\ destroyed = FALSE /\ calls = 0

Program == Connect \/ Disconnect \/ Destroy
Params  == ParamsResolve \/ ParamsReject
Network == WsOpen \/ SyncStep2 \/ PeerCloses \/ WsClose

Next ==
  /\ Program \/ Params \/ TimerFires \/ CheckInterval \/ Network
  /\ UNCHANGED asyncParams

Spec == Init /\ [][Next]_vars

-----------------------------------------------------------------------------
(***************************************************************************)
(* Properties.                                                             *)
(***************************************************************************)

(* The flags say what the socket does, whoever closed it and however far   *)
(* it had come; in particular the assertion "ws must not be null" of the   *)
(* check interval holds, and nothing is synced without a connection.       *)
FlagsAgree ==
  /\ wsconnected => ws \in {"OPEN", "CLOSING"}
  /\ ws = "OPEN" => wsconnected
  /\ wsconnecting => ws \in {"CONNECTING", "CLOSING"}
  /\ ws /= "none" => wsconnecting /= wsconnected
  /\ synced => wsconnected

(* A provider that should connect has a socket or a timer that makes one:  *)
(* a connect() that finds the old socket closing may rely on its close     *)
(* event (connect, setupWS).                                               *)
NeverIdle == shouldConnect => ws /= "none" \/ timers > 0

(* After disconnect() a socket is at most on its way out: no timer that    *)
(* was set before makes a new one (disconnect, setupWS).                   *)
OpenIsWanted == ws \in {"CONNECTING", "OPEN"} => shouldConnect

(* A socket is made only when the last one is gone. *)
NoLeakedSocket == [][ws' = "CONNECTING" /\ ws /= "CONNECTING" => ws = "none"]_vars

(* Timers fire, a handshake that is tried again and again succeeds, and a  *)
(* socket that is closing closes.                                          *)
Fairness ==
  /\ WF_runVars(TimerFires)
  /\ SF_runVars(WsOpen)
  /\ WF_runVars(ws = "CLOSING" /\ WsClose)
LiveSpec == Spec /\ Fairness

(* A provider that should connect is connected at last, or told not to: no *)
(* order of calls, late params, timers and closes leaves it without an     *)
(* attempt (connect, setupWS).                                             *)
Connects == shouldConnect ~> (wsconnected /\ ws = "OPEN") \/ ~shouldConnect

-----------------------------------------------------------------------------
(***************************************************************************)
(* What the documentation says and the code does not do.                   *)
(***************************************************************************)

(* provider/index.ts:276 shouldConnect: "Whether to connect to other peers *)
(* or not".  A provider that was destroyed is not to connect.              *)
DestroyedStaysDown == destroyed => ws \notin {"CONNECTING", "OPEN"}

(* y-partyserver/README.md:76 "Disable cross-tab BroadcastChannel          *)
(* communication", which is not disabled: a connected provider takes part. *)
BcFollows == UseBc /\ ws = "OPEN" /\ shouldConnect => bcconnected
=============================================================================
