----------------------------- MODULE PartyServer -----------------------------
(***************************************************************************)
(* A partyserver Server (packages/partyserver/src/index.ts): one Durable   *)
(* Object that is created in memory, started by its first event, handles   *)
(* requests, WebSockets and alarms concurrently, and is evicted or resets. *)
(*                                                                         *)
(* A task is one event being handled.  Between two steps of a task the     *)
(* handler awaits something, and other tasks run.  blockConcurrencyWhile   *)
(* is the platform's: while its callback runs an event that arrives waits, *)
(* only what the callback itself does goes on, a further call of           *)
(* blockConcurrencyWhile included, and if the callback throws the object   *)
(* is reset, its memory lost.                                              *)
(***************************************************************************)
EXTENDS ConnectionManager, Integers

CONSTANTS
  Task,                 \* how many events may be handled at once (a bound)
  None,                 \* no task, no connection
  MaxLives              \* bound: how often the object is created in memory

ASSUME ServerAssumption == MaxLives \in Nat \ {0} /\ None \notin Task \cup Conn

VARIABLES
  status,               \* #status
  named,                \* #_name is set
  gate,                 \* the task inside a callback of blockConcurrencyWhile
  depth,                \* how many of these callbacks run, one in the other
  pc,                   \* where each task is
  kind,                 \* the event of each task
  conn,                 \* the socket a task is about, or None
  starts,               \* calls of onStart() in this life of the object
  lives                 \* how often the object was created

taskVars == <<pc, kind, conn>>
gateVars == <<gate, depth>>
lifeVars == <<status, named, gate, depth, starts, lives>>
vars == <<managerVars, taskVars, lifeVars>>

Kinds == {"request", "setName", "connect", "message", "close", "alarm"}

(* Where a task can be: arrived and not delivered yet; in the callback of  *)
(* setName() before and after #initialize(), and waiting for onStart() in  *)
(* that of #initialize(); going on after them; awaiting                    *)
(* getConnectionTags(), or inside one of the program's other methods.      *)
Inside == {"setName", "onStart", "initialized"}
Hooks == {"tags", "onConnect", "onRequest", "onMessage", "onClose", "onAlarm"}
Places == {"idle", "arrived", "resumed"} \cup Inside \cup Hooks

TypeOK ==
  /\ ManagerTypeOK
  /\ status \in {"zero", "starting", "started"}
  /\ named \in BOOLEAN
  /\ gate \in Task \cup {None}
  /\ depth \in 0 .. 2
  /\ pc \in [Task -> Places]
  /\ kind \in [Task -> Kinds]
  /\ conn \in [Task -> Conn \cup {None}]
  /\ starts \in 0 .. 2
  /\ lives \in 1 .. MaxLives

-----------------------------------------------------------------------------

Goto(t, place) == pc' = [pc EXCEPT ![t] = place]

(* blockConcurrencyWhile(): a callback begins when none runs, or inside    *)
(* the callback that asks for it; it ends before the one around it.        *)
Block(t) ==
  /\ gate \in {None, t}
  /\ gate' = t
  /\ depth' = depth + 1
Unblock ==
  /\ depth' = depth - 1
  /\ gate' = IF depth = 1 THEN None ELSE gate

(* #initialize(): onStart() is called behind the gate. *)
NotBlocking(t) ==                                           \* mutant
  status' = "starting" /\ starts' = starts + 1 /\ Goto(t, "onStart") /\ UNCHANGED gateVars
Initialize(t) ==
  /\ Block(t)
  /\ status' = "starting"
  /\ starts' = IF starts < 2 THEN starts + 1 ELSE 2
  /\ Goto(t, "onStart")

(* What wakes up the object and does not set its name. *)
Hydrate(t) ==
  IF status /= "started"
  THEN Initialize(t)
  ELSE Goto(t, "resumed") /\ UNCHANGED <<status, starts, gateVars>>

(* setName(), with the name the object already has or its first: it waits  *)
(* for a callback of its own, in which it calls #initialize().             *)
SetName(t) ==
  /\ named' = TRUE
  /\ IF status /= "started"
     THEN Block(t) /\ Goto(t, "setName") /\ UNCHANGED <<status, starts>>
     ELSE Goto(t, "resumed") /\ UNCHANGED <<status, starts, gateVars>>

(* fetch(): setName() unless there is a name, which is all it looks at. *)
Fetch(t) ==
  IF ~named
  THEN SetName(t)
  ELSE Goto(t, "resumed") /\ UNCHANGED <<status, named, starts, gateVars>>

-----------------------------------------------------------------------------
(***************************************************************************)
(* Events.  Those of one socket are delivered one after the other, and an  *)
(* object has one alarm at a time.                                         *)
(***************************************************************************)

Arrive(t, k, c) ==
  /\ pc[t] = "idle"
  /\ kind' = [kind EXCEPT ![t] = k]
  /\ conn' = [conn EXCEPT ![t] = c]
  /\ Goto(t, "arrived")
  /\ UNCHANGED <<managerVars, lifeVars>>

Waiting(c) == \E t \in Task : pc[t] = "arrived" /\ conn[t] = c

(* A request, getServerByName()'s request for the set-name path, or an     *)
(* alarm.                                                                  *)
ArriveRequest(t) == Arrive(t, "request", None)
ArriveSetName(t) == Arrive(t, "setName", None)
ArriveAlarm(t) ==
  /\ \A u \in Task : pc[u] /= "idle" => kind[u] /= "alarm"
  /\ Arrive(t, "alarm", None)

(* A request to open a WebSocket. *)
ArriveConnect(t, c) ==
  /\ sock[c] = "new" /\ \A u \in Task : pc[u] /= "idle" => conn[u] /= c
  /\ Arrive(t, "connect", c)

(* A message on a socket, or its close or error. *)
ArriveFromSocket(t, c, k) ==
  /\ c \in PlatformSockets /\ ~Waiting(c)
  /\ Arrive(t, k, c)

(* The platform delivers an event while no callback runs. *)
Deliver(t, k) ==
  /\ pc[t] = "arrived" /\ kind[t] = k /\ gate = None
  /\ UNCHANGED <<kind, conn, lives>>

Request(t) ==
  /\ \E k \in {"request", "setName", "connect"} : Deliver(t, k)
  /\ Fetch(t)
  /\ UNCHANGED managerVars

(* webSocketMessage(), for a hibernating server. *)
HibernatedMessage(t) ==
  /\ hibernate
  /\ Deliver(t, "message")
  /\ SetName(t)
  /\ UNCHANGED managerVars

(* webSocketClose() and webSocketError(): the socket is gone. *)
HibernatedClose(t) ==
  /\ hibernate
  /\ Deliver(t, "close")
  /\ \E c \in Conn : conn[t] = c /\ SocketGone(c)
  /\ SetName(t)

(* The listeners of an in-memory connection call the methods at once:      *)
(* neither #status nor the name is looked at.                              *)
InMemoryMessage(t) ==
  /\ ~hibernate
  /\ Deliver(t, "message") /\ conn[t] \in PlatformSockets
  /\ Goto(t, "onMessage")
  /\ UNCHANGED <<managerVars, status, named, starts, gateVars>>

(* An in-memory connection ends: removeConnection and onClose() run. *)
InMemoryClose(t) ==
  /\ ~hibernate
  /\ Deliver(t, "close")
  /\ \E c \in Conn : conn[t] = c /\ SocketGone(c)
  /\ Goto(t, "onClose")
  /\ UNCHANGED <<status, named, starts, gateVars>>

Alarm(t) ==
  /\ Deliver(t, "alarm")
  /\ Hydrate(t)
  /\ UNCHANGED <<managerVars, named>>

-----------------------------------------------------------------------------
(* The callback of setName() calls #initialize(). *)
NameCallback(t) ==
  /\ pc[t] = "setName"
  /\ Initialize(t)
  /\ UNCHANGED <<managerVars, kind, conn, named, lives>>

(* onStart() resolves: the callback of #initialize() has run. *)
NotStarted(t) ==                                            \* mutant
  /\ pc[t] = "onStart"
  /\ Unblock
  /\ Goto(t, IF depth = 1 THEN "resumed" ELSE "initialized")
  /\ UNCHANGED <<managerVars, kind, conn, status, named, starts, lives>>
StartDone(t) ==
  /\ pc[t] = "onStart"
  /\ status' = "started"
  /\ Unblock
  /\ Goto(t, IF depth = 1 THEN "resumed" ELSE "initialized")
  /\ UNCHANGED <<managerVars, kind, conn, named, starts, lives>>

(* The callback of setName() has run. *)
NameDone(t) ==
  /\ pc[t] = "initialized"
  /\ Unblock
  /\ Goto(t, "resumed")
  /\ UNCHANGED <<managerVars, kind, conn, status, named, starts, lives>>

(* The object's memory is lost, and with it every task and every socket    *)
(* that is not hibernating.                                                *)
Reset ==
  /\ lives < MaxLives
  /\ lives' = lives + 1
  /\ status' = "zero" /\ named' = FALSE /\ starts' = 0
  /\ gate' = None /\ depth' = 0
  /\ pc' = [t \in Task |-> "idle"]
  /\ UNCHANGED <<kind, conn>>
  /\ ForgetConnections

(* onStart() throws inside blockConcurrencyWhile, or the platform resets   *)
(* the object: its connections break.                                      *)
Crash ==
  /\ Reset
  /\ sock' = [c \in Conn |-> IF c \in PlatformSockets THEN "closed" ELSE sock[c]]

(* An idle object leaves memory; its sockets stay only when they hibernate. *)
Evict ==
  /\ status = "started" /\ \A t \in Task : pc[t] = "idle"
  /\ hibernate \/ PlatformSockets = {}
  /\ Reset
  /\ UNCHANGED sock

-----------------------------------------------------------------------------
(* The handler goes on and calls the program's method.  A hibernated event *)
(* looks at #status once more, and would start the object again.           *)
Resume(t, place) == Goto(t, place) /\ UNCHANGED lifeVars

CallHook(t) ==
  /\ pc[t] = "resumed"
  /\ UNCHANGED <<managerVars, kind, conn>>
  /\ \/ kind[t] = "request" /\ Resume(t, "onRequest")
     \/ kind[t] = "setName" /\ Resume(t, "idle")
     \/ kind[t] = "connect" /\ Resume(t, "tags")
     \/ kind[t] = "alarm" /\ Resume(t, "onAlarm")
     \/ /\ kind[t] \in {"message", "close"}
        /\ IF hibernate /\ status /= "started"
           THEN Initialize(t) /\ UNCHANGED <<named, lives>>
           ELSE Resume(t, IF kind[t] = "message" THEN "onMessage" ELSE "onClose")

(* getConnectionTags() resolves: the connection is accepted, its events    *)
(* are handled from now on, and onConnect() is called.                     *)
TagsDone(t) ==
  /\ pc[t] = "tags"
  /\ \E c \in Conn : conn[t] = c /\ Accept(c)
  /\ Goto(t, "onConnect")
  /\ UNCHANGED <<kind, conn, lifeVars>>

(* getConnectionTags() throws: an error is returned, nothing is accepted. *)
TagsThrow(t) ==
  /\ pc[t] = "tags"
  /\ \E c \in Conn : conn[t] = c /\ Refuse(c)
  /\ Goto(t, "idle")
  /\ UNCHANGED <<kind, conn, lifeVars>>

(* A method of the program returns or throws; either way it is answered.   *)
HookDone(t) ==
  /\ pc[t] \in Hooks \ {"tags"}
  /\ Goto(t, "idle")
  /\ UNCHANGED <<managerVars, kind, conn, lifeVars>>

(* The client or the program begins to close a connection. *)
Closing(c) ==
  /\ gate = None
  /\ BeginClose(c)
  /\ UNCHANGED <<taskVars, lifeVars>>

-----------------------------------------------------------------------------

Init ==
  /\ ManagerInit
  /\ status = "zero" /\ named = FALSE /\ gate = None /\ depth = 0
  /\ pc = [t \in Task |-> "idle"]
  /\ kind = [t \in Task |-> "request"]
  /\ conn = [t \in Task |-> None]
  /\ starts = 0 /\ lives = 1

Arrivals(t) ==
  \/ ArriveRequest(t) \/ ArriveSetName(t) \/ ArriveAlarm(t)
  \/ \E c \in Conn :
       ArriveConnect(t, c) \/ \E k \in {"message", "close"} : ArriveFromSocket(t, c, k)

Events(t) ==
  \/ Request(t) \/ Alarm(t)
  \/ HibernatedMessage(t) \/ HibernatedClose(t)
  \/ InMemoryMessage(t) \/ InMemoryClose(t)

Steps(t) ==
  \/ NameCallback(t) \/ StartDone(t) \/ NameDone(t)
  \/ CallHook(t) \/ TagsDone(t) \/ TagsThrow(t) \/ HookDone(t)

Next ==
  \/ \E t \in Task : Arrivals(t) \/ Events(t) \/ Steps(t)
  \/ \E c \in Conn : Closing(c)
  \/ Crash \/ Evict

Spec == Init /\ [][Next]_vars

-----------------------------------------------------------------------------
(***************************************************************************)
(* Properties.                                                             *)
(***************************************************************************)

(* No method of the program runs before onStart() has resolved: neither    *)
(* messages nor requests are processed (tests/index.test.ts:55), whichever *)
(* event starts the object and however many are waiting.                   *)
HooksAfterStart == \A t \in Task : pc[t] \in Hooks => status = "started"

(* onStart() runs once in each life of the object. *)
StartsOnce == starts <= 1 /\ (status = "started" => starts = 1)

(* Every hook but onAlarm() finds a name (fetch, setName). *)
HooksAreNamed ==
  \A t \in Task : pc[t] \in Hooks /\ kind[t] /= "alarm" => named

(* Every event is answered at last, unless the object resets, one that     *)
(* arrived while onStart() was awaited included: the callback of           *)
(* #initialize() that setName() waits for inside its own is let in, both   *)
(* end, and no handler starts the object again and again.                  *)
Fairness == \A t \in Task : WF_vars(Events(t) \/ Steps(t))
LiveSpec == Spec /\ Fairness
EveryEventAnswered == \A t \in Task : pc[t] /= "idle" ~> pc[t] = "idle"

(* ".name is available inside onStart" (tests/index.test.ts:95). *)
NameInOnStart == \A t \in Task : pc[t] = "onStart" => named
=============================================================================
