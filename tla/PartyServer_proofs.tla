-------------------------- MODULE PartyServer_proofs --------------------------
(***************************************************************************)
(* Proofs about PartyServer: how an object starts and which connections    *)
(* its manager knows, for any number of events in flight, connections,     *)
(* clients that come back and restarts.                                    *)
(***************************************************************************)
EXTENDS PartyServer, TLAPS

(* The part of the type invariant that the argument needs. *)
LifeTypeOK ==
  /\ status \in {"zero", "starting", "started"}
  /\ gate \in Task \cup {None}
  /\ depth \in 0 .. 2
  /\ pc \in [Task -> Places]
  /\ kind \in [Task -> Kinds]
  /\ starts \in 0 .. 2

(* Where a task is when it is past what starts the object. *)
Past == {"resumed"} \cup Hooks

(* The gate is held by the one task that is inside a callback, with a      *)
(* depth that says in which; onStart() has been called once when it has    *)
(* been called; every task past the callbacks runs in a started object,    *)
(* with a name unless it is an alarm.                                      *)
LifeInv ==
  /\ LifeTypeOK
  /\ gate = None <=> depth = 0
  /\ \A t \in Task : pc[t] \in Inside <=> gate = t
  /\ gate = None => status /= "starting" /\ (status = "zero" => ~named)
  /\ status = "zero" => starts = 0
  /\ status /= "zero" => starts = 1
  /\ \A t \in Task : pc[t] = "setName" => depth = 1 /\ status = "zero"
  /\ \A t \in Task : pc[t] = "onStart" => status = "starting"
  /\ \A t \in Task : pc[t] = "initialized" => depth = 1 /\ status = "started"
  /\ \A t \in Task : pc[t] \in Past => status = "started"
  /\ \A t \in Task : pc[t] \in Inside \cup Past /\ kind[t] /= "alarm" => named

(* An alarm is about no connection. *)
AlarmAlone ==
  /\ conn \in [Task -> Conn \cup {None}]
  /\ \A t \in Task : kind[t] = "alarm" => conn[t] = None

(* In-memory connections live in a started object that has a name, so      *)
(* their listeners need not look.                                          *)
StartedForSockets ==
  ~hibernate /\ PlatformSockets /= {} => status = "started" /\ named

(* A new object has no task and was never started. *)
LEMMA LifeInit == Init => LifeInv
<1> SUFFICES ASSUME Init PROVE LifeInv
  OBVIOUS
<1>1. \A t \in Task : pc[t] = "idle" /\ t /= None
  BY ServerAssumption DEF Init
<1>2. LifeTypeOK
  BY DEF Init, LifeTypeOK, Places, Hooks, Inside, Kinds
<1>3. QED BY <1>1, <1>2 DEF Init, LifeInv, Inside, Past, Hooks

(* Where the tasks are after one of them has moved. *)
LEMMA GotoEffect ==
  ASSUME LifeTypeOK, NEW t \in Task, NEW place \in Places, Goto(t, place)
  PROVE  /\ pc' \in [Task -> Places]
         /\ pc'[t] = place
         /\ \A u \in Task \ {t} : pc'[u] = pc[u]
BY DEF Goto, LifeTypeOK

(* An event arrives for an idle task. *)
LEMMA ArriveEffect ==
  ASSUME LifeInv, NEW t \in Task, NEW k \in Kinds, NEW c, Arrive(t, k, c)
  PROVE  LifeInv'
<1>1. /\ kind' \in [Task -> Kinds]
      /\ \A u \in Task \ {t} : kind'[u] = kind[u]
      /\ pc[t] = "idle" /\ Goto(t, "arrived")
      /\ UNCHANGED <<status, named, gate, depth, starts>>
  BY DEF Arrive, LifeInv, LifeTypeOK, lifeVars
<1>2. /\ pc' \in [Task -> Places] /\ pc'[t] = "arrived"
      /\ \A u \in Task \ {t} : pc'[u] = pc[u]
  BY <1>1, GotoEffect DEF LifeInv, Places
<1>3. LifeTypeOK'
  BY <1>1, <1>2 DEF LifeInv, LifeTypeOK
<1>4. QED BY <1>1, <1>2, <1>3 DEF LifeInv, Inside, Past, Hooks

(* setName() asks for its callback. *)
LEMMA AskEffect ==
  ASSUME LifeInv, NEW t \in Task, pc[t] = "arrived", gate = None, Block(t),
         Goto(t, "setName"), UNCHANGED <<kind, status, starts>>,
         status /= "started", named'
  PROVE  LifeInv'
<1>1. depth = 0 /\ status = "zero" /\ t /= None
  BY ServerAssumption DEF LifeInv, LifeTypeOK
<1>2. gate' = t /\ depth' = 1
  BY <1>1 DEF Block
<1>3. /\ pc' \in [Task -> Places] /\ pc'[t] = "setName"
      /\ \A u \in Task \ {t} : pc'[u] = pc[u]
  BY GotoEffect DEF LifeInv, Places, Inside
<1>4. \A u \in Task : pc[u] \notin Inside \cup Past
  BY <1>1, ServerAssumption DEF LifeInv, LifeTypeOK
<1>5. LifeTypeOK'
  BY <1>2, <1>3 DEF LifeInv, LifeTypeOK
<1>6. "setName" \in Inside /\ "setName" \notin Past
  BY DEF Inside, Past, Hooks
<1>7. \A u \in Task \ {t} : pc'[u] \notin Inside \cup Past
  BY <1>3, <1>4
<1>8. \A u \in Task \ {t} : pc'[u] \notin {"setName", "onStart", "initialized"}
  BY <1>7 DEF Inside
<1>9. QED BY <1>1, <1>2, <1>3, <1>5, <1>6, <1>7, <1>8 DEF LifeInv

(* #initialize() is called, by an alarm or in the callback of setName().   *)
LEMMA InitializeEffect ==
  ASSUME LifeInv, NEW t \in Task, Initialize(t), UNCHANGED <<kind, named>>,
         status = "zero",
         (pc[t] = "arrived" /\ gate = None /\ kind[t] = "alarm") \/ pc[t] = "setName"
  PROVE  LifeInv'
<1>1. /\ gate' = t /\ depth' = depth + 1 /\ status' = "starting" /\ starts' = 1
      /\ Goto(t, "onStart") /\ t /= None /\ depth \in {0, 1}
  BY ServerAssumption DEF Initialize, Block, LifeInv, LifeTypeOK
<1>2. /\ pc' \in [Task -> Places] /\ pc'[t] = "onStart"
      /\ \A u \in Task \ {t} : pc'[u] = pc[u]
  BY <1>1, GotoEffect DEF LifeInv, Places, Inside
<1>3. \A u \in Task \ {t} : pc'[u] \notin Inside
  BY <1>1, <1>2, ServerAssumption DEF LifeInv, Initialize, Block
<1>4. \A u \in Task \ {t} : pc'[u] \notin Past
  BY <1>2 DEF LifeInv
<1>5. kind[t] /= "alarm" => named
  BY DEF LifeInv, Inside
<1>6. LifeTypeOK'
  BY <1>1, <1>2 DEF LifeInv, LifeTypeOK
<1>7. "onStart" \in Inside /\ "onStart" \notin Past
  BY DEF Inside, Past, Hooks
<1>8. \A u \in Task \ {t} : pc'[u] \notin {"setName", "onStart", "initialized"}
  BY <1>3 DEF Inside
<1>9. QED BY <1>1, <1>2, <1>3, <1>4, <1>5, <1>6, <1>7, <1>8 DEF LifeInv

(* A task moves on inside a started object, or ends. *)
LEMMA MoveEffect ==
  ASSUME LifeInv, NEW t \in Task, NEW place \in Past \cup {"idle"},
         pc[t] \notin Inside, status = "started", Goto(t, place),
         UNCHANGED <<kind, status, starts, gate, depth>>,
         named => named', kind[t] /= "alarm" /\ place /= "idle" => named'
  PROVE  LifeInv'
<1>1. place \in Places /\ place \notin Inside
  BY DEF Places, Past, Inside, Hooks
<1>2. /\ pc' \in [Task -> Places] /\ pc'[t] = place
      /\ \A u \in Task \ {t} : pc'[u] = pc[u]
  BY <1>1, GotoEffect DEF LifeInv
<1>3. LifeTypeOK'
  BY <1>2 DEF LifeInv, LifeTypeOK
<1>4. place \notin {"setName", "onStart", "initialized"} /\ "idle" \notin Past
  BY <1>1 DEF Inside, Past, Hooks
<1>5. QED BY <1>1, <1>2, <1>3, <1>4 DEF LifeInv

(* A callback has run: of #initialize(), or the one of setName() around it. *)
LEMMA UnblockEffect ==
  ASSUME LifeInv, NEW t \in Task, Unblock, UNCHANGED <<kind, named, starts>>,
         status' = "started", pc[t] \in {"onStart", "initialized"},
         Goto(t, IF depth = 1 THEN "resumed" ELSE "initialized")
  PROVE  LifeInv'
<1>1. /\ gate = t /\ t /= None /\ depth \in {1, 2} /\ starts = 1
  BY ServerAssumption DEF LifeInv, LifeTypeOK, Inside
<1>2. /\ depth' = depth - 1 /\ gate' = IF depth = 1 THEN None ELSE t
  BY <1>1 DEF Unblock
<1>3. /\ pc' \in [Task -> Places]
      /\ pc'[t] = IF depth = 1 THEN "resumed" ELSE "initialized"
      /\ \A u \in Task \ {t} : pc'[u] = pc[u]
  BY GotoEffect DEF LifeInv, Places, Inside
<1>4. \A u \in Task \ {t} : pc'[u] \notin Inside /\ u /= None
  BY <1>1, <1>3, ServerAssumption DEF LifeInv
<1>5. LifeTypeOK'
  BY <1>1, <1>2, <1>3 DEF LifeInv, LifeTypeOK
<1>6. "initialized" \in Inside /\ "initialized" \notin Past /\ "resumed" \notin Inside
  BY DEF Inside, Past, Hooks
<1>7. \A u \in Task \ {t} : pc'[u] \notin {"setName", "onStart", "initialized"}
  BY <1>4 DEF Inside
<1>8. kind[t] /= "alarm" => named
  BY DEF LifeInv, Inside
<1>9. QED BY <1>1, <1>2, <1>3, <1>4, <1>5, <1>6, <1>7, <1>8 DEF LifeInv

(* After a reset there is nothing left. *)
LEMMA ResetEffect == LifeInv /\ Reset => LifeInv'
<1> SUFFICES ASSUME LifeInv, Reset PROVE LifeInv'
  OBVIOUS
<1>1. /\ status' = "zero" /\ gate' = None /\ depth' = 0 /\ starts' = 0 /\ ~named'
      /\ pc' = [t \in Task |-> "idle"] /\ kind' = kind
  BY DEF Reset
<1>2. \A t \in Task : pc'[t] = "idle" /\ t /= None
  BY <1>1, ServerAssumption
<1>3. LifeTypeOK'
  BY <1>1 DEF LifeInv, LifeTypeOK, Places
<1>4. QED BY <1>1, <1>2, <1>3 DEF LifeInv, Inside, Past, Hooks

(* An event is delivered to a task, while no callback runs.                *)
LEMMA DeliverEffect ==
  ASSUME LifeInv, NEW t \in Task, NEW k, Deliver(t, k)
  PROVE  /\ pc[t] = "arrived" /\ pc[t] \notin Inside /\ kind[t] = k /\ gate = None
         /\ status = "zero" \/ status = "started"
         /\ status = "zero" => ~named
         /\ kind' = kind
BY DEF Deliver, LifeInv, LifeTypeOK, Inside

(* setName(), called by an event that is no alarm. *)
LEMMA SetNameEffect ==
  ASSUME LifeInv, NEW t \in Task, NEW k, Deliver(t, k), SetName(t)
  PROVE  LifeInv'
<1>1. CASE status /= "started"
  BY <1>1, DeliverEffect, AskEffect DEF SetName
<1>2. CASE status = "started"
  BY <1>2, DeliverEffect, MoveEffect DEF SetName, Past, gateVars
<1>3. QED BY <1>1, <1>2

(* Every step of the server preserves the invariant. *)
LEMMA LifeStep == LifeInv /\ StartedForSockets /\ [Next]_vars => LifeInv'
<1> SUFFICES ASSUME LifeInv, StartedForSockets, [Next]_vars PROVE LifeInv'
  OBVIOUS
<1>1. ASSUME NEW t \in Task, Arrivals(t) PROVE LifeInv'
  <2>1. \E k \in Kinds, c \in Conn \cup {None} : Arrive(t, k, c)
    BY <1>1 DEF Arrivals, ArriveRequest, ArriveSetName, ArriveAlarm, ArriveConnect,
       ArriveFromSocket, Kinds
  <2>2. QED BY <2>1, ArriveEffect
<1>2. ASSUME NEW t \in Task, Events(t) PROVE LifeInv'
  <2>1. CASE Request(t)
    <3>1. PICK k : Deliver(t, k)
      BY <2>1 DEF Request
    <3>2. CASE ~named
      BY <2>1, <3>1, <3>2, SetNameEffect DEF Request, Fetch
    <3>3. CASE named
      <4>1. status = "started" /\ Goto(t, "resumed")
            /\ UNCHANGED <<status, named, starts, gate, depth>>
        BY <2>1, <3>1, <3>3, DeliverEffect DEF Request, Fetch, gateVars
      <4>2. QED BY <3>1, <3>3, <4>1, DeliverEffect, MoveEffect DEF Past
    <3>4. QED BY <3>2, <3>3
  <2>2. CASE HibernatedMessage(t) \/ HibernatedClose(t)
    <3>1. SetName(t) /\ \E k : Deliver(t, k)
      BY <2>2 DEF HibernatedMessage, HibernatedClose
    <3>2. QED BY <3>1, SetNameEffect
  <2>3. CASE InMemoryMessage(t) \/ InMemoryClose(t)
    <3>1. PICK k : Deliver(t, k)
      BY <2>3 DEF InMemoryMessage, InMemoryClose
    <3>2. /\ ~hibernate /\ PlatformSockets /= {}
          /\ UNCHANGED <<status, named, starts, gate, depth>>
      BY <2>3 DEF InMemoryMessage, InMemoryClose, SocketGone, PlatformSockets, gateVars
    <3>3. \E place \in Past \cup {"idle"} : Goto(t, place)
      BY <2>3 DEF InMemoryMessage, InMemoryClose, Past, Hooks
    <3>4. QED
      BY <3>1, <3>2, <3>3, DeliverEffect, MoveEffect DEF StartedForSockets
  <2>4. CASE Alarm(t)
    <3>1. Deliver(t, "alarm") /\ Hydrate(t) /\ UNCHANGED named
      BY <2>4 DEF Alarm
    <3>2. CASE status /= "started"
      BY <3>1, <3>2, DeliverEffect, InitializeEffect DEF Hydrate
    <3>3. CASE status = "started"
      BY <3>1, <3>3, DeliverEffect, MoveEffect DEF Hydrate, Past, gateVars
    <3>4. QED BY <3>2, <3>3
  <2>5. QED BY <1>2, <2>1, <2>2, <2>3, <2>4 DEF Events
<1>3. ASSUME NEW t \in Task, Steps(t) PROVE LifeInv'
  <2>1. CASE NameCallback(t)
    <3>1. status = "zero"
      BY <2>1 DEF NameCallback, LifeInv
    <3>2. QED BY <2>1, <3>1, InitializeEffect DEF NameCallback
  <2>2. CASE StartDone(t)
    BY <2>2, UnblockEffect DEF StartDone
  <2>3. CASE NameDone(t)
    <3>1. depth = 1 /\ status = "started" /\ pc[t] = "initialized"
      BY <2>3 DEF NameDone, LifeInv
    <3>2. QED BY <2>3, <3>1, UnblockEffect DEF NameDone
  <2>4. CASE CallHook(t)
    <3>1. pc[t] = "resumed" /\ status = "started" /\ pc[t] \notin Inside
      BY <2>4 DEF CallHook, LifeInv, Past, Inside
    <3>2. /\ UNCHANGED <<kind, status, named, starts, gate, depth>>
          /\ \E place \in Past \cup {"idle"} : Goto(t, place)
      BY <2>4, <3>1 DEF CallHook, Resume, lifeVars, Past, Hooks
    <3>3. kind[t] /= "alarm" => named
      BY <3>1 DEF LifeInv, Past
    <3>4. QED BY <3>1, <3>2, <3>3, MoveEffect
  <2>5. CASE TagsDone(t) \/ TagsThrow(t) \/ HookDone(t)
    <3>1. pc[t] \in Past /\ pc[t] \notin Inside
      BY <2>5 DEF TagsDone, TagsThrow, HookDone, Hooks, Past, Inside
    <3>2. status = "started" /\ (kind[t] /= "alarm" => named)
      BY <3>1 DEF LifeInv
    <3>3. /\ UNCHANGED <<kind, status, named, starts, gate, depth>>
          /\ \E place \in Past \cup {"idle"} : Goto(t, place)
      BY <2>5 DEF TagsDone, TagsThrow, HookDone, lifeVars, Past, Hooks
    <3>4. QED BY <3>1, <3>2, <3>3, MoveEffect
  <2>6. QED BY <1>3, <2>1, <2>2, <2>3, <2>4, <2>5 DEF Steps
<1>4. ASSUME UNCHANGED <<taskVars, lifeVars>> PROVE LifeInv'
  BY <1>4 DEF taskVars, lifeVars, LifeInv, LifeTypeOK
<1>5. ASSUME NEW c \in Conn, Closing(c) PROVE LifeInv'
  BY <1>4, <1>5 DEF Closing
<1>6. CASE Crash \/ Evict
  BY <1>6, ResetEffect DEF Crash, Evict
<1>7. CASE UNCHANGED vars
  BY <1>4, <1>7 DEF vars
<1>8. QED BY <1>1, <1>2, <1>3, <1>5, <1>6, <1>7 DEF Next

(* What a step does to the managers, the tasks' connections and the name;  *)
(* the later arguments need no more of it.                                 *)
LEMMA StepKinds ==
  ASSUME [Next]_vars
  PROVE  \/ UNCHANGED managerVars
         \/ \E t \in Task, c \in Conn : pc[t] = "arrived" /\ SocketGone(c)
         \/ \E t \in Task, c \in Conn : TagsDone(t) /\ conn[t] = c /\ Accept(c)
         \/ \E c \in Conn : Refuse(c) \/ BeginClose(c)
         \/ Crash \/ Evict
<1>1. ASSUME NEW t \in Task, Arrivals(t) PROVE UNCHANGED managerVars
  BY <1>1 DEF Arrivals, ArriveRequest, ArriveSetName, ArriveAlarm, ArriveConnect,
     ArriveFromSocket, Arrive
<1>2. ASSUME NEW t \in Task, Events(t)
      PROVE  UNCHANGED managerVars \/ \E c \in Conn : pc[t] = "arrived" /\ SocketGone(c)
  BY <1>2 DEF Events, Request, Alarm, HibernatedMessage, HibernatedClose,
     InMemoryMessage, InMemoryClose, Deliver
<1>3. ASSUME NEW t \in Task, Steps(t)
      PROVE  \/ UNCHANGED managerVars
             \/ \E c \in Conn : TagsDone(t) /\ conn[t] = c /\ Accept(c)
             \/ \E c \in Conn : Refuse(c)
  BY <1>3 DEF Steps, NameCallback, StartDone, NameDone, CallHook, TagsDone, TagsThrow,
     HookDone
<1>4. ASSUME NEW c \in Conn, Closing(c) PROVE BeginClose(c)
  BY <1>4 DEF Closing
<1>5. UNCHANGED vars => UNCHANGED managerVars
  BY DEF vars
<1>6. QED BY <1>1, <1>2, <1>3, <1>4, <1>5 DEF Next

(* Only an event that arrives says what a task is about. *)
LEMMA AloneStep == LifeInv /\ AlarmAlone /\ [Next]_vars => AlarmAlone'
<1> SUFFICES ASSUME LifeInv, AlarmAlone, [Next]_vars PROVE AlarmAlone'
  OBVIOUS
<1>1. ASSUME UNCHANGED <<kind, conn>> PROVE AlarmAlone'
  BY <1>1 DEF AlarmAlone
<1>2. ASSUME NEW t \in Task, NEW k, NEW c \in Conn \cup {None}, Arrive(t, k, c),
             k = "alarm" => c = None
      PROVE  AlarmAlone'
  <2>1. kind \in [Task -> Kinds]
    BY DEF LifeInv, LifeTypeOK
  <2>2. /\ kind'[t] = k /\ \A u \in Task \ {t} : kind'[u] = kind[u]
        /\ conn'[t] = c /\ \A u \in Task \ {t} : conn'[u] = conn[u]
        /\ conn' \in [Task -> Conn \cup {None}]
    BY <1>2, <2>1 DEF AlarmAlone, Arrive
  <2>3. QED BY <1>2, <2>2 DEF AlarmAlone
<1>3. ASSUME NEW t \in Task, Arrivals(t) PROVE AlarmAlone'
  <2>1. \E k \in Kinds, c \in Conn \cup {None} :
          Arrive(t, k, c) /\ (k = "alarm" => c = None)
    BY <1>3 DEF Arrivals, ArriveRequest, ArriveSetName, ArriveAlarm, ArriveConnect,
       ArriveFromSocket, Kinds
  <2>2. QED BY <1>2, <2>1
<1>4. ASSUME NEW t \in Task, Events(t) \/ Steps(t) PROVE UNCHANGED <<kind, conn>>
  BY <1>4 DEF Events, Request, Alarm, HibernatedMessage, HibernatedClose,
     InMemoryMessage, InMemoryClose, Deliver, Steps, NameCallback, StartDone, NameDone,
     CallHook, TagsDone, TagsThrow, HookDone
<1>5. QED
  BY <1>1, <1>3, <1>4 DEF Next, Closing, Crash, Evict, Reset, vars, taskVars

(* An object stays started, and named, until it is reset. *)
LEMMA StaysStarted ==
  ASSUME LifeInv, status = "started", named, [Next]_vars
  PROVE  (status' = "started" /\ named') \/ Crash \/ Evict
<1>1. ASSUME NEW t \in Task, Arrivals(t) PROVE status' = "started" /\ named'
  BY <1>1 DEF Arrivals, ArriveRequest, ArriveSetName, ArriveAlarm, ArriveConnect,
     ArriveFromSocket, Arrive, lifeVars
<1>2. ASSUME NEW t \in Task, Events(t) PROVE status' = "started" /\ named'
  BY <1>2 DEF Events, Request, Alarm, HibernatedMessage, HibernatedClose,
     InMemoryMessage, InMemoryClose, Fetch, SetName, Hydrate
<1>3. ASSUME NEW t \in Task, Steps(t) PROVE status' = "started" /\ named'
  <2>1. pc[t] /= "setName"
    BY DEF LifeInv
  <2>2. QED
    BY <1>3, <2>1 DEF Steps, NameCallback, StartDone, NameDone, CallHook, Resume,
       TagsDone, TagsThrow, HookDone, lifeVars
<1>4. CASE (\E c \in Conn : Closing(c)) \/ UNCHANGED vars
  BY <1>4 DEF Closing, vars, lifeVars
<1>5. QED BY <1>1, <1>2, <1>3, <1>4 DEF Next

(* static options are those of the class: no step changes them. *)
LEMMA HibernateFixed == [Next]_vars => UNCHANGED hibernate
<1> SUFFICES ASSUME [Next]_vars PROVE UNCHANGED hibernate
  OBVIOUS
<1>1. QED
  BY StepKinds DEF managerVars, SocketGone, Accept, Refuse, BeginClose, Crash, Evict,
     Reset, ForgetConnections

(* A socket is accepted by a task that is past onStart() and is no alarm.  *)
LEMMA SocketsStep ==
  LifeInv /\ AlarmAlone /\ StartedForSockets /\ [Next]_vars => StartedForSockets'
<1> SUFFICES ASSUME LifeInv, AlarmAlone, StartedForSockets, [Next]_vars,
                    ~hibernate, PlatformSockets' /= {}
             PROVE  status' = "started" /\ named'
  BY HibernateFixed DEF StartedForSockets
<1>1. CASE Crash
  <2>1. sock' = [c \in Conn |-> IF c \in PlatformSockets THEN "closed" ELSE sock[c]]
    BY <1>1 DEF Crash
  <2>2. PlatformSockets' = {}
    BY <2>1 DEF PlatformSockets
  <2>3. QED BY <2>2
<1>2. CASE Evict
  BY <1>2 DEF Evict, PlatformSockets
<1>3. CASE PlatformSockets /= {} /\ ~Crash /\ ~Evict
  <2>1. status = "started" /\ named
    BY <1>3 DEF StartedForSockets
  <2>2. QED BY <1>3, <2>1, StaysStarted
<1>4. ASSUME NEW t \in Task, TagsDone(t) PROVE status' = "started" /\ named'
  <2>1. pc[t] = "tags" /\ kind[t] /= "alarm"
    BY <1>4, ServerAssumption DEF TagsDone, AlarmAlone
  <2>2. status = "started" /\ named
    BY <2>1 DEF LifeInv, Past, Hooks
  <2>3. QED BY <1>4, <2>2 DEF TagsDone, lifeVars
<1>5. ASSUME PlatformSockets = {}, \A t \in Task : ~TagsDone(t), ~Crash, ~Evict
      PROVE  FALSE
  <2>1. ASSUME UNCHANGED sock PROVE FALSE
    BY <1>5, <2>1 DEF PlatformSockets
  <2>2. ASSUME NEW c \in Conn, SocketGone(c) \/ BeginClose(c) PROVE FALSE
    BY <1>5, <2>2 DEF SocketGone, BeginClose, PlatformSockets
  <2>3. ASSUME NEW c \in Conn, Refuse(c) PROVE FALSE
    <3>1. sock' = [sock EXCEPT ![c] = "closed"]
      BY <2>3 DEF Refuse
    <3>2. PlatformSockets' \subseteq PlatformSockets
      BY <3>1 DEF PlatformSockets
    <3>3. QED BY <1>5, <3>2
  <2>4. QED BY <1>5, <2>1, <2>2, <2>3, StepKinds DEF managerVars
<1>6. QED BY <1>1, <1>2, <1>3, <1>4, <1>5

(* Together the three invariants are inductive. *)
LEMMA LifeInvCorrect == Spec => []LifeInv
<1>1. Init => AlarmAlone
  BY DEF Init, AlarmAlone
<1>2. Init => StartedForSockets
  BY DEF Init, ManagerInit, StartedForSockets, PlatformSockets
<1>3. QED
  BY <1>1, <1>2, LifeInit, LifeStep, AloneStep, SocketsStep, PTL DEF Spec

(* Nothing of the program runs before onStart() has resolved, whichever    *)
(* events arrive together and however often the object is reset.           *)
THEOREM NothingBeforeStart == Spec => []HooksAfterStart
<1>1. LifeInv => HooksAfterStart
  BY DEF LifeInv, HooksAfterStart, Past
<1>2. QED BY <1>1, LifeInvCorrect, PTL

(* onStart() runs once in each life of the object. *)
THEOREM StartedOnce == Spec => []StartsOnce
<1>1. LifeInv => StartsOnce
  BY DEF LifeInv, LifeTypeOK, StartsOnce
<1>2. QED BY <1>1, LifeInvCorrect, PTL

(* Every hook but onAlarm() finds the name of the object. *)
THEOREM HooksFindName == Spec => []HooksAreNamed
<1>1. LifeInv => HooksAreNamed
  BY DEF LifeInv, HooksAreNamed, Past
<1>2. QED BY <1>1, LifeInvCorrect, PTL

-----------------------------------------------------------------------------
(* What is left of the type invariant: the managers, and what tasks are    *)
(* about.                                                                  *)
RestTypeOK ==
  ManagerTypeOK /\ named \in BOOLEAN /\ conn \in [Task -> Conn \cup {None}]
    /\ lives \in 1 .. MaxLives

(* What changes a manager keeps its types. *)
LEMMA ManagerType ==
  ASSUME ManagerTypeOK, NEW c \in Conn,
         Accept(c) \/ Refuse(c) \/ BeginClose(c) \/ SocketGone(c)
  PROVE  ManagerTypeOK'
<1>1. IdOf[c] \in Id /\ SameId(c) \subseteq Conn
  BY ManagerAssumption DEF SameId, PlatformSockets
<1>2. CASE Accept(c)
  <2>1. /\ sock' = [sock EXCEPT ![c] = "open"] /\ UNCHANGED hibernate
        /\ overlapped' \subseteq Conn
    BY <1>1, <1>2 DEF Accept, ManagerTypeOK
  <2>2. CASE hibernate
    BY <1>2, <2>1, <2>2 DEF Accept, ManagerTypeOK
  <2>3. CASE ~hibernate
    <3>1. byId' = Registered(c) /\ removers' = removers \cup {c}
      BY <1>2, <2>3 DEF Accept
    <3>2. /\ DOMAIN byId' \subseteq Id
          /\ \A i \in DOMAIN byId' : byId'[i] \in Conn
      BY <1>1, <3>1 DEF Registered, ManagerTypeOK
    <3>3. QED BY <2>1, <3>1, <3>2 DEF ManagerTypeOK
  <2>4. QED BY <2>2, <2>3
<1>3. CASE Refuse(c) \/ BeginClose(c)
  BY <1>3 DEF Refuse, BeginClose, ManagerTypeOK
<1>4. CASE SocketGone(c)
  <2>1. /\ sock' = [sock EXCEPT ![c] = "closed"] /\ UNCHANGED hibernate
        /\ overlapped' \subseteq Conn
    BY <1>1, <1>4 DEF SocketGone, ManagerTypeOK
  <2>2. CASE c \in removers
    <3>1. byId' = Unregistered(c) /\ removers' = removers \ {c}
      BY <1>4, <2>2 DEF SocketGone
    <3>2. /\ DOMAIN byId' \subseteq Id
          /\ \A i \in DOMAIN byId' : byId'[i] \in Conn
      BY <3>1 DEF Unregistered, Restrict, ManagerTypeOK
    <3>3. QED BY <2>1, <3>1, <3>2 DEF ManagerTypeOK
  <2>3. CASE c \notin removers
    BY <1>4, <2>1, <2>3 DEF SocketGone, ManagerTypeOK
  <2>4. QED BY <2>2, <2>3
<1>5. QED BY <1>2, <1>3, <1>4

(* What a reset leaves of the managers. *)
LEMMA ResetManager ==
  ASSUME [Next]_vars, Crash \/ Evict
  PROVE  /\ byId' = <<>> /\ DOMAIN byId' = {}
         /\ removers' = {} /\ overlapped' = {} /\ UNCHANGED hibernate
<1>1. byId' = <<>> /\ removers' = {} /\ overlapped' = {} /\ UNCHANGED hibernate
  BY DEF Crash, Evict, Reset, ForgetConnections
<1>2. QED BY <1>1

(* The name, the tasks' connections and the number of lives keep their     *)
(* types.                                                                  *)
LEMMA TaskTypes ==
  ASSUME RestTypeOK, [Next]_vars
  PROVE  /\ named' \in BOOLEAN /\ conn' \in [Task -> Conn \cup {None}]
         /\ lives' \in 1 .. MaxLives
<1>1. named \in BOOLEAN /\ conn \in [Task -> Conn \cup {None}] /\ lives \in 1 .. MaxLives
  BY DEF RestTypeOK
<1>2. ASSUME NEW t \in Task, Arrivals(t)
      PROVE  /\ conn' \in [Task -> Conn \cup {None}] /\ UNCHANGED <<named, lives>>
  <2>1. \E k \in Kinds, c \in Conn \cup {None} : Arrive(t, k, c)
    BY <1>2 DEF Arrivals, ArriveRequest, ArriveSetName, ArriveAlarm, ArriveConnect,
       ArriveFromSocket, Kinds
  <2>2. QED BY <1>1, <2>1 DEF Arrive, lifeVars
<1>3. ASSUME NEW t \in Task, Events(t)
      PROVE  UNCHANGED <<conn, lives>> /\ named' \in BOOLEAN
  BY <1>1, <1>3 DEF Events, Request, Alarm, HibernatedMessage, HibernatedClose,
     InMemoryMessage, InMemoryClose, Deliver, Fetch, SetName
<1>4. ASSUME NEW t \in Task, Steps(t) PROVE UNCHANGED <<conn, named, lives>>
  BY <1>4 DEF Steps, NameCallback, StartDone, NameDone, CallHook, Resume, TagsDone,
     TagsThrow, HookDone, lifeVars
<1>5. CASE (\E c \in Conn : Closing(c)) \/ UNCHANGED vars
  BY <1>1, <1>5 DEF Closing, vars, taskVars, lifeVars
<1>6. CASE Crash \/ Evict
  <2>1. Reset
    BY <1>6 DEF Crash, Evict
  <2>2. lives' \in 1 .. MaxLives
    BY <1>1, <2>1, ServerAssumption DEF Reset
  <2>3. QED BY <1>1, <2>1, <2>2 DEF Reset
<1>7. QED BY <1>1, <1>2, <1>3, <1>4, <1>5, <1>6 DEF Next

(* A step keeps the manager's types by what it does to one socket, to all  *)
(* of them, or to none.                                                    *)
LEMMA RestStep == RestTypeOK /\ [Next]_vars => RestTypeOK'
<1> SUFFICES ASSUME RestTypeOK, [Next]_vars PROVE RestTypeOK'
  OBVIOUS
<1>1. ManagerTypeOK
  BY DEF RestTypeOK
<1>2. ASSUME UNCHANGED managerVars PROVE ManagerTypeOK'
  BY <1>1, <1>2 DEF managerVars, ManagerTypeOK
<1>3. CASE Crash \/ Evict
  <2>1. sock' \in [Conn -> {"new", "open", "closing", "closed"}]
    BY <1>1, <1>3 DEF Crash, Evict, ManagerTypeOK
  <2>2. ManagerTypeOK'
    BY <1>1, <1>3, <2>1, ResetManager DEF ManagerTypeOK
  <2>3. QED BY <2>2, TaskTypes DEF RestTypeOK
<1>4. ManagerTypeOK' \/ Crash \/ Evict
  BY <1>1, <1>2, StepKinds, ManagerType
<1>5. QED BY <1>3, <1>4, TaskTypes DEF RestTypeOK

(* Every reachable state of a server is well typed, whatever clients do    *)
(* and however often it is reset.                                          *)
THEOREM TypeCorrect == Spec => []TypeOK
<1>1. Init => RestTypeOK
  <2> SUFFICES ASSUME Init PROVE RestTypeOK
    OBVIOUS
  <2>1. byId = <<>> /\ DOMAIN byId = {}
    BY DEF Init, ManagerInit
  <2>2. 1 \in 1 .. MaxLives
    BY ServerAssumption
  <2>3. QED BY <2>1, <2>2 DEF Init, ManagerInit, RestTypeOK, ManagerTypeOK
<1>2. LifeInv /\ RestTypeOK => TypeOK
  BY DEF LifeInv, LifeTypeOK, RestTypeOK, TypeOK
<1>3. QED BY <1>1, <1>2, RestStep, LifeInvCorrect, PTL DEF Spec

-----------------------------------------------------------------------------
(***************************************************************************)
(* The connections, though a client may come back before its last socket   *)
(* went.                                                                   *)
(***************************************************************************)

(* The sockets that overlapped with no other of their id since they came:  *)
(* what the Map should hold.                                               *)
Undisturbed == PlatformSockets \ overlapped

(* Such sockets have distinct ids; the Map has an entry for each of their  *)
(* ids and no other, and every socket there is still has its listeners.    *)
ConnInv ==
  /\ sock \in [Conn -> {"new", "open", "closing", "closed"}]
  /\ ~hibernate =>
       /\ removers = PlatformSockets
       /\ \A c, d \in Undisturbed : IdOf[c] = IdOf[d] => c = d
       /\ DOMAIN byId = {IdOf[c] : c \in Undisturbed}
       /\ \A c \in Undisturbed : byId[IdOf[c]] = c
  /\ hibernate => removers = {}

(* A new object has no connection. *)
LEMMA ConnInit == Init => ConnInv
<1> SUFFICES ASSUME Init PROVE ConnInv
  OBVIOUS
<1>1. sock = [c \in Conn |-> "new"] /\ byId = <<>> /\ removers = {}
  BY DEF Init, ManagerInit
<1>2. PlatformSockets = {} /\ Undisturbed = {}
  BY <1>1 DEF PlatformSockets, Undisturbed
<1>3. DOMAIN byId = {}
  BY <1>1
<1>4. QED BY <1>1, <1>2, <1>3 DEF ConnInv

(* accept(): the new socket takes the entry of its id from those that have *)
(* it.                                                                     *)
LEMMA AcceptEffect ==
  ASSUME ConnInv, overlapped \subseteq PlatformSockets, NEW c \in Conn, Accept(c)
  PROVE  ConnInv'
<1>1. /\ sock' = [sock EXCEPT ![c] = "open"] /\ sock[c] = "new"
      /\ overlapped' = overlapped \cup SameId(c) /\ UNCHANGED hibernate
  BY DEF Accept
<1>2. /\ PlatformSockets' = PlatformSockets \cup {c} /\ c \notin PlatformSockets
      /\ sock' \in [Conn -> {"new", "open", "closing", "closed"}]
  BY <1>1 DEF ConnInv, PlatformSockets
<1>3. /\ Undisturbed' = {d \in Undisturbed : IdOf[d] /= IdOf[c]} \cup {c}
  BY <1>1, <1>2 DEF Undisturbed, SameId
<1>4. CASE hibernate
  BY <1>1, <1>2, <1>4 DEF ConnInv, Accept
<1>5. CASE ~hibernate
  <2>1. /\ removers' = removers \cup {c}
        /\ byId' = [i \in DOMAIN byId \cup {IdOf[c]} |->
                      IF i = IdOf[c] THEN c ELSE byId[i]]
    BY <1>5 DEF Accept, Registered
  <2>2. /\ DOMAIN byId' = {IdOf[c]} \cup DOMAIN byId
        /\ byId'[IdOf[c]] = c
        /\ \A i \in DOMAIN byId \ {IdOf[c]} : byId'[i] = byId[i]
    BY <2>1
  <2>3. \A d, e \in Undisturbed' : IdOf[d] = IdOf[e] => d = e
    BY <1>3, <1>5 DEF ConnInv
  <2>4. DOMAIN byId' = {IdOf[d] : d \in Undisturbed'}
    BY <1>3, <1>5, <2>2 DEF ConnInv
  <2>5. ASSUME NEW d \in Undisturbed' PROVE byId'[IdOf[d]] = d
    <3>1. CASE d = c BY <2>2, <3>1
    <3>2. CASE d /= c
      <4>1. d \in Undisturbed /\ IdOf[d] \in DOMAIN byId \ {IdOf[c]}
        BY <1>3, <1>5, <3>2 DEF ConnInv
      <4>2. QED BY <1>5, <2>2, <4>1 DEF ConnInv
    <3>3. QED BY <3>1, <3>2
  <2>6. removers' = PlatformSockets'
    BY <1>2, <1>5, <2>1 DEF ConnInv
  <2>7. QED BY <1>1, <1>2, <1>5, <2>3, <2>4, <2>5, <2>6 DEF ConnInv
<1>6. QED BY <1>4, <1>5

(* The close of a socket removes the entry of its id, whichever socket has *)
(* it.                                                                     *)
LEMMA GoneEffect ==
  ASSUME ConnInv, NEW c \in Conn, SocketGone(c)
  PROVE  ConnInv'
<1>1. /\ sock' = [sock EXCEPT ![c] = "closed"] /\ c \in PlatformSockets
      /\ overlapped' = (overlapped \cup SameId(c)) \ {c} /\ UNCHANGED hibernate
  BY DEF SocketGone, PlatformSockets
<1>2. /\ PlatformSockets' = PlatformSockets \ {c}
      /\ sock' \in [Conn -> {"new", "open", "closing", "closed"}]
  BY <1>1 DEF ConnInv, PlatformSockets
<1>3. Undisturbed' = {d \in Undisturbed : IdOf[d] /= IdOf[c]}
  BY <1>1, <1>2 DEF Undisturbed, SameId
<1>4. CASE hibernate
  BY <1>1, <1>2, <1>4 DEF ConnInv, SocketGone
<1>5. CASE ~hibernate
  <2>1. /\ byId' = [i \in DOMAIN byId \ {IdOf[c]} |-> byId[i]]
        /\ removers' = removers \ {c}
    BY <1>1, <1>5 DEF ConnInv, SocketGone, Unregistered, Restrict
  <2>2. /\ DOMAIN byId' = DOMAIN byId \ {IdOf[c]}
        /\ \A i \in DOMAIN byId \ {IdOf[c]} : byId'[i] = byId[i]
    BY <2>1
  <2>3. DOMAIN byId' = {IdOf[d] : d \in Undisturbed'}
    BY <1>3, <1>5, <2>2 DEF ConnInv
  <2>4. ASSUME NEW d \in Undisturbed' PROVE byId'[IdOf[d]] = d
    <3>1. d \in Undisturbed /\ IdOf[d] \in DOMAIN byId \ {IdOf[c]}
      BY <1>3, <1>5 DEF ConnInv
    <3>2. QED BY <1>5, <2>2, <3>1 DEF ConnInv
  <2>5. \A d, e \in Undisturbed' : IdOf[d] = IdOf[e] => d = e
    BY <1>3, <1>5 DEF ConnInv
  <2>6. removers' = PlatformSockets'
    BY <1>2, <1>5, <2>1 DEF ConnInv
  <2>7. QED BY <1>1, <1>2, <1>5, <2>3, <2>4, <2>5, <2>6 DEF ConnInv
<1>6. QED BY <1>4, <1>5

(* A step that leaves the sockets there are, and the Map. *)
LEMMA SameSockets ==
  ASSUME ConnInv, UNCHANGED <<hibernate, byId, removers, overlapped>>,
         PlatformSockets' = PlatformSockets,
         sock' \in [Conn -> {"new", "open", "closing", "closed"}]
  PROVE  ConnInv'
BY DEF ConnInv, Undisturbed

(* Only sockets that are there overlap with others. *)
OverlapInv == overlapped \subseteq PlatformSockets

(* What BeginClose and Refuse leave. *)
LEMMA StillThere ==
  ASSUME ConnInv, NEW c \in Conn, Refuse(c) \/ BeginClose(c)
  PROVE  /\ PlatformSockets' = PlatformSockets
         /\ sock' \in [Conn -> {"new", "open", "closing", "closed"}]
         /\ UNCHANGED <<hibernate, byId, removers, overlapped>>
<1>1. CASE Refuse(c)
  <2>1. /\ sock' = [sock EXCEPT ![c] = "closed"] /\ sock[c] = "new"
        /\ UNCHANGED <<hibernate, byId, removers, overlapped>>
    BY <1>1 DEF Refuse
  <2>2. QED BY <2>1 DEF ConnInv, PlatformSockets
<1>2. CASE BeginClose(c)
  <2>1. /\ sock' = [sock EXCEPT ![c] = "closing"] /\ sock[c] = "open"
        /\ UNCHANGED <<hibernate, byId, removers, overlapped>>
    BY <1>2 DEF BeginClose
  <2>2. QED BY <2>1 DEF ConnInv, PlatformSockets
<1>3. QED BY <1>1, <1>2

(* Every step preserves both. *)
LEMMA ConnStep == ConnInv /\ OverlapInv /\ [Next]_vars => ConnInv' /\ OverlapInv'
<1> SUFFICES ASSUME ConnInv, OverlapInv, [Next]_vars PROVE ConnInv' /\ OverlapInv'
  OBVIOUS
<1>1. CASE UNCHANGED managerVars
  BY <1>1, SameSockets DEF managerVars, PlatformSockets, ConnInv, OverlapInv
<1>2. ASSUME NEW c \in Conn, SocketGone(c) PROVE ConnInv' /\ OverlapInv'
  <2>1. /\ sock' = [sock EXCEPT ![c] = "closed"]
        /\ overlapped' = (overlapped \cup SameId(c)) \ {c}
    BY <1>2 DEF SocketGone
  <2>2. PlatformSockets' = PlatformSockets \ {c}
    BY <2>1 DEF ConnInv, PlatformSockets
  <2>3. OverlapInv'
    BY <2>1, <2>2 DEF OverlapInv, SameId
  <2>4. QED BY <1>2, <2>3, GoneEffect
<1>3. ASSUME NEW c \in Conn, Accept(c) PROVE ConnInv' /\ OverlapInv'
  <2>1. /\ sock' = [sock EXCEPT ![c] = "open"]
        /\ overlapped' = overlapped \cup SameId(c)
    BY <1>3 DEF Accept
  <2>2. PlatformSockets' = PlatformSockets \cup {c}
    BY <2>1 DEF ConnInv, PlatformSockets
  <2>3. OverlapInv'
    BY <2>1, <2>2 DEF OverlapInv, SameId
  <2>4. QED BY <1>3, <2>3, AcceptEffect DEF OverlapInv
<1>4. ASSUME NEW c \in Conn, Refuse(c) \/ BeginClose(c) PROVE ConnInv' /\ OverlapInv'
  BY <1>4, StillThere, SameSockets DEF OverlapInv
<1>5. CASE Crash
  <2>1. PlatformSockets' = {} /\ sock' \in [Conn -> {"new", "open", "closing", "closed"}]
    BY <1>5 DEF Crash, PlatformSockets, ConnInv
  <2>2. QED BY <1>5, <2>1, ResetManager DEF ConnInv, OverlapInv, Undisturbed
<1>6. CASE Evict
  <2>1. PlatformSockets' = PlatformSockets /\ (~hibernate => PlatformSockets = {})
    BY <1>6 DEF Evict, PlatformSockets
  <2>2. sock' = sock
    BY <1>6 DEF Evict
  <2>3. QED BY <1>6, <2>1, <2>2, ResetManager DEF ConnInv, OverlapInv, Undisturbed
<1>7. QED BY <1>1, <1>2, <1>3, <1>4, <1>5, <1>6, StepKinds

(* What the invariant says of the Map. *)
LEMMA RangeExact == ConnInv /\ ~hibernate => Range(byId) = Undisturbed
<1> SUFFICES ASSUME ConnInv, ~hibernate PROVE Range(byId) = Undisturbed
  OBVIOUS
<1>1. Range(byId) = {byId[i] : i \in DOMAIN byId}
  BY DEF Range
<1>2. QED BY <1>1 DEF ConnInv

(* What it says of getConnection() too. *)
LEMMA ConnInvExact == ConnInv => MapIsExact
<1> SUFFICES ASSUME ConnInv PROVE MapIsExact
  OBVIOUS
<1>1. ~hibernate => Range(byId) = PlatformSockets \ overlapped
  BY RangeExact DEF Undisturbed
<1>2. ASSUME NEW c \in Open
      PROVE  /\ hibernate \/ c \notin overlapped => c \in GetConnection(IdOf[c])
             /\ SameId(c) = {} => GetConnection(IdOf[c]) \subseteq {c}
  <2>1. c \in PlatformSockets
    BY DEF Open, PlatformSockets
  <2>2. CASE hibernate
    BY <2>1, <2>2 DEF GetConnection, SameId
  <2>3. CASE ~hibernate
    <3>1. GetConnection(IdOf[c]) = {byId[i] : i \in DOMAIN byId \cap {IdOf[c]}}
      BY <2>3 DEF GetConnection
    <3>2. ASSUME c \notin overlapped PROVE c \in GetConnection(IdOf[c])
      <4>1. c \in Undisturbed
        BY <2>1, <3>2 DEF Undisturbed
      <4>2. IdOf[c] \in DOMAIN byId /\ byId[IdOf[c]] = c
        BY <2>3, <4>1 DEF ConnInv
      <4>3. QED BY <3>1, <4>2
    <3>3. ASSUME SameId(c) = {}, NEW d \in GetConnection(IdOf[c]) PROVE d = c
      <4>1. IdOf[c] \in DOMAIN byId /\ d = byId[IdOf[c]]
        BY <3>1
      <4>2. PICK e \in Undisturbed : IdOf[e] = IdOf[c]
        BY <2>3, <4>1 DEF ConnInv
      <4>3. d = e
        BY <2>3, <4>1, <4>2 DEF ConnInv
      <4>4. QED BY <3>3, <4>2, <4>3 DEF SameId, Undisturbed
    <3>4. QED BY <2>3, <3>2, <3>3
  <2>4. QED BY <2>2, <2>3
<1>3. QED BY <1>1, <1>2 DEF MapIsExact

(* Both facts about the connections hold in every reachable state. *)
LEMMA ConnInvCorrect == Spec => []ConnInv
<1>1. Init => OverlapInv
  BY DEF Init, ManagerInit, OverlapInv
<1>2. QED BY <1>1, ConnInit, ConnStep, PTL DEF Spec

(* However clients come back, the Map holds just the sockets that have not *)
(* gone and that no other socket of their id followed or left, and         *)
(* getConnection() finds those.                                            *)
THEOREM MapStaysExact == Spec => []MapIsExact
BY ConnInvCorrect, ConnInvExact, PTL

(* However clients come back, broadcast() sends to every open connection   *)
(* it was not told to leave out, but in memory not to one whose client has *)
(* had another socket come or go since; and to no other.                   *)
THEOREM BroadcastComplete == Spec => []BroadcastReachesAll
<1>1. ASSUME ConnInv PROVE BroadcastReachesAll
  <2>1. GetConnections = {c \in Open : hibernate \/ c \notin overlapped}
    BY <1>1, RangeExact DEF GetConnections, Open, PlatformSockets, Undisturbed
  <2>2. QED BY <2>1 DEF BroadcastReachesAll, Recipients, Open
<1>2. QED BY <1>1, ConnInvCorrect, PTL
==============================================================================
