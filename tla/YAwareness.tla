----------------------------- MODULE YAwareness -----------------------------
(***************************************************************************)
(* Who is present: the awareness of one page whose YProvider connects and  *)
(* reconnects, and the server's copy of it (packages/y-partyserver/src/    *)
(* provider/index.ts and server/index.ts, over y-protocols' awareness).    *)
(*                                                                         *)
(* A copy has a clock for each client and perhaps a state; it accepts what *)
(* has a greater clock.  Only differences of clocks matter: `age' says by  *)
(* how much a clock is behind its owner's.  The page's client is "me"; one *)
(* other client, "peer", stays connected and shares its state for ever.    *)
(***************************************************************************)
EXTENDS YProvider, Sequences

CONSTANT
  MaxBehind             \* bound: how many clocks a message is behind when it comes

ASSUME AwarenessAssumption == MaxBehind \in Nat

VARIABLES
  alive,                \* the page is there
  current,              \* doc.conns of the connection of ws: "none" when it has
                        \* no entry, "controls" when the entry holds "me"
  old,                  \* the same of an earlier connection
  known,                \* the server's awareness.meta has "me"
  serverAge,            \* the age of its clock
  serverStates,         \* the server's awareness.states has "me"
  fresh,                \* no more than the outdated timeout old
  peerAge, peerStates,  \* the page's copy of "peer"
  up, late,             \* to the server, on ws and on the earlier connection
  down,                 \* from the server
  connects              \* history: connections accepted, 2 when more

serverVars == <<known, serverAge, serverStates, fresh>>
pageVars == <<alive, peerAge, peerStates>>
awarenessVars == <<pageVars, serverVars, current, old, up, late, down, connects>>
allVars == <<vars, awarenessVars>>

Ages == 0 .. MaxBehind + 1          \* MaxBehind + 1 and all beyond are alike
Entries == [id : {"me", "peer"}, age : Ages, state : BOOLEAN]

AwarenessTypeOK ==
  /\ alive \in BOOLEAN /\ known \in BOOLEAN /\ serverStates \in BOOLEAN
  /\ fresh \in BOOLEAN /\ peerStates \in BOOLEAN /\ connects \in 0 .. 2
  /\ current \in {"none", "free", "controls"} /\ old \in {"none", "free", "controls"}
  /\ serverAge \in Ages /\ peerAge \in Ages
  /\ up \in Seq(Entries) /\ late \in Seq(Entries) /\ down \in Seq(Entries)

-----------------------------------------------------------------------------
(***************************************************************************)
(* Clocks.                                                                 *)
(***************************************************************************)

Older(age) == IF age > MaxBehind THEN age ELSE age + 1

(* The clock of id goes on: what is under way is one further behind. *)
Aged(queue, id) ==
  [i \in DOMAIN queue |->
     IF queue[i].id = id THEN [queue[i] EXCEPT !.age = Older(@)] ELSE queue[i]]

InTime(queue, id) == \A i \in DOMAIN queue : queue[i].id = id => queue[i].age < MaxBehind

(* applyAwarenessUpdate of one entry to a copy with that age and state. *)
Accepts(entry, age, state) ==
  \/ entry.age < age
  \/ entry.age = age /\ ~entry.state /\ state

Mine(age, state) == [id |-> "me", age |-> age, state |-> state]
Peer(age) == [id |-> "peer", age |-> age, state |-> TRUE]

(* A send() of the page: over an open socket, and in vain when the server  *)
(* has ended the connection.                                               *)
Sends(queue, entry) ==
  IF wsconnected /\ ws = "OPEN" /\ current /= "none" THEN Append(queue, entry) ELSE queue

(* _awarenessUpdateHandler, until destroy(): it hears of every update, a    *)
(* renewal ("same") included.                                              *)
OnChange(queue, entry, what) ==                              \* mutant
  IF what = "same" THEN queue ELSE Sends(queue, entry)
KeptAttached(queue, entry, what) == Sends(queue, entry)      \* mutant
Forwards(queue, entry, what) == IF destroyed THEN queue ELSE Sends(queue, entry)

(* The page's clock goes on and the handler sends its state; rest is what  *)
(* is still to be received.                                                *)
Bumped(state, what, rest) ==
  /\ InTime(up, "me") /\ InTime(late, "me") /\ InTime(rest, "me")
  /\ serverAge' = Older(serverAge)
  /\ up' = Forwards(Aged(up, "me"), Mine(0, state), what)
  /\ late' = Aged(late, "me")
  /\ down' = Aged(rest, "me")

(* awarenessChangeHandler, to the page's connection.  The page ignores an  *)
(* entry of its own that is no null or is older: it is left out.           *)
BroadcastChange(queue, entry) ==                             \* mutant
  IF current /= "none" /\ entry.id = "me" /\ Accepts(entry, 0, TRUE)
  THEN Append(queue, entry) ELSE queue
Broadcasts(queue, entry) ==
  IF current /= "none" /\ (entry.id = "me" => Accepts(entry, 0, TRUE))
  THEN Append(queue, entry) ELSE queue

-----------------------------------------------------------------------------
(***************************************************************************)
(* The page: what the provider does, and its awareness with it.            *)
(***************************************************************************)

Together(step) == alive /\ step /\ UNCHANGED asyncParams
Silent == UNCHANGED awarenessVars

(* disconnectBc(): "me" is null, at a clock the server may have already. *)
SaysGone ==
  /\ up' = Sends(up, Mine(0, FALSE))
  /\ UNCHANGED <<pageVars, serverVars, current, old, late, down, connects>>

(* The socket opens once the server has accepted it. *)
Opens ==
  /\ current /= "none"
  /\ Together(WsOpen)
  /\ up' = Append(up, Mine(0, TRUE))
  /\ UNCHANGED <<pageVars, serverVars, current, old, late, down, connects>>

(* The close event: nobody but "me" is left.  The server may not know yet. *)
OthersLeft == peerStates' = (peerStates /\ ~wsconnected)

Closes ==
  /\ Together(WsClose)
  /\ OthersLeft
  /\ up' = <<>> /\ down' = <<>> /\ current' = "none"
  /\ \/ current = "none" /\ UNCHANGED <<old, late>>
     \/ /\ current /= "none" /\ old = "none"
        /\ old' = current /\ late' = up
  /\ UNCHANGED <<alive, peerAge, serverVars, connects>>

Provider ==
  \/ Together(Connect \/ Params \/ TimerFires \/ CheckInterval \/ SyncStep2 \/ PeerCloses)
     /\ Silent
  \/ Together(Disconnect) /\ SaysGone
  \/ Together(Destroy) /\ SaysGone
  \/ Opens
  \/ Closes

(* The interval of y-protocols: the page's own state is due for renewal. *)
Renew ==
  /\ alive
  /\ Bumped(TRUE, "same", down)
  /\ UNCHANGED <<vars, pageVars, known, serverStates, fresh, current, old, connects>>

(* A message of the server.  If somebody says that "me" has gone, it is    *)
(* still here.                                                             *)
StillHere == Bumped(TRUE, "removed", Tail(down))

Receive ==
  /\ alive /\ ws \in {"OPEN", "CLOSING"} /\ wsconnected /\ down /= <<>>
  /\ LET entry == Head(down) IN
       \/ /\ entry.id = "me" /\ Accepts(entry, 0, TRUE)
          /\ StillHere
          /\ UNCHANGED <<peerAge, peerStates>>
       \/ /\ entry.id = "me" /\ ~Accepts(entry, 0, TRUE)
          /\ down' = Tail(down)
          /\ UNCHANGED <<serverAge, up, late, peerAge, peerStates>>
       \/ /\ entry.id = "peer"
          /\ \/ Accepts(entry, peerAge, peerStates)
                /\ peerAge' = entry.age /\ peerStates' = entry.state
             \/ ~Accepts(entry, peerAge, peerStates) /\ UNCHANGED <<peerAge, peerStates>>
          /\ down' = Tail(down)
          /\ UNCHANGED <<serverAge, up, late>>
  /\ UNCHANGED <<vars, alive, known, serverStates, fresh, current, old, connects>>

(* The page goes, with an unload event or without, and all it has. *)
Vanish ==
  /\ alive /\ alive' = FALSE
  /\ shouldConnect' = FALSE /\ destroyed' = TRUE /\ bcconnected' = FALSE
  /\ ws' = "none" /\ wsconnecting' = FALSE /\ wsconnected' = FALSE /\ synced' = FALSE
  /\ timers' = 0 /\ fetching' = 0
  /\ peerStates' = FALSE
  /\ UNCHANGED <<asyncParams, failures, calls, peerAge, known, serverStates, fresh, current,
                 old, connects>>

Unload == Vanish /\ Bumped(FALSE, "removed", <<>>)
Crash  == Vanish /\ down' = <<>> /\ UNCHANGED <<serverAge, up, late>>

-----------------------------------------------------------------------------
(***************************************************************************)
(* The server.                                                             *)
(***************************************************************************)

(* onConnect: the connection's entry, and all states for it. *)
OnConnect ==
  /\ alive /\ ws = "CONNECTING" /\ current = "none"
  /\ current' = "free"
  /\ down' = <<Peer(0)>>
  /\ connects' = IF connects < 2 THEN connects + 1 ELSE connects
  /\ UNCHANGED <<vars, pageVars, serverVars, old, up, late>>

(* A message, on a connection with that entry.  `added' are only clients   *)
(* that were never heard of.                                               *)
ControlsUpdated(conn, entry) == IF entry.state THEN "controls" ELSE "free"   \* mutant
Controlled(conn, entry) ==
  IF entry.state THEN IF known THEN conn ELSE "controls" ELSE "free"

Update(entry) ==
  /\ known' = TRUE
  /\ serverAge' = entry.age /\ serverStates' = entry.state /\ fresh' = TRUE
  /\ down' = Broadcasts(down, entry)

OnMessage ==
  /\ current /= "none" /\ up /= <<>>
  /\ up' = Tail(up)
  /\ \/ /\ Accepts(Head(up), serverAge, serverStates)
        /\ Update(Head(up))
        /\ current' = Controlled(current, Head(up))
     \/ /\ ~Accepts(Head(up), serverAge, serverStates)
        /\ UNCHANGED <<serverVars, current, down>>
  /\ UNCHANGED <<vars, pageVars, old, late, connects>>

OnOldMessage ==
  /\ old /= "none" /\ late /= <<>>
  /\ late' = Tail(late)
  /\ \/ /\ Accepts(Head(late), serverAge, serverStates)
        /\ Update(Head(late))
        /\ old' = Controlled(old, Head(late))
     \/ /\ ~Accepts(Head(late), serverAge, serverStates)
        /\ UNCHANGED <<serverVars, old, down>>
  /\ UNCHANGED <<vars, pageVars, current, up, connects>>

(* onClose and closeConn: what the connection controls goes, its clock     *)
(* stays, and whoever is left is told.                                     *)
Forgotten(conn) ==                                           \* mutant
  UNCHANGED <<serverStates>>
Removed(conn) == serverStates' = (serverStates /\ conn /= "controls")

OnClose ==
  /\ current /= "none"
  /\ current' = "none" /\ up' = <<>>
  /\ Removed(current)
  /\ UNCHANGED <<vars, pageVars, known, serverAge, fresh, old, late, down, connects>>

OnOldClose ==
  /\ old /= "none"
  /\ old' = "none" /\ late' = <<>>
  /\ Removed(old)
  /\ down' = IF serverStates /\ ~serverStates'
             THEN Broadcasts(down, Mine(serverAge, FALSE)) ELSE down
  /\ UNCHANGED <<vars, pageVars, known, serverAge, fresh, current, up, connects>>

(* The interval of y-protocols: the state is outdated. *)
Outdated ==
  /\ serverStates /\ ~fresh
  /\ serverStates' = FALSE
  /\ down' = Broadcasts(down, Mine(serverAge, FALSE))
  /\ UNCHANGED <<vars, pageVars, known, serverAge, fresh, current, old, up, late, connects>>

(* The page's renewals come more often than a state is outdated. *)
Connected == wsconnected /\ ws = "OPEN" /\ current /= "none"
Renewing == alive /\ ~destroyed /\ Connected
TimePasses ==
  /\ fresh /\ ~Renewing
  /\ fresh' = FALSE
  /\ UNCHANGED <<vars, pageVars, known, serverAge, serverStates, current, old, up, late, down,
                 connects>>

(* The other client renews its state, and the server passes it on. *)
PeerRenews ==
  /\ InTime(down, "peer")
  /\ peerAge' = Older(peerAge)
  /\ down' = Broadcasts(Aged(down, "peer"), Peer(0))
  /\ UNCHANGED <<vars, alive, peerStates, serverVars, current, old, up, late, connects>>

-----------------------------------------------------------------------------

AwarenessInit ==
  /\ Init
  /\ alive = TRUE
  /\ current = "none" /\ old = "none"
  /\ known = FALSE /\ serverAge = 0 /\ serverStates = FALSE /\ fresh = FALSE
  /\ peerAge = 1 /\ peerStates = FALSE
  /\ up = <<>> /\ late = <<>> /\ down = <<>>
  /\ connects = 0

Page   == Provider \/ Renew \/ Receive \/ Unload \/ Crash
Server == OnConnect \/ OnMessage \/ OnOldMessage \/ OnClose \/ OnOldClose \/ Outdated
Others == TimePasses \/ PeerRenews

AwarenessNext == Page \/ Server \/ Others
AwarenessSpec == AwarenessInit /\ [][AwarenessNext]_allVars

(* The provider's fairness; a server that accepts at last; messages arrive *)
(* while there is a connection; the server learns at last that an old      *)
(* connection is dead; intervals fire.                                     *)
AwarenessFairness ==
  /\ WF_allVars(Together(TimerFires) /\ Silent)
  /\ SF_allVars(OnConnect) /\ SF_allVars(Opens)
  /\ WF_allVars(ws = "CLOSING" /\ Closes)
  /\ WF_allVars(OnMessage) /\ WF_allVars(Receive) /\ WF_allVars(OnOldClose)
  /\ WF_allVars(Renew) /\ WF_allVars(PeerRenews)
  /\ WF_allVars(Outdated) /\ WF_allVars(TimePasses)
AwarenessLiveSpec == AwarenessSpec /\ AwarenessFairness

-----------------------------------------------------------------------------
(***************************************************************************)
(* Properties.                                                             *)
(***************************************************************************)

(* An id is controlled by one connection at most, however connections of   *)
(* one client overlap: closeConn removes it once (awarenessChangeHandler). *)
OneController == ~(current = "controls" /\ old = "controls")

(* A client that has connected once is not shown when the server has       *)
(* closed that connection (closeConn, awarenessChangeHandler).             *)
ClosedIsRemoved == connects < 2 /\ current = "none" /\ old = "none" => ~serverStates

(* A page that is connected for good is shown at last, whatever its older  *)
(* connections' messages, closes and timeouts did to its state: their null *)
(* is answered with a greater clock, or the next renewal is accepted       *)
(* (awarenessChangeHandler, _awarenessUpdateHandler).                      *)
PresentIsShown == <>[]Renewing => <>[]serverStates

(* A page that has gone is at last shown to nobody, though its messages    *)
(* may come late; and one whose provider was destroyed is not kept there   *)
(* by a connection that late params made (destroy, closeConn, the timeout  *)
(* of y-protocols).                                                        *)
GoneIsRemoved ==
  /\ ~alive ~> []~serverStates
  /\ destroyed /\ Connected ~> ~serverStates \/ ~Connected

(* A page that is connected for good shows the others at last, though the  *)
(* states it is sent first may be no newer than those it removed when its  *)
(* last connection closed (onConnect, setupWS).                            *)
OthersAreShown == <>[]Renewing => <>[]peerStates

-----------------------------------------------------------------------------
(***************************************************************************)
(* What the documentation says and the code does not do.                   *)
(***************************************************************************)

(* server/index.ts:38 "Delete all user ids from awareness when this conn   *)
(* is closed": those of a client that came back are not.                   *)
UserIdsDeleted == current = "none" /\ old = "none" => ~serverStates
=============================================================================
