------------------------------- MODULE YSync -------------------------------
(***************************************************************************)
(* How y-partyserver keeps the copies of a Yjs document the same: the      *)
(* YServer (packages/y-partyserver/src/server/index.ts) and the providers  *)
(* of its clients (src/provider/index.ts) exchange sync step 1 ("this is   *)
(* what I have"), step 2 ("this is what you lack") and updates.            *)
(*                                                                         *)
(* A document is the set of the updates that were applied to it, which is  *)
(* what Yjs guarantees of it.  A WebSocket is two queues, which break      *)
(* together.  The server's memory is lost in a crash; what onSave() wrote  *)
(* is what onLoad() reads when it starts again, before any event.          *)
(***************************************************************************)
EXTENDS Integers, Sequences, SequencesExt

CONSTANTS
  Client,
  MaxEdits,             \* bound: edits of each client
  MaxBreaks,            \* bound: connections that break or are closed
  MaxCrashes            \* bound: crashes of the server

ASSUME SyncAssumption ==
  MaxEdits \in Nat /\ MaxBreaks \in Nat /\ MaxCrashes \in Nat

VARIABLES
  doc,                  \* each client's document
  edits,                \* edits of each client so far
  link,                 \* each client's WebSocket: "closed", "handshake" (the
                        \* server has accepted it), "open", "leaving" (the
                        \* client has closed it, the server does not know)
  synced,               \* each provider's synced
  up, down,             \* messages to the server, and to the client
  document,             \* the server's document
  conns,                \* document.conns
  dirty,                \* onSave() is to be called, when debounce is over
  saved,                \* what onSave() wrote last
  failed,               \* the last onSave() failed (history)
  breaks, crashes       \* how many so far

clientVars == <<doc, edits, synced>>
serverVars == <<document, conns, dirty, saved, failed>>
netVars    == <<link, up, down>>
vars == <<clientVars, serverVars, netVars, breaks, crashes>>

Update == Client \X (1 .. MaxEdits)

(* The messages. *)
Step1(known)  == [type |-> "step1",  content |-> known]
Step2(lacked) == [type |-> "step2",  content |-> lacked]
New(updates)  == [type |-> "update", content |-> updates]
Message == [type : {"step1", "step2", "update"}, content : SUBSET Update]

TypeOK ==
  /\ doc \in [Client -> SUBSET Update]
  /\ edits \in [Client -> 0 .. MaxEdits]
  /\ link \in [Client -> {"closed", "handshake", "open", "leaving"}]
  /\ synced \in [Client -> BOOLEAN]
  /\ up \in [Client -> Seq(Message)] /\ down \in [Client -> Seq(Message)]
  /\ document \in SUBSET Update /\ saved \in SUBSET Update
  /\ conns \in SUBSET Client
  /\ dirty \in BOOLEAN /\ failed \in BOOLEAN
  /\ breaks \in 0 .. MaxBreaks /\ crashes \in 0 .. MaxCrashes

Sent(queues, c, m) == [queues EXCEPT ![c] = Append(@, m)]
Taken(queues, c)   == [queues EXCEPT ![c] = Tail(@)]

-----------------------------------------------------------------------------
(***************************************************************************)
(* Connecting.                                                             *)
(***************************************************************************)

(* onConnect(): sync step 1, to the new connection only. *)
Welcome == <<Step1(document)>>

Accept(c) ==
  /\ link[c] = "closed"
  /\ link' = [link EXCEPT ![c] = "handshake"]
  /\ conns' = conns \cup {c}
  /\ down' = [down EXCEPT ![c] = Welcome]
  /\ UNCHANGED <<clientVars, document, dirty, saved, failed, up, breaks, crashes>>

(* The open event: the client's step 1. *)
NothingAsked(c) == up[c]                                    \* mutant
Greeting(c) == Append(up[c], Step1(doc[c]))

Opened(c) ==
  /\ link[c] = "handshake"
  /\ link' = [link EXCEPT ![c] = "open"]
  /\ up' = [up EXCEPT ![c] = Greeting(c)]
  /\ UNCHANGED <<clientVars, serverVars, down, breaks, crashes>>

-----------------------------------------------------------------------------
(***************************************************************************)
(* The client.                                                             *)
(***************************************************************************)

(* An edit is sent at once, by a provider that is connected. *)
Edit(c) ==
  /\ edits[c] < MaxEdits
  /\ edits' = [edits EXCEPT ![c] = @ + 1]
  /\ LET update == {<<c, edits[c] + 1>>} IN
     /\ doc' = [doc EXCEPT ![c] = @ \cup update]
     /\ up' = IF link[c] = "open" THEN Sent(up, c, New(update)) ELSE up
  /\ UNCHANGED <<synced, serverVars, link, down, breaks, crashes>>

(* A message of the server: step 1 is answered with step 2, the others are *)
(* applied, and not sent back.                                             *)
ClientReceives(c) ==
  /\ link[c] = "open" /\ down[c] /= <<>>
  /\ down' = Taken(down, c)
  /\ LET m == Head(down[c]) IN
     \/ /\ m.type = "step1"
        /\ up' = Sent(up, c, Step2(doc[c] \ m.content))
        /\ UNCHANGED <<doc, synced>>
     \/ /\ m.type \in {"step2", "update"}
        /\ doc' = [doc EXCEPT ![c] = @ \cup m.content]
        /\ synced' = [synced EXCEPT ![c] = @ \/ m.type = "step2"]
        /\ UNCHANGED up
  /\ UNCHANGED <<edits, serverVars, link, breaks, crashes>>

-----------------------------------------------------------------------------
(***************************************************************************)
(* The server.                                                             *)
(***************************************************************************)

(* updateHandler(): what was new goes to every connection, the one it came *)
(* from included.                                                          *)
ToSenderOnly(c, updates) == Sent(down, c, New(updates))     \* mutant
Broadcast(c, updates) ==
  [d \in Client |-> IF d \in conns THEN Append(down[d], New(updates)) ELSE down[d]]

(* onSave() is to be called after every change. *)
OnlyFirstEdits(c) == dirty' = (dirty \/ document = {})      \* mutant
Changed(c) == dirty' = TRUE

WhatItHas(c, known) == Step2(known \ document)              \* mutant
Answer(c, known) == Step2(document \ known)
ServerReceives(c) ==
  /\ c \in conns /\ up[c] /= <<>>
  /\ up' = Taken(up, c)
  /\ LET m == Head(up[c])
         new == m.content \ document IN
     \/ /\ m.type = "step1"
        /\ down' = Sent(down, c, Answer(c, m.content))
        /\ UNCHANGED <<document, dirty>>
     \/ /\ m.type \in {"step2", "update"} /\ new /= {}
        /\ document' = document \cup new
        /\ down' = Broadcast(c, new)
        /\ Changed(c)
     \/ /\ m.type \in {"step2", "update"} /\ new = {}
        /\ UNCHANGED <<document, dirty, down>>
  /\ UNCHANGED <<clientVars, conns, saved, failed, link, breaks, crashes>>

(* onSave(), when the debounce is over; a failure is only logged. *)
Save ==
  /\ dirty
  /\ dirty' = FALSE
  /\ \/ saved' = document /\ failed' = FALSE
     \/ UNCHANGED saved /\ failed' = TRUE
  /\ UNCHANGED <<clientVars, document, conns, netVars, breaks, crashes>>

-----------------------------------------------------------------------------
(***************************************************************************)
(* Disconnecting.                                                          *)
(***************************************************************************)

(* disconnect(): what was sent before still arrives; what arrives now is   *)
(* dropped.                                                                *)
Disconnect(c) ==
  /\ link[c] = "open" /\ breaks < MaxBreaks
  /\ breaks' = breaks + 1
  /\ link' = [link EXCEPT ![c] = "leaving"]
  /\ UNCHANGED <<clientVars, serverVars, up, down, crashes>>

(* The close event, at both ends. *)
Gone(c) ==
  /\ link' = [link EXCEPT ![c] = "closed"]
  /\ synced' = [synced EXCEPT ![c] = FALSE]
  /\ up' = [up EXCEPT ![c] = <<>>]
  /\ down' = [down EXCEPT ![c] = <<>>]
  /\ conns' = conns \ {c}
  /\ UNCHANGED <<doc, edits, document, dirty, saved, failed, crashes>>

Closed(c) ==
  /\ link[c] = "leaving" /\ up[c] = <<>>
  /\ Gone(c)
  /\ UNCHANGED breaks

(* The connection breaks with messages under way. *)
Break(c) ==
  /\ link[c] /= "closed" /\ breaks < MaxBreaks
  /\ breaks' = breaks + 1
  /\ Gone(c)

(* The server's memory is lost, and its connections with it. *)
Crash ==
  /\ crashes < MaxCrashes
  /\ crashes' = crashes + 1
  /\ link' = [c \in Client |-> "closed"]
  /\ synced' = [c \in Client |-> FALSE]
  /\ up' = [c \in Client |-> <<>>] /\ down' = [c \in Client |-> <<>>]
  /\ conns' = {} /\ document' = saved
  /\ dirty' = FALSE /\ failed' = FALSE
  /\ UNCHANGED <<doc, edits, saved, breaks>>

-----------------------------------------------------------------------------

Init ==
  /\ doc = [c \in Client |-> {}] /\ edits = [c \in Client |-> 0]
  /\ link = [c \in Client |-> "closed"] /\ synced = [c \in Client |-> FALSE]
  /\ up = [c \in Client |-> <<>>] /\ down = [c \in Client |-> <<>>]
  /\ document = {} /\ conns = {} /\ dirty = FALSE /\ saved = {}
  /\ failed = FALSE
  /\ breaks = 0 /\ crashes = 0

Next ==
  \/ \E c \in Client :
       \/ Accept(c) \/ Opened(c)
       \/ Edit(c) \/ ClientReceives(c) \/ ServerReceives(c)
       \/ Disconnect(c) \/ Closed(c) \/ Break(c)
  \/ Save \/ Crash

Spec == Init /\ [][Next]_vars

-----------------------------------------------------------------------------
(***************************************************************************)
(* Properties.                                                             *)
(***************************************************************************)

(* What is on its way in a queue, and what a step 1 in it will ask for.    *)
Carried(queue) == UNION {m.content : m \in {n \in Range(queue) : n.type /= "step1"}}
Asked(queue)   == UNION {Update \ m.content : m \in {n \in Range(queue) : n.type = "step1"}}

(* A client and the server lack nothing of each other that is not under    *)
(* way or being asked for, however often the connection was made again and *)
(* whatever the server forgot (onConnect, the open event, updateHandler).  *)
NothingMissed ==
  \A c \in Client : link[c] = "open" =>
    /\ document \subseteq doc[c] \cup Carried(down[c]) \cup Asked(up[c])
    /\ doc[c] \subseteq document \cup Carried(up[c]) \cup Asked(down[c])

(* So copies are the same whenever nothing is under way. *)
QuietAgrees ==
  \A c \in Client : link[c] = "open" /\ up[c] = <<>> /\ down[c] = <<>> => doc[c] = document

(* A provider says that it is synced only when everything the server has   *)
(* is in its document or under way to it; one that says so misses nothing  *)
(* from then on (messageSync, updateHandler).                              *)
SyncedMeansSynced ==
  \A c \in Client : synced[c] => document \subseteq doc[c] \cup Carried(down[c])

(* What has not been written is going to be, unless onSave() failed; and   *)
(* the server never lacks what it wrote (onStart).                         *)
SaveIsPending ==
  /\ ~dirty /\ ~failed => saved = document
  /\ saved \subseteq document

(* Connections are made again, deliver, and break to their end; and the    *)
(* debounce ends.                                                          *)
Fairness ==
  /\ \A c \in Client :
       /\ WF_vars(Accept(c)) /\ WF_vars(Opened(c)) /\ WF_vars(Closed(c))
       /\ WF_vars(ClientReceives(c)) /\ WF_vars(ServerReceives(c))
  /\ WF_vars(Save)
LiveSpec == Spec /\ Fairness

Same == \A c \in Client : doc[c] = document

(* When edits, breaks and crashes are over and clients that are not        *)
(* connected connect again, all copies are and stay the same, and so is    *)
(* what is stored, unless the last onSave() failed.                        *)
Converges == <>[](Same /\ (saved = document \/ failed))

-----------------------------------------------------------------------------
(***************************************************************************)
(* What the README says and the code does not do.                          *)
(***************************************************************************)

(* y-partyserver/README.md:133 "called every few seconds after edits, and  *)
(* when the room empties" of onSave(): the step in which the last          *)
(* connection closes writes what there is.                                 *)
RoomEmpties == conns /= {} /\ conns' = {} /\ crashes' = crashes
SavedWhenEmpty == [][RoomEmpties => saved' = document']_vars
=============================================================================
