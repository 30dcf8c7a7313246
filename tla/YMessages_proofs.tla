-------------------------- MODULE YMessages_proofs --------------------------
(***************************************************************************)
(* Proofs about what y-partyserver's connections carry: YSync, for any     *)
(* number of clients, edits, broken connections and crashes, and Chunking, *)
(* for any number of connections and any sizes of messages and chunks.     *)
(***************************************************************************)
EXTENDS YSync, Chunking, TLAPS, WellFoundedInduction

-----------------------------------------------------------------------------
(***************************************************************************)
(* The document.                                                           *)
(***************************************************************************)


(* What a queue says after a message was added to it or taken from it. *)
LEMMA RangeOfAppend ==
  ASSUME NEW S, NEW q \in Seq(S), NEW m \in S
  PROVE  Range(Append(q, m)) = Range(q) \cup {m}
<1>1. /\ DOMAIN Append(q, m) = 1 .. Len(q) + 1
      /\ \A i \in 1 .. Len(q) : Append(q, m)[i] = q[i]
      /\ Append(q, m)[Len(q) + 1] = m
      /\ DOMAIN q = 1 .. Len(q) /\ Len(q) \in Nat
  OBVIOUS
<1>2. ASSUME NEW x \in Range(Append(q, m)) PROVE x \in Range(q) \cup {m}
  <2>1. PICK i \in 1 .. Len(q) + 1 : x = Append(q, m)[i]
    BY <1>1, <1>2 DEF Range
  <2>2. CASE i = Len(q) + 1
    BY <1>1, <2>1, <2>2
  <2>3. CASE i \in 1 .. Len(q)
    BY <1>1, <2>1, <2>3 DEF Range
  <2>4. QED BY <1>1, <2>1, <2>2, <2>3
<1>3. ASSUME NEW x \in Range(q) \cup {m} PROVE x \in Range(Append(q, m))
  <2>1. CASE x = m
    <3>1. Len(q) + 1 \in DOMAIN Append(q, m)
      BY <1>1
    <3>2. QED BY <1>1, <2>1, <3>1 DEF Range
  <2>2. CASE x \in Range(q)
    <3>1. PICK i \in 1 .. Len(q) : x = q[i]
      BY <1>1, <2>2 DEF Range
    <3>2. i \in DOMAIN Append(q, m)
      BY <1>1, <3>1
    <3>3. QED BY <1>1, <3>1, <3>2 DEF Range
  <2>3. QED BY <1>3, <2>1, <2>2
<1>4. QED BY <1>2, <1>3

LEMMA RangeOfTail ==
  ASSUME NEW S, NEW q \in Seq(S), q /= <<>>
  PROVE  Head(q) \in S /\ Tail(q) \in Seq(S) /\ Range(q) = Range(Tail(q)) \cup {Head(q)}
<1>1. /\ Len(q) \in Nat /\ Len(q) >= 1 /\ DOMAIN q = 1 .. Len(q)
      /\ Head(q) = q[1] /\ Head(q) \in S /\ Tail(q) \in Seq(S)
      /\ DOMAIN Tail(q) = 1 .. Len(q) - 1
      /\ \A i \in 1 .. Len(q) - 1 : Tail(q)[i] = q[i + 1]
  OBVIOUS
<1>2. ASSUME NEW x \in Range(q) PROVE x \in Range(Tail(q)) \cup {Head(q)}
  <2>1. PICK i \in 1 .. Len(q) : x = q[i]
    BY <1>1, <1>2 DEF Range
  <2>2. CASE i = 1
    BY <1>1, <2>1, <2>2
  <2>3. CASE i > 1
    <3>1. i - 1 \in 1 .. Len(q) - 1 /\ (i - 1) + 1 = i
      BY <1>1, <2>1, <2>3
    <3>2. Tail(q)[i - 1] = x
      BY <1>1, <2>1, <3>1
    <3>3. QED BY <1>1, <3>1, <3>2 DEF Range
  <2>4. QED BY <1>1, <2>1, <2>2, <2>3
<1>3. ASSUME NEW x \in Range(Tail(q)) \cup {Head(q)} PROVE x \in Range(q)
  <2>1. CASE x = Head(q)
    <3>1. 1 \in DOMAIN q
      BY <1>1
    <3>2. QED BY <1>1, <2>1, <3>1 DEF Range
  <2>2. CASE x \in Range(Tail(q))
    <3>1. PICK i \in 1 .. Len(q) - 1 : x = Tail(q)[i]
      BY <1>1, <2>2 DEF Range
    <3>2. i + 1 \in 1 .. Len(q)
      BY <1>1, <3>1
    <3>3. QED BY <1>1, <3>1, <3>2 DEF Range
  <2>3. QED BY <1>3, <2>1, <2>2
<1>4. QED BY <1>1, <1>2, <1>3

LEMMA QueueAppend ==
  ASSUME NEW q \in Seq(Message), NEW m \in Message
  PROVE  /\ Append(q, m) \in Seq(Message)
         /\ Range(Append(q, m)) = Range(q) \cup {m}
         /\ Carried(Append(q, m)) =
              Carried(q) \cup (IF m.type = "step1" THEN {} ELSE m.content)
         /\ Asked(Append(q, m)) =
              Asked(q) \cup (IF m.type = "step1" THEN Update \ m.content ELSE {})
<1>1. Range(Append(q, m)) = Range(q) \cup {m}
  BY RangeOfAppend
<1>2. QED BY <1>1 DEF Carried, Asked

LEMMA QueueTail ==
  ASSUME NEW q \in Seq(Message), q /= <<>>
  PROVE  /\ Head(q) \in Message /\ Tail(q) \in Seq(Message)
         /\ Range(q) = Range(Tail(q)) \cup {Head(q)}
         /\ Carried(q) =
              Carried(Tail(q)) \cup (IF Head(q).type = "step1" THEN {} ELSE Head(q).content)
         /\ Asked(q) =
              Asked(Tail(q)) \cup (IF Head(q).type = "step1" THEN Update \ Head(q).content ELSE {})
<1>1. /\ Head(q) \in Message /\ Tail(q) \in Seq(Message)
      /\ Range(q) = Range(Tail(q)) \cup {Head(q)}
  BY RangeOfTail
<1>2. QED BY <1>1 DEF Carried, Asked

LEMMA EmptyQueue == Carried(<<>>) = {} /\ Asked(<<>>) = {} /\ Range(<<>>) = {}
BY DEF Carried, Asked, Range

-----------------------------------------------------------------------------
(***************************************************************************)
(* Types.                                                                  *)
(***************************************************************************)

(* A step 1, a step 2 and an update are messages. *)
LEMMA MessageTypes ==
  ASSUME NEW content \in SUBSET Update
  PROVE  /\ Step1(content) \in Message /\ Step1(content).type = "step1"
         /\ Step2(content) \in Message /\ Step2(content).type = "step2"
         /\ New(content) \in Message /\ New(content).type = "update"
         /\ Step1(content).content = content
         /\ Step2(content).content = content
         /\ New(content).content = content
BY DEF Step1, Step2, New, Message

(* One message in one queue of many. *)
LEMMA QueueSent ==
  ASSUME NEW queues \in [Client -> Seq(Message)], NEW c \in Client, NEW m \in Message
  PROVE  /\ Sent(queues, c, m) \in [Client -> Seq(Message)]
         /\ Sent(queues, c, m)[c] = Append(queues[c], m)
         /\ \A d \in Client : d /= c => Sent(queues, c, m)[d] = queues[d]
BY DEF Sent

LEMMA QueueTaken ==
  ASSUME NEW queues \in [Client -> Seq(Message)], NEW c \in Client, queues[c] /= <<>>
  PROVE  /\ Taken(queues, c) \in [Client -> Seq(Message)]
         /\ Taken(queues, c)[c] = Tail(queues[c])
         /\ \A d \in Client : d /= c => Taken(queues, c)[d] = queues[d]
<1>1. Tail(queues[c]) \in Seq(Message)
  BY QueueTail
<1>2. QED BY <1>1 DEF Taken

(* The parts of an edit and of a change to the server's document.          *)
LEMMA EditTypes ==
  ASSUME TypeOK, NEW c \in Client, Edit(c)
  PROVE  /\ edits' \in [Client -> 0 .. MaxEdits]
         /\ \E update \in SUBSET Update :
              /\ doc' = [doc EXCEPT ![c] = @ \cup update]
              /\ up' = IF link[c] = "open" THEN Sent(up, c, New(update)) ELSE up
<1>1. edits[c] \in 0 .. MaxEdits /\ MaxEdits \in Nat /\ edits[c] < MaxEdits
  BY SyncAssumption DEF TypeOK, Edit
<1>2. edits[c] + 1 \in 1 .. MaxEdits
  BY <1>1
<1>3. {<<c, edits[c] + 1>>} \in SUBSET Update
  BY <1>2 DEF Update
<1>4. edits' \in [Client -> 0 .. MaxEdits]
  BY <1>2 DEF TypeOK, Edit
<1>5. QED BY <1>3, <1>4 DEF Edit

LEMMA BroadcastTypes ==
  ASSUME TypeOK, NEW c \in Client, NEW new \in SUBSET Update
  PROVE  /\ Broadcast(c, new) \in [Client -> Seq(Message)]
         /\ \A d \in conns : Broadcast(c, new)[d] = Append(down[d], New(new))
         /\ \A d \in Client \ conns : Broadcast(c, new)[d] = down[d]
BY MessageTypes DEF TypeOK, Broadcast

LEMMA NoMessages == [c \in Client |-> <<>>] \in [Client -> Seq(Message)]
<1>1. <<>> \in Seq(Message)
  OBVIOUS
<1>2. QED BY <1>1, Zenon

LEMMA TypeInit == Init => TypeOK
<1> SUFFICES ASSUME Init PROVE TypeOK
  OBVIOUS
<1>1. up \in [Client -> Seq(Message)] /\ down \in [Client -> Seq(Message)]
  BY NoMessages DEF Init
<1>2. edits \in [Client -> 0 .. MaxEdits] /\ breaks \in 0 .. MaxBreaks /\ crashes \in 0 .. MaxCrashes
  BY SyncAssumption DEF Init
<1>3. /\ doc \in [Client -> SUBSET Update] /\ synced \in [Client -> BOOLEAN]
      /\ link \in [Client -> {"closed", "handshake", "open", "leaving"}]
      /\ document \in SUBSET Update /\ saved \in SUBSET Update
      /\ conns \in SUBSET Client /\ dirty \in BOOLEAN /\ failed \in BOOLEAN
  BY DEF Init
<1>4. QED BY <1>1, <1>2, <1>3 DEF TypeOK

LEMMA TypeStep == TypeOK /\ [Next]_vars => TypeOK'
<1> SUFFICES ASSUME TypeOK, [Next]_vars PROVE TypeOK'
  OBVIOUS
<1>1. ASSUME NEW c \in Client, Accept(c) PROVE TypeOK'
  <2>1. Welcome \in Seq(Message)
    BY MessageTypes DEF TypeOK, Welcome
  <2>2. QED BY <1>1, <2>1 DEF TypeOK, Accept, clientVars
<1>2. ASSUME NEW c \in Client, Opened(c) PROVE TypeOK'
  <2>1. Greeting(c) \in Seq(Message)
    BY MessageTypes DEF TypeOK, Greeting
  <2>2. QED BY <1>2, <2>1 DEF TypeOK, Opened, clientVars, serverVars
<1>3. ASSUME NEW c \in Client, Edit(c) PROVE TypeOK'
  <2>1. PICK update \in SUBSET Update :
          /\ doc' = [doc EXCEPT ![c] = @ \cup update]
          /\ up' = IF link[c] = "open" THEN Sent(up, c, New(update)) ELSE up
    BY <1>3, EditTypes
  <2>2. up' \in [Client -> Seq(Message)]
    BY <2>1, MessageTypes, QueueSent DEF TypeOK
  <2>3. doc' \in [Client -> SUBSET Update]
    BY <2>1 DEF TypeOK
  <2>4. edits' \in [Client -> 0 .. MaxEdits]
    BY <1>3, EditTypes
  <2>5. QED BY <1>3, <2>2, <2>3, <2>4 DEF TypeOK, Edit, serverVars
<1>4. ASSUME NEW c \in Client, ClientReceives(c) PROVE TypeOK'
  <2> DEFINE m == Head(down[c])
  <2>1. m \in Message /\ m.content \in SUBSET Update
    BY <1>4, QueueTail DEF TypeOK, ClientReceives, Message
  <2>2. down' \in [Client -> Seq(Message)]
    BY <1>4, QueueTaken DEF TypeOK, ClientReceives
  <2>3. up' \in [Client -> Seq(Message)]
    <3>1. CASE up' = up
      BY <3>1 DEF TypeOK
    <3>2. CASE up' = Sent(up, c, Step2(doc[c] \ m.content))
      BY <3>2, MessageTypes, QueueSent DEF TypeOK
    <3>3. QED BY <1>4, <3>1, <3>2 DEF ClientReceives
  <2>4. doc' \in [Client -> SUBSET Update] /\ synced' \in [Client -> BOOLEAN]
    BY <1>4, <2>1 DEF TypeOK, ClientReceives
  <2>5. QED BY <1>4, <2>2, <2>3, <2>4 DEF TypeOK, ClientReceives, serverVars
<1>5. ASSUME NEW c \in Client, ServerReceives(c) PROVE TypeOK'
  <2> DEFINE m == Head(up[c])
             new == m.content \ document
  <2>1. m \in Message /\ m.content \in SUBSET Update
    BY <1>5, QueueTail DEF TypeOK, ServerReceives, Message
  <2>2. up' \in [Client -> Seq(Message)]
    BY <1>5, QueueTaken DEF TypeOK, ServerReceives
  <2>3. down' \in [Client -> Seq(Message)]
    <3>1. CASE down' = down
      BY <3>1 DEF TypeOK
    <3>2. CASE down' = Sent(down, c, Answer(c, m.content))
      BY <3>2, MessageTypes, QueueSent DEF TypeOK, Answer
    <3>3. CASE down' = Broadcast(c, new)
      BY <2>1, <3>3, BroadcastTypes
    <3>4. QED BY <1>5, <3>1, <3>2, <3>3 DEF ServerReceives
  <2>4. document' \in SUBSET Update /\ dirty' \in BOOLEAN
    BY <1>5, <2>1 DEF TypeOK, ServerReceives, Changed
  <2>5. QED BY <1>5, <2>2, <2>3, <2>4 DEF TypeOK, ServerReceives, clientVars
<1>6. ASSUME NEW c \in Client, Disconnect(c) PROVE TypeOK'
  <2>1. breaks' \in 0 .. MaxBreaks
    BY <1>6, SyncAssumption DEF TypeOK, Disconnect
  <2>2. QED BY <1>6, <2>1 DEF TypeOK, Disconnect, clientVars, serverVars
<1>7. ASSUME NEW c \in Client, Closed(c) PROVE TypeOK'
  BY <1>7 DEF TypeOK, Closed, Gone
<1>8. ASSUME NEW c \in Client, Break(c) PROVE TypeOK'
  <2>1. breaks' \in 0 .. MaxBreaks
    BY <1>8, SyncAssumption DEF TypeOK, Break
  <2>2. QED BY <1>8, <2>1 DEF TypeOK, Break, Gone
<1>9. CASE Save
  BY <1>9 DEF TypeOK, Save, clientVars, netVars
<1>10. CASE Crash
  <2>1. crashes' \in 0 .. MaxCrashes
    BY <1>10, SyncAssumption DEF TypeOK, Crash
  <2>2. up' \in [Client -> Seq(Message)] /\ down' \in [Client -> Seq(Message)]
    BY <1>10, NoMessages DEF Crash
  <2>3. /\ link' \in [Client -> {"closed", "handshake", "open", "leaving"}]
        /\ synced' \in [Client -> BOOLEAN]
        /\ conns' \in SUBSET Client /\ document' \in SUBSET Update
        /\ dirty' \in BOOLEAN /\ failed' \in BOOLEAN
    BY <1>10 DEF TypeOK, Crash
  <2>4. UNCHANGED <<doc, edits, saved, breaks>>
    BY <1>10 DEF Crash
  <2>5. QED BY <2>1, <2>2, <2>3, <2>4 DEF TypeOK
<1>11. CASE UNCHANGED vars
  BY <1>11 DEF TypeOK, vars, clientVars, serverVars, netVars
<1>12. QED BY <1>1, <1>2, <1>3, <1>4, <1>5, <1>6, <1>7, <1>8, <1>9, <1>10, <1>11 DEF Next

(* The variables keep their types, for every number of clients.            *)
THEOREM TypeCorrect == Spec => []TypeOK
BY TypeInit, TypeStep, PTL DEF Spec

-----------------------------------------------------------------------------
(***************************************************************************)
(* The invariant.                                                          *)
(***************************************************************************)

(* What the server knows of a connection, and that a provider whose        *)
(* connection is gone has nothing under way.                               *)
Linked(c) ==
  /\ c \in conns <=> link[c] /= "closed"
  /\ link[c] = "closed" => up[c] = <<>> /\ down[c] = <<>> /\ ~synced[c]
  /\ link[c] = "handshake" => up[c] = <<>>

(* Nobody claims, or sends, what it does not have. *)
Honest(c) ==
  /\ \A m \in Range(up[c]) : m.content \subseteq doc[c]
  /\ \A m \in Range(down[c]) : m.content \subseteq document

(* Before the open event the server's question is under way, which will    *)
(* bring it whatever the client has or makes.                              *)
Questioned(c) ==
  link[c] = "handshake" => Update \subseteq document \cup Asked(down[c])

Missed(c) ==
  link[c] = "open" =>
    /\ document \subseteq doc[c] \cup Carried(down[c]) \cup Asked(up[c])
    /\ doc[c] \subseteq document \cup Carried(up[c]) \cup Asked(down[c])

(* Once the server has answered, nothing it has is unknown to the client   *)
(* and not under way.                                                      *)
Answered(c) ==
  (synced[c] \/ \E m \in Range(down[c]) : m.type = "step2") =>
    document \subseteq doc[c] \cup Carried(down[c])

Coupled(c) == Linked(c) /\ Honest(c) /\ Questioned(c) /\ Missed(c) /\ Answered(c)
Inv == TypeOK /\ \A c \in Client : Coupled(c)

LEMMA InvInit == Init => Inv
<1> SUFFICES ASSUME Init, NEW c \in Client PROVE Coupled(c)
  BY TypeInit DEF Inv
<1>1. Linked(c) /\ Missed(c) /\ Questioned(c)
  BY DEF Init, Linked, Missed, Questioned
<1>2. Honest(c) /\ Answered(c)
  BY EmptyQueue DEF Init, Honest, Answered
<1>3. QED BY <1>1, <1>2 DEF Coupled

(* A connection that a step leaves alone. *)
LEMMA LeftAlone ==
  ASSUME NEW d \in Client, Coupled(d),
         link'[d] = link[d], doc'[d] = doc[d], synced'[d] = synced[d],
         up'[d] = up[d], down'[d] = down[d], document' = document,
         d \in conns' <=> d \in conns
  PROVE  Coupled(d)'
<1>1. Linked(d)'
  BY DEF Coupled, Linked
<1>2. Honest(d)' /\ Questioned(d)'
  BY DEF Coupled, Honest, Questioned, Asked, Carried
<1>3. Missed(d)'
  BY DEF Coupled, Missed, Asked, Carried
<1>4. Answered(d)'
  BY DEF Coupled, Answered, Carried
<1>5. QED BY <1>1, <1>2, <1>3, <1>4 DEF Coupled

(* A connection that is gone. *)
LEMMA GoneIsCoupled ==
  ASSUME NEW d \in Client, link'[d] = "closed", ~synced'[d],
         up'[d] = <<>>, down'[d] = <<>>, d \notin conns'
  PROVE  Coupled(d)'
<1>1. Linked(d)' /\ Questioned(d)' /\ Missed(d)'
  BY DEF Linked, Questioned, Missed
<1>2. Honest(d)' /\ Answered(d)'
  BY EmptyQueue DEF Honest, Answered
<1>3. QED BY <1>1, <1>2 DEF Coupled

-----------------------------------------------------------------------------
(***************************************************************************)
(* One step of each action.                                                *)
(***************************************************************************)

LEMMA AcceptStep ==
  ASSUME Inv, NEW c \in Client, Accept(c), NEW d \in Client
  PROVE  Coupled(d)'
<1>1. CASE d /= c
  <2>1. /\ link'[d] = link[d] /\ doc'[d] = doc[d] /\ synced'[d] = synced[d]
        /\ up'[d] = up[d] /\ down'[d] = down[d] /\ document' = document
        /\ d \in conns' <=> d \in conns
    BY <1>1 DEF Inv, TypeOK, Accept, clientVars
  <2>2. QED BY <2>1, LeftAlone DEF Inv
<1>2. CASE d = c
  <2>1. /\ link[d] = "closed" /\ up[d] = <<>> /\ ~synced[d]
    BY <1>2 DEF Inv, Coupled, Linked, Accept
  <2>2. /\ link'[d] = "handshake" /\ d \in conns' /\ up'[d] = <<>> /\ ~synced'[d]
        /\ document' = document
    BY <1>2, <2>1 DEF Inv, TypeOK, Accept, clientVars
  <2>3. down'[d] = <<Step1(document)>>
    BY <1>2 DEF Inv, TypeOK, Accept, Welcome
  <2>4. Range(down'[d]) = {Step1(document)}
    BY <2>3 DEF Range
  <2>5. Step1(document).type = "step1" /\ Step1(document).content = document
    BY DEF Step1
  <2>6. Linked(d)' /\ Missed(d)'
    BY <2>2 DEF Linked, Missed
  <2>7. Honest(d)'
    BY <2>2, <2>4, <2>5, EmptyQueue DEF Honest
  <2>8. Asked(down'[d]) = Update \ document
    BY <2>4, <2>5 DEF Asked
  <2>9. Questioned(d)'
    BY <2>2, <2>8 DEF Questioned, Asked
  <2>10. Answered(d)'
    BY <2>2, <2>4, <2>5 DEF Answered
  <2>11. QED BY <2>6, <2>7, <2>9, <2>10 DEF Coupled
<1>3. QED BY <1>1, <1>2

LEMMA OpenedStep ==
  ASSUME Inv, NEW c \in Client, Opened(c), NEW d \in Client
  PROVE  Coupled(d)'
<1>1. CASE d /= c
  <2>1. /\ link'[d] = link[d] /\ doc'[d] = doc[d] /\ synced'[d] = synced[d]
        /\ up'[d] = up[d] /\ down'[d] = down[d] /\ document' = document
        /\ d \in conns' <=> d \in conns
    BY <1>1 DEF Inv, TypeOK, Opened, clientVars, serverVars
  <2>2. QED BY <2>1, LeftAlone DEF Inv
<1>2. CASE d = c
  <2>1. /\ link[d] = "handshake" /\ up[d] = <<>> /\ d \in conns
        /\ Update \subseteq document \cup Asked(down[d])
    BY <1>2 DEF Inv, Coupled, Linked, Questioned, Opened
  <2>2. doc[d] \in SUBSET Update /\ document \in SUBSET Update
    BY DEF Inv, TypeOK
  <2>3. /\ link'[d] = "open" /\ d \in conns' /\ document' = document /\ doc'[d] = doc[d]
        /\ down'[d] = down[d] /\ synced'[d] = synced[d]
    BY <1>2, <2>1 DEF Inv, TypeOK, Opened, clientVars, serverVars
  <2>4. up'[d] = <<Step1(doc[d])>>
    BY <1>2, <2>1 DEF Inv, TypeOK, Opened, Greeting
  <2>5. /\ Range(up'[d]) = {Step1(doc[d])}
        /\ Asked(up'[d]) = Update \ doc[d]
    <3>1. Range(up'[d]) = {Step1(doc[d])}
      BY <2>4 DEF Range
    <3>2. Step1(doc[d]).type = "step1" /\ Step1(doc[d]).content = doc[d]
      BY DEF Step1
    <3>3. QED BY <3>1, <3>2 DEF Asked
  <2>6. Linked(d)' /\ Questioned(d)'
    BY <2>3 DEF Linked, Questioned
  <2>7. Honest(d)'
    BY <2>2, <2>3, <2>5, MessageTypes DEF Inv, Coupled, Honest
  <2>8. Missed(d)'
    <3>1. document \subseteq doc[d] \cup Asked(up'[d])
      BY <2>2, <2>5
    <3>2. doc[d] \subseteq document \cup Asked(down[d])
      BY <2>1, <2>2
    <3>3. QED BY <2>3, <3>1, <3>2 DEF Missed, Asked, Carried
  <2>9. Answered(d)'
    BY <2>3 DEF Inv, Coupled, Answered, Carried
  <2>10. QED BY <2>6, <2>7, <2>8, <2>9 DEF Coupled
<1>3. QED BY <1>1, <1>2

LEMMA EditStep ==
  ASSUME Inv, NEW c \in Client, Edit(c), NEW d \in Client
  PROVE  Coupled(d)'
<1>1. PICK update \in SUBSET Update :
        /\ doc' = [doc EXCEPT ![c] = @ \cup update]
        /\ up' = IF link[c] = "open" THEN Sent(up, c, New(update)) ELSE up
  BY EditTypes DEF Inv
<1>2. /\ link' = link /\ synced' = synced /\ down' = down
      /\ document' = document /\ conns' = conns
  BY DEF Edit, serverVars
<1>3. up \in [Client -> Seq(Message)] /\ doc \in [Client -> SUBSET Update]
  BY DEF Inv, TypeOK
<1>4. CASE d /= c
  <2>1. up'[d] = up[d] /\ doc'[d] = doc[d]
    BY <1>1, <1>3, <1>4, QueueSent, MessageTypes
  <2>2. QED BY <1>2, <2>1, LeftAlone DEF Inv
<1>5. CASE d = c
  <2>1. doc'[d] = doc[d] \cup update
    BY <1>1, <1>3, <1>5
  <2>2. Answered(d)' /\ Questioned(d)'
    BY <1>2, <2>1 DEF Inv, Coupled, Answered, Questioned, Carried, Asked
  <2>3. CASE link[d] = "open"
    <3> DEFINE m == New(update)
    <3>0. m \in Message /\ m.type = "update" /\ m.content = update
      BY MessageTypes
    <3> HIDE DEF m
    <3>1. up'[d] = Append(up[d], m)
      BY <1>1, <1>3, <1>5, <2>3, <3>0, QueueSent DEF m
    <3>2. /\ Range(up'[d]) = Range(up[d]) \cup {m}
          /\ Carried(up'[d]) = Carried(up[d]) \cup update
          /\ Asked(up'[d]) = Asked(up[d])
      <4>1. up[d] \in Seq(Message)
        BY <1>3
      <4>2. QED BY <3>0, <3>1, <4>1, QueueAppend
    <3>3. Linked(d)'
      BY <1>2, <2>3 DEF Inv, Coupled, Linked
    <3>4. Honest(d)'
      BY <1>2, <2>1, <3>0, <3>2 DEF Inv, Coupled, Honest
    <3>5. /\ document \subseteq doc[d] \cup Carried(down[d]) \cup Asked(up[d])
          /\ doc[d] \subseteq document \cup Carried(up[d]) \cup Asked(down[d])
      BY <2>3 DEF Inv, Coupled, Missed
    <3>6. /\ document \subseteq doc'[d] \cup Carried(down[d]) \cup Asked(up'[d])
          /\ doc'[d] \subseteq document \cup Carried(up'[d]) \cup Asked(down[d])
      BY <2>1, <3>2, <3>5
    <3>7. Missed(d)'
      BY <1>2, <3>6 DEF Missed, Carried, Asked
    <3>8. QED BY <2>2, <3>3, <3>4, <3>7 DEF Coupled
  <2>4. CASE link[d] /= "open"
    <3>1. up' = up
      BY <1>1, <1>5, <2>4
    <3>2. Linked(d)' /\ Missed(d)'
      BY <1>2, <2>4, <3>1 DEF Inv, Coupled, Linked, Missed
    <3>3. Honest(d)'
      BY <1>2, <2>1, <3>1 DEF Inv, Coupled, Honest
    <3>4. QED BY <2>2, <3>2, <3>3 DEF Coupled
  <2>5. QED BY <2>3, <2>4
<1>6. QED BY <1>4, <1>5

LEMMA ClientReceivesStep ==
  ASSUME Inv, NEW c \in Client, ClientReceives(c), NEW d \in Client
  PROVE  Coupled(d)'
<1> DEFINE m == Head(down[c])
<1>1. /\ up \in [Client -> Seq(Message)] /\ down \in [Client -> Seq(Message)]
      /\ doc \in [Client -> SUBSET Update] /\ synced \in [Client -> BOOLEAN]
  BY DEF Inv, TypeOK
<1>2. /\ link[c] = "open" /\ down[c] /= <<>> /\ down' = Taken(down, c)
      /\ link' = link /\ document' = document /\ conns' = conns
  BY DEF ClientReceives, serverVars
<1>3. /\ m \in Message
      /\ Range(down[c]) = Range(Tail(down[c])) \cup {m}
      /\ Carried(down[c]) =
           Carried(Tail(down[c])) \cup (IF m.type = "step1" THEN {} ELSE m.content)
      /\ Asked(down[c]) =
           Asked(Tail(down[c])) \cup (IF m.type = "step1" THEN Update \ m.content ELSE {})
  BY <1>1, <1>2, QueueTail
<1>4. \/ /\ m.type = "step1" /\ up' = Sent(up, c, Step2(doc[c] \ m.content))
         /\ doc' = doc /\ synced' = synced
      \/ /\ m.type \in {"step2", "update"}
         /\ doc' = [doc EXCEPT ![c] = @ \cup m.content]
         /\ synced' = [synced EXCEPT ![c] = @ \/ m.type = "step2"]
         /\ up' = up
  BY DEF ClientReceives
<1>5. m.content \in SUBSET Update
  BY <1>3 DEF Message
<1>6. down'[c] = Tail(down[c]) /\ \A e \in Client : e /= c => down'[e] = down[e]
  BY <1>1, <1>2, QueueTaken
<1> HIDE DEF m
<1>7. CASE d /= c
  <2>1. down'[d] = down[d]
    BY <1>6, <1>7
  <2>2. doc'[d] = doc[d] /\ synced'[d] = synced[d]
    BY <1>1, <1>4, <1>7
  <2>3. up'[d] = up[d]
    BY <1>1, <1>4, <1>7 DEF Sent
  <2>4. QED BY <1>2, <2>1, <2>2, <2>3, LeftAlone DEF Inv
<1>8. CASE d = c
  <2>0. /\ d \in conns /\ \A n \in Range(up[d]) : n.content \subseteq doc[d]
        /\ \A n \in Range(down[d]) : n.content \subseteq document
        /\ document \subseteq doc[d] \cup Carried(down[d]) \cup Asked(up[d])
        /\ doc[d] \subseteq document \cup Carried(up[d]) \cup Asked(down[d])
        /\ (synced[d] \/ \E n \in Range(down[d]) : n.type = "step2") =>
             document \subseteq doc[d] \cup Carried(down[d])
    BY <1>2, <1>8 DEF Inv, Coupled, Linked, Honest, Missed, Answered
  <2>1. CASE m.type = "step1"
    <3> DEFINE a == Step2(doc[c] \ m.content)
    <3>1. a \in Message /\ a.type = "step2" /\ a.content = doc[c] \ m.content
      BY <1>1, MessageTypes
    <3>2. doc' = doc /\ synced' = synced /\ up' = Sent(up, c, a)
      BY <1>4, <2>1
    <3> HIDE DEF a
    <3>3. up'[c] = Append(up[c], a) /\ up[c] \in Seq(Message)
      BY <1>1, <3>1, <3>2, QueueSent
    <3>4. /\ Range(up'[c]) = Range(up[c]) \cup {a}
          /\ Carried(up'[c]) = Carried(up[c]) \cup a.content
          /\ Asked(up'[c]) = Asked(up[c])
      BY <3>1, <3>3, QueueAppend
    <3>5. Carried(down'[c]) = Carried(down[c])
          /\ Asked(down[c]) = Asked(down'[c]) \cup (Update \ m.content)
      BY <1>3, <1>6, <2>1
    <3>6. Linked(d)' /\ Questioned(d)'
      BY <1>2, <1>8, <2>0 DEF Linked, Questioned
    <3>7. Honest(d)'
      BY <1>2, <1>3, <1>6, <1>8, <2>0, <3>1, <3>2, <3>4 DEF Honest
    <3>8. /\ document \subseteq doc[d] \cup Carried(down'[d]) \cup Asked(up'[d])
          /\ doc[d] \subseteq document \cup Carried(up'[d]) \cup Asked(down'[d])
      BY <1>1, <1>8, <2>0, <3>1, <3>4, <3>5
    <3>9. Missed(d)'
      BY <1>2, <3>2, <3>8 DEF Missed, Carried, Asked
    <3>10. Answered(d)'
      BY <1>2, <1>3, <1>6, <1>8, <2>0, <3>2, <3>5 DEF Answered, Carried
    <3>11. QED BY <3>6, <3>7, <3>9, <3>10 DEF Coupled
  <2>2. CASE m.type \in {"step2", "update"}
    <3>1. /\ doc'[d] = doc[d] \cup m.content /\ up' = up
          /\ synced'[d] = (synced[d] \/ m.type = "step2")
      BY <1>1, <1>4, <1>8, <2>2
    <3>2. /\ Carried(down[d]) = Carried(down'[d]) \cup m.content
          /\ Asked(down[d]) = Asked(down'[d])
      BY <1>3, <1>6, <1>8, <2>2
    <3>3. m \in Range(down[d]) /\ Range(down'[d]) \subseteq Range(down[d])
      BY <1>3, <1>6, <1>8
    <3>4. Linked(d)' /\ Questioned(d)'
      BY <1>2, <1>8, <2>0 DEF Linked, Questioned
    <3>5. Honest(d)'
      BY <1>2, <2>0, <3>1, <3>3 DEF Honest
    <3>6. /\ document \subseteq doc'[d] \cup Carried(down'[d]) \cup Asked(up[d])
          /\ doc'[d] \subseteq document \cup Carried(up[d]) \cup Asked(down'[d])
      BY <2>0, <3>1, <3>2, <3>3
    <3>7. Missed(d)'
      BY <1>2, <3>1, <3>6 DEF Missed, Carried, Asked
    <3>8. (synced'[d] \/ \E n \in Range(down'[d]) : n.type = "step2") =>
             document \subseteq doc'[d] \cup Carried(down'[d])
      <4>1. SUFFICES ASSUME synced'[d] \/ \E n \in Range(down'[d]) : n.type = "step2"
                     PROVE  document \subseteq doc'[d] \cup Carried(down'[d])
        OBVIOUS
      <4>2. synced[d] \/ \E n \in Range(down[d]) : n.type = "step2"
        BY <3>1, <3>3, <4>1
      <4>3. document \subseteq doc[d] \cup Carried(down[d])
        BY <2>0, <4>2
      <4>4. QED BY <3>1, <3>2, <4>3
    <3>9. Answered(d)'
      BY <1>2, <3>8 DEF Answered, Carried
    <3>10. QED BY <3>4, <3>5, <3>7, <3>9 DEF Coupled
  <2>3. QED BY <1>4, <2>1, <2>2
<1>9. QED BY <1>7, <1>8

(* The server answers, or hands on what is new, or finds nothing new.      *)
LEMMA ServerReceivesStep ==
  ASSUME Inv, NEW c \in Client, ServerReceives(c), NEW d \in Client
  PROVE  Coupled(d)'
<1> DEFINE m == Head(up[c])
           new == m.content \ document
<1>1. /\ up \in [Client -> Seq(Message)] /\ down \in [Client -> Seq(Message)]
      /\ doc \in [Client -> SUBSET Update] /\ document \in SUBSET Update
  BY DEF Inv, TypeOK
<1>2. /\ up[c] /= <<>> /\ c \in conns /\ up' = Taken(up, c)
      /\ link' = link /\ doc' = doc /\ synced' = synced /\ conns' = conns
  BY DEF ServerReceives, clientVars
<1>3. /\ m \in Message
      /\ Range(up[c]) = Range(Tail(up[c])) \cup {m}
      /\ Carried(up[c]) =
           Carried(Tail(up[c])) \cup (IF m.type = "step1" THEN {} ELSE m.content)
      /\ Asked(up[c]) =
           Asked(Tail(up[c])) \cup (IF m.type = "step1" THEN Update \ m.content ELSE {})
  BY <1>1, <1>2, QueueTail
<1>4. \/ m.type = "step1" /\ down' = Sent(down, c, Step2(document \ m.content))
         /\ document' = document
      \/ m.type \in {"step2", "update"} /\ document' = document \cup new
         /\ down' = Broadcast(c, new)
      \/ m.type \in {"step2", "update"} /\ new = {} /\ document' = document
         /\ down' = down
  BY DEF ServerReceives, Answer
<1>5. m.content \in SUBSET Update
  BY <1>3 DEF Message
<1>6. up'[c] = Tail(up[c]) /\ \A e \in Client : e /= c => up'[e] = up[e]
  BY <1>1, <1>2, QueueTaken
<1>7. m.content \subseteq doc[c]
  BY <1>3 DEF Inv, Coupled, Honest
<1> HIDE DEF m
<1>8. CASE m.type = "step1"
  <2> DEFINE a == Step2(document \ m.content)
  <2>1. a \in Message /\ a.type = "step2" /\ a.content = document \ m.content
    BY <1>1, MessageTypes
  <2>2. down' = Sent(down, c, a) /\ document' = document
    BY <1>4, <1>8
  <2> HIDE DEF a
  <2>3. CASE d /= c
    <3>1. down'[d] = down[d] /\ up'[d] = up[d]
      BY <1>6, <2>2, <2>3 DEF Sent
    <3>2. QED BY <1>2, <2>2, <3>1, LeftAlone DEF Inv
  <2>4. CASE d = c
    <3>1. down'[d] = Append(down[d], a) /\ down[d] \in Seq(Message)
      BY <1>1, <2>1, <2>2, <2>4, QueueSent
    <3>2. /\ Range(down'[d]) = Range(down[d]) \cup {a}
          /\ Carried(down'[d]) = Carried(down[d]) \cup a.content
          /\ Asked(down'[d]) = Asked(down[d])
      BY <2>1, <3>1, QueueAppend
    <3>3. /\ Carried(up'[d]) = Carried(up[d])
          /\ Asked(up[d]) = Asked(up'[d]) \cup (Update \ m.content)
          /\ Range(up'[d]) \subseteq Range(up[d])
      BY <1>3, <1>6, <1>8, <2>4
    <3>4. Linked(d)'
      BY <1>2, <2>4 DEF Inv, Coupled, Linked
    <3>5. Honest(d)'
      BY <1>2, <2>1, <2>2, <3>2, <3>3 DEF Inv, Coupled, Honest
    <3>6. link[d] /= "handshake"
      BY <1>2, <2>4 DEF Inv, Coupled, Linked
    <3>7. Questioned(d)'
      BY <1>2, <3>6 DEF Questioned
    <3>8. document \subseteq doc[d] \cup Carried(down'[d])
      BY <1>1, <1>7, <2>1, <2>4, <3>2
    <3>9. link[d] = "open" => doc[d] \subseteq document \cup Carried(up'[d]) \cup Asked(down'[d])
      BY <3>2, <3>3 DEF Inv, Coupled, Missed
    <3>10. Missed(d)'
      BY <1>2, <2>2, <3>8, <3>9 DEF Missed, Carried, Asked
    <3>11. Answered(d)'
      BY <1>2, <2>2, <3>8 DEF Answered, Carried
    <3>12. QED BY <3>4, <3>5, <3>7, <3>10, <3>11 DEF Coupled
  <2>5. QED BY <2>3, <2>4
<1>9. CASE m.type \in {"step2", "update"} /\ down' = down /\ document' = document /\ new = {}
  <2>1. CASE d /= c
    <3>1. down'[d] = down[d] /\ up'[d] = up[d]
      BY <1>6, <1>9, <2>1
    <3>2. QED BY <1>2, <1>9, <3>1, LeftAlone DEF Inv
  <2>2. CASE d = c
    <3>1. /\ Carried(up[d]) = Carried(up'[d]) \cup m.content
          /\ Asked(up[d]) = Asked(up'[d])
          /\ Range(up'[d]) \subseteq Range(up[d])
      BY <1>3, <1>6, <1>9, <2>2
    <3>2. link[d] /= "handshake" /\ link[d] /= "closed"
      BY <1>2, <2>2 DEF Inv, Coupled, Linked
    <3>3. Linked(d)' /\ Questioned(d)'
      BY <1>2, <2>2, <3>2 DEF Linked, Questioned
    <3>4. Honest(d)'
      BY <1>2, <1>9, <3>1 DEF Inv, Coupled, Honest
    <3>5. m.content \subseteq document
      BY <1>9
    <3>6. link[d] = "open" =>
            /\ document \subseteq doc[d] \cup Carried(down[d]) \cup Asked(up'[d])
            /\ doc[d] \subseteq document \cup Carried(up'[d]) \cup Asked(down[d])
      BY <3>1, <3>5 DEF Inv, Coupled, Missed
    <3>7. Missed(d)'
      BY <1>2, <1>9, <3>6 DEF Missed, Carried, Asked
    <3>8. Answered(d)'
      BY <1>2, <1>9 DEF Inv, Coupled, Answered, Carried
    <3>9. QED BY <3>3, <3>4, <3>7, <3>8 DEF Coupled
  <2>3. QED BY <2>1, <2>2
<1>10. CASE /\ m.type \in {"step2", "update"} /\ document' = document \cup new
            /\ down' = Broadcast(c, new)
  <2> DEFINE n == New(new)
  <2>0. new \in SUBSET Update
    BY <1>5
  <2>1. n \in Message /\ n.type = "update" /\ n.content = new
    BY <2>0, MessageTypes
  <2>2. /\ d \in conns => down'[d] = Append(down[d], n)
        /\ d \notin conns => down'[d] = down[d]
    BY <1>10, <2>0, BroadcastTypes DEF Inv
  <2> HIDE DEF n, new
  <2>3. CASE d \notin conns
    <3>1. link[d] = "closed" /\ d /= c
      BY <1>2, <2>3 DEF Inv, Coupled, Linked
    <3>2. up[d] = <<>> /\ down[d] = <<>> /\ ~synced[d]
      BY <3>1 DEF Inv, Coupled, Linked
    <3>3. up'[d] = <<>> /\ down'[d] = <<>> /\ ~synced'[d] /\ link'[d] = "closed" /\ d \notin conns'
      BY <1>2, <1>6, <2>2, <2>3, <3>1, <3>2
    <3>4. QED BY <3>3, GoneIsCoupled
  <2>4. CASE d \in conns
    <3>0. down'[d] = Append(down[d], n) /\ down[d] \in Seq(Message)
      BY <1>1, <2>2, <2>4
    <3>1. /\ Range(down'[d]) = Range(down[d]) \cup {n}
          /\ Carried(down'[d]) = Carried(down[d]) \cup new
          /\ Asked(down'[d]) = Asked(down[d])
      BY <2>1, <3>0, QueueAppend
    <3>2. /\ Range(up'[d]) \subseteq Range(up[d])
          /\ Carried(up[d]) \subseteq Carried(up'[d]) \cup m.content
          /\ Asked(up'[d]) = Asked(up[d])
      <4>1. CASE d = c
        BY <1>3, <1>6, <1>10, <4>1
      <4>2. CASE d /= c
        BY <1>6, <4>2
      <4>3. QED BY <4>1, <4>2
    <3>3. m.content \subseteq document' /\ document' = document \cup new
      BY <1>10 DEF new
    <3>4. Linked(d)'
      <4>1. link[d] = "handshake" => d /= c
        BY <1>2 DEF Inv, Coupled, Linked
      <4>2. QED BY <1>2, <1>6, <2>4, <4>1 DEF Inv, Coupled, Linked
    <3>5. Honest(d)'
      BY <1>2, <2>1, <3>1, <3>2, <3>3 DEF Inv, Coupled, Honest
    <3>6. link[d] = "handshake" => Update \subseteq document' \cup Asked(down'[d])
      BY <3>1, <3>3 DEF Inv, Coupled, Questioned
    <3>7. Questioned(d)'
      BY <1>2, <3>6 DEF Questioned, Asked
    <3>8. link[d] = "open" =>
            /\ document' \subseteq doc[d] \cup Carried(down'[d]) \cup Asked(up'[d])
            /\ doc[d] \subseteq document' \cup Carried(up'[d]) \cup Asked(down'[d])
      BY <3>1, <3>2, <3>3 DEF Inv, Coupled, Missed
    <3>9. Missed(d)'
      BY <1>2, <3>8 DEF Missed, Carried, Asked
    <3>10. (synced[d] \/ \E k \in Range(down'[d]) : k.type = "step2") =>
              document' \subseteq doc[d] \cup Carried(down'[d])
      BY <2>1, <3>1, <3>3 DEF Inv, Coupled, Answered
    <3>11. Answered(d)'
      BY <1>2, <3>10 DEF Answered, Carried
    <3>12. QED BY <3>4, <3>5, <3>7, <3>9, <3>11 DEF Coupled
  <2>5. QED BY <2>3, <2>4
<1>11. QED BY <1>4, <1>8, <1>9, <1>10

LEMMA DisconnectStep ==
  ASSUME Inv, NEW c \in Client, Disconnect(c), NEW d \in Client
  PROVE  Coupled(d)'
<1>1. /\ doc' = doc /\ synced' = synced /\ up' = up /\ down' = down
      /\ document' = document /\ conns' = conns
  BY DEF Disconnect, clientVars, serverVars
<1>2. CASE d /= c
  <2>1. link'[d] = link[d]
    BY <1>2 DEF Inv, TypeOK, Disconnect
  <2>2. QED BY <1>1, <2>1, LeftAlone DEF Inv
<1>3. CASE d = c
  <2>1. link[d] = "open" /\ link'[d] = "leaving"
    BY <1>3 DEF Inv, TypeOK, Disconnect
  <2>2. Linked(d)' /\ Missed(d)' /\ Questioned(d)'
    BY <1>1, <2>1 DEF Inv, Coupled, Linked, Missed, Questioned
  <2>3. Honest(d)' /\ Answered(d)'
    BY <1>1 DEF Inv, Coupled, Honest, Answered, Carried
  <2>4. QED BY <2>2, <2>3 DEF Coupled
<1>4. QED BY <1>2, <1>3

LEMMA GoneStep ==
  ASSUME Inv, NEW c \in Client, Gone(c), NEW d \in Client
  PROVE  Coupled(d)'
<1>1. CASE d = c
  <2>1. /\ link'[d] = "closed" /\ ~synced'[d] /\ up'[d] = <<>> /\ down'[d] = <<>>
        /\ d \notin conns'
    BY <1>1 DEF Inv, TypeOK, Gone
  <2>2. QED BY <2>1, GoneIsCoupled
<1>2. CASE d /= c
  <2>1. /\ link'[d] = link[d] /\ doc'[d] = doc[d] /\ synced'[d] = synced[d]
        /\ up'[d] = up[d] /\ down'[d] = down[d] /\ document' = document
        /\ d \in conns' <=> d \in conns
    BY <1>2 DEF Inv, TypeOK, Gone
  <2>2. QED BY <2>1, LeftAlone DEF Inv
<1>3. QED BY <1>1, <1>2

LEMMA CrashStep ==
  ASSUME Inv, Crash, NEW d \in Client
  PROVE  Coupled(d)'
<1>1. /\ link'[d] = "closed" /\ ~synced'[d] /\ up'[d] = <<>> /\ down'[d] = <<>>
      /\ d \notin conns'
  BY DEF Crash
<1>2. QED BY <1>1, GoneIsCoupled

LEMMA InvStep == Inv /\ [Next]_vars => Inv'
<1> SUFFICES ASSUME Inv, [Next]_vars, NEW d \in Client PROVE Coupled(d)'
  BY TypeStep DEF Inv
<1>1. ASSUME NEW c \in Client, Accept(c) PROVE Coupled(d)'
  BY <1>1, AcceptStep
<1>2. ASSUME NEW c \in Client, Opened(c) PROVE Coupled(d)'
  BY <1>2, OpenedStep
<1>3. ASSUME NEW c \in Client, Edit(c) PROVE Coupled(d)'
  BY <1>3, EditStep
<1>4. ASSUME NEW c \in Client, ClientReceives(c) PROVE Coupled(d)'
  BY <1>4, ClientReceivesStep
<1>5. ASSUME NEW c \in Client, ServerReceives(c) PROVE Coupled(d)'
  BY <1>5, ServerReceivesStep
<1>6. ASSUME NEW c \in Client, Disconnect(c) PROVE Coupled(d)'
  BY <1>6, DisconnectStep
<1>7. ASSUME NEW c \in Client, Closed(c) \/ Break(c) PROVE Coupled(d)'
  BY <1>7, GoneStep DEF Closed, Break
<1>8. CASE Crash
  BY <1>8, CrashStep
<1>9. CASE Save \/ UNCHANGED vars
  <2>1. /\ link' = link /\ doc' = doc /\ synced' = synced
        /\ up' = up /\ down' = down /\ document' = document /\ conns' = conns
    BY <1>9 DEF Save, vars, clientVars, serverVars, netVars
  <2>2. QED BY <2>1, LeftAlone DEF Inv
<1>10. QED BY <1>1, <1>2, <1>3, <1>4, <1>5, <1>6, <1>7, <1>8, <1>9 DEF Next

(* Every reachable state is coupled: links, queues, documents and what is   *)
(* asked for fit together for every client.                                *)
THEOREM Invariance == Spec => []Inv
BY InvInit, InvStep, PTL DEF Spec

-----------------------------------------------------------------------------
(***************************************************************************)
(* The properties.                                                         *)
(***************************************************************************)

(* Whatever the order of edits, handshakes, breaks and crashes, a client   *)
(* that is connected and the server lack nothing of each other that is not *)
(* under way or being asked for.                                           *)
THEOREM NothingIsMissed == Spec => []NothingMissed
<1>1. Inv => NothingMissed
  BY DEF Inv, Coupled, Missed, NothingMissed
<1>2. QED BY <1>1, Invariance, PTL

(* So two copies with nothing under way between them are the same.         *)
THEOREM QuietCopiesAgree == Spec => []QuietAgrees
<1>1. Inv => QuietAgrees
  <2> SUFFICES ASSUME Inv, NEW c \in Client, link[c] = "open", up[c] = <<>>, down[c] = <<>>
               PROVE  doc[c] = document
    BY DEF QuietAgrees
  <2>1. /\ document \subseteq doc[c] \cup Carried(<<>>) \cup Asked(<<>>)
        /\ doc[c] \subseteq document \cup Carried(<<>>) \cup Asked(<<>>)
    BY DEF Inv, Coupled, Missed
  <2>2. QED BY <2>1, EmptyQueue
<1>2. QED BY <1>1, Invariance, PTL

(* A provider that says that it is synced misses nothing of the server's   *)
(* document that is not on its way to it.                                  *)
THEOREM SyncedIsTrue == Spec => []SyncedMeansSynced
<1>1. Inv => SyncedMeansSynced
  BY DEF Inv, Coupled, Answered, SyncedMeansSynced
<1>2. QED BY <1>1, Invariance, PTL

(* While onSave() is not due, and if it does not fail, everything the      *)
(* server has is written; and it never lacks what it wrote.                *)
THEOREM SavesArePending == Spec => []SaveIsPending
<1>1. Init => SaveIsPending
  BY DEF Init, SaveIsPending
<1>2. SaveIsPending /\ [Next]_vars => SaveIsPending'
  <2> SUFFICES ASSUME SaveIsPending, [Next]_vars PROVE SaveIsPending'
    OBVIOUS
  <2>1. ASSUME NEW c \in Client,
               Accept(c) \/ Opened(c) \/ Edit(c) \/ ClientReceives(c)
                 \/ Disconnect(c) \/ Closed(c) \/ Break(c)
        PROVE  SaveIsPending'
    BY <2>1 DEF SaveIsPending, Accept, Opened, Edit, ClientReceives, Disconnect,
                Closed, Break, Gone, serverVars
  <2>2. ASSUME NEW c \in Client, ServerReceives(c) PROVE SaveIsPending'
    BY <2>2 DEF SaveIsPending, ServerReceives, Changed
  <2>3. CASE Save
    BY <2>3 DEF SaveIsPending, Save
  <2>4. CASE Crash
    BY <2>4 DEF SaveIsPending, Crash
  <2>5. CASE UNCHANGED vars
    BY <2>5 DEF SaveIsPending, vars, serverVars
  <2>6. QED BY <2>1, <2>2, <2>3, <2>4, <2>5 DEF Next
<1>3. QED BY <1>1, <1>2, PTL DEF Spec

-----------------------------------------------------------------------------
(***************************************************************************)
(* Chunks.                                                                 *)
(***************************************************************************)
Large(m) == m.size > ChunkMax

(* There are as many slices as the message needs, and no empty one. *)
LEMMA Counted ==
  ASSUME NEW m \in Messages
  PROVE  /\ m.size \in Nat \ {0} /\ ChunkMax \in Nat \ {0}
         /\ ChunkCount(m) \in Nat \ {0}
         /\ ChunkMax * (ChunkCount(m) - 1) < m.size /\ m.size <= ChunkMax * ChunkCount(m)
         /\ Large(m) => ChunkCount(m) > 1
<1>1. m.size \in Nat \ {0} /\ ChunkMax \in Nat \ {0}
  BY ChunkingAssumption DEF Messages
<1> DEFINE s == m.size
           x == s + ChunkMax - 1
           q == x \div ChunkMax
<1>2. ASSUME NEW a \in Nat, NEW d \in Nat \ {0}
      PROVE  a \div d \in Nat /\ d * (a \div d) <= a /\ a < d * (a \div d) + d
  OBVIOUS
<1>3. x \in Nat
  BY <1>1
<1>4. q \in Nat /\ ChunkMax * q <= x /\ x < ChunkMax * q + ChunkMax
  BY <1>1, <1>2, <1>3
<1>5. ChunkCount(m) = q
  BY DEF ChunkCount
<1>6. s \in Nat \ {0} /\ (Large(m) <=> s > ChunkMax)
  BY <1>1 DEF Large
<1> HIDE DEF q
<1>7. q /= 0
  BY <1>1, <1>4, <1>6
<1>8. ChunkMax * (q - 1) = ChunkMax * q - ChunkMax
  BY <1>1, <1>4
<1>9. ChunkMax * q \in Nat
  BY <1>1, <1>4
<1>10. ChunkMax * (q - 1) < s /\ s <= ChunkMax * q
  BY <1>1, <1>4, <1>6, <1>8, <1>9
<1>11. q = 1 => ChunkMax * q = ChunkMax
  BY <1>1
<1>12. Large(m) => q > 1
  BY <1>1, <1>4, <1>6, <1>7, <1>10, <1>11
<1>13. QED BY <1>1, <1>4, <1>5, <1>7, <1>10, <1>12

LEMMA SlicesAre ==
  ASSUME NEW m \in Messages
  PROVE  /\ SlicesOf(m) \in Seq(Slices) /\ Len(SlicesOf(m)) = ChunkCount(m)
         /\ \A l \in 1 .. ChunkCount(m) :
              /\ SlicesOf(m)[l].of = m
              /\ SlicesOf(m)[l].from = ChunkMax * (l - 1) + 1
              /\ SlicesOf(m)[l].to = IF l < ChunkCount(m) THEN ChunkMax * l ELSE m.size
<1> DEFINE n == ChunkCount(m)
<1>1. /\ m.size \in Nat \ {0} /\ ChunkMax \in Nat \ {0} /\ n \in Nat \ {0}
      /\ ChunkMax * (n - 1) < m.size /\ m.size <= ChunkMax * n
  BY Counted
<1>2. \A l \in 1 .. n :
        SlicesOf(m)[l] = [of |-> m, from |-> ChunkMax * (l - 1) + 1,
                          to |-> SmallerOf(ChunkMax * l, m.size)]
  BY DEF SlicesOf, Slice
<1>3. SlicesOf(m) = [i \in 1 .. n |-> SlicesOf(m)[i]]
  BY DEF SlicesOf
<1> HIDE DEF n
<1>4. ASSUME NEW l \in 1 .. n
      PROVE  /\ ChunkMax * (l - 1) + 1 \in Nat /\ ChunkMax * l \in Nat
             /\ SmallerOf(ChunkMax * l, m.size) = IF l < n THEN ChunkMax * l ELSE m.size
  <2>1. l \in Nat /\ l - 1 \in Nat
    OBVIOUS
  <2>2. ChunkMax * (l - 1) + 1 \in Nat /\ ChunkMax * l \in Nat
    BY <1>1, <2>1
  <2>3. CASE l < n
    <3>1. \E e \in Nat : n - 1 = l + e
      <4>1. n - 1 - l \in Nat
        BY <1>1, <2>1, <2>3
      <4>2. QED BY <1>1, <2>1, <4>1
    <3>2. PICK e \in Nat : n - 1 = l + e
      BY <3>1
    <3>3. ChunkMax * (n - 1) = ChunkMax * l + ChunkMax * e /\ ChunkMax * e \in Nat
      BY <1>1, <2>1, <3>2
    <3>4. ChunkMax * l < m.size
      BY <1>1, <2>2, <3>3
    <3>5. QED BY <2>2, <2>3, <3>4 DEF SmallerOf
  <2>4. CASE l = n
    BY <1>1, <2>2, <2>4 DEF SmallerOf
  <2>5. QED BY <1>1, <2>3, <2>4
<1>5. ASSUME NEW l \in 1 .. n PROVE SlicesOf(m)[l] \in Slices
  <2> DEFINE from == ChunkMax * (l - 1) + 1
             to == SmallerOf(ChunkMax * l, m.size)
  <2>1. from \in Nat /\ to \in Nat
    BY <1>1, <1>4
  <2>2. SlicesOf(m)[l] = [of |-> m, from |-> from, to |-> to]
    BY <1>2
  <2> HIDE DEF from, to
  <2>3. QED BY <2>1, <2>2 DEF Slices
<1>6. SlicesOf(m) \in [1 .. n -> Slices]
  BY <1>3, <1>5
<1>7. SlicesOf(m) \in Seq(Slices) /\ Len(SlicesOf(m)) = n
  BY <1>1, <1>6
<1>8. QED BY <1>2, <1>4, <1>7 DEF n

(* Together they are the message. *)
LEMMA SlicesAreWhole ==
  ASSUME NEW m \in Messages
  PROVE  IsWhole(SlicesOf(m), m)
<1> DEFINE q == SlicesOf(m)
           n == ChunkCount(m)
<1>1. n \in Nat \ {0} /\ ChunkMax \in Nat \ {0}
  BY Counted
<1>2. /\ q \in Seq(Slices) /\ Len(q) = n
      /\ \A l \in 1 .. n : /\ q[l].of = m /\ q[l].from = ChunkMax * (l - 1) + 1
                           /\ q[l].to = IF l < n THEN ChunkMax * l ELSE m.size
  BY SlicesAre
<1> HIDE DEF q, n
<1>3. q /= <<>> /\ Head(q) = q[1] /\ Last(q) = q[n]
  BY <1>1, <1>2 DEF Last
<1>4. q[1].from = 1 /\ q[n].to = m.size
  BY <1>1, <1>2
<1>5. \A s \in Range(q) : s.of = m
  BY <1>1, <1>2 DEF Range
<1>6. \A i \in 1 .. n - 1 : q[i + 1].from = q[i].to + 1
  <2> SUFFICES ASSUME NEW i \in 1 .. n - 1 PROVE q[i + 1].from = q[i].to + 1
    OBVIOUS
  <2>1. i \in 1 .. n /\ i + 1 \in 1 .. n /\ i < n /\ (i + 1) - 1 = i
    BY <1>1
  <2>2. q[i + 1].from = ChunkMax * ((i + 1) - 1) + 1 /\ q[i].to = ChunkMax * i
    BY <1>2, <2>1
  <2>3. QED BY <2>1, <2>2
<1>7. IsWhole(q, m)
  BY <1>2, <1>3, <1>4, <1>5, <1>6 DEF IsWhole
<1>8. QED BY <1>7 DEF q

(***************************************************************************)
(* Natural numbers, and what the slices sum up to.                         *)
(***************************************************************************)
LEMMA Smallest ==
  ASSUME NEW T \in SUBSET Nat, T /= {}
  PROVE  \E n \in T : \A m \in T : n <= m
<1> DEFINE R == OpToRel(<, Nat)
<1>1. IsWellFoundedOn(R, Nat)
  BY NatLessThanWellFounded
<1>2. R = {pair \in Nat \X Nat : pair[1] < pair[2]}
  BY DEF OpToRel
<1> HIDE DEF R
<1>3. PICK n \in T : \A m \in T : <<m, n>> \notin R
  BY <1>1, WFMin
<1>4. ASSUME NEW m \in T PROVE n <= m
  <2>1. m \in Nat /\ n \in Nat /\ <<m, n>> \notin R
    BY <1>3
  <2>2. ~ (m < n)
    BY <1>2, <2>1
  <2>3. QED BY <2>1, <2>2
<1>5. QED BY <1>4

LEMMA Induction ==
  ASSUME NEW T \in SUBSET Nat, 0 \in T, \A n \in T : n + 1 \in T
  PROVE  T = Nat
<1>1. SUFFICES ASSUME Nat \ T /= {} PROVE FALSE
  OBVIOUS
<1>2. PICK n \in Nat \ T : \A m \in Nat \ T : n <= m
  BY <1>1, Smallest
<1>3. n /= 0 /\ n - 1 \in Nat
  BY <1>2
<1>4. n - 1 \in T
  BY <1>2, <1>3
<1>5. QED BY <1>2, <1>3, <1>4

(* A sum is the one function that adds slice after slice. *)
Sums(f, slices) ==
  f = [i \in 0 .. Len(slices) |-> IF i = 0 THEN 0 ELSE f[i - 1] + Bytes(slices[i])]

LEMMA SumBytesIs ==
  ASSUME NEW S, NEW q \in Seq(S), NEW g, Sums(g, q)
  PROVE  SumBytes(q) = g[Len(q)]
<1> DEFINE f == CHOOSE h : Sums(h, q)
<1>1. Sums(f, q)
  OBVIOUS
<1>2. SumBytes(q) = f[Len(q)]
  BY DEF SumBytes, Sums
<1> HIDE DEF f
<1>3. f = [i \in 0 .. Len(q) |-> IF i = 0 THEN 0 ELSE f[i - 1] + Bytes(q[i])]
  BY <1>1 DEF Sums
<1>4. g = [i \in 0 .. Len(q) |-> IF i = 0 THEN 0 ELSE g[i - 1] + Bytes(q[i])]
  BY DEF Sums
<1>5. Len(q) \in Nat
  OBVIOUS
<1> DEFINE T == {i \in Nat : i <= Len(q) => f[i] = g[i]}
<1>6. 0 \in T
  BY <1>3, <1>4, <1>5
<1>7. ASSUME NEW i \in T PROVE i + 1 \in T
  <2>1. SUFFICES ASSUME i + 1 <= Len(q) PROVE f[i + 1] = g[i + 1]
    OBVIOUS
  <2>2. i \in Nat /\ i + 1 \in 0 .. Len(q) /\ i + 1 /= 0 /\ (i + 1) - 1 = i
    BY <1>5, <2>1
  <2>3. f[i] = g[i]
    BY <1>5, <2>1, <2>2
  <2>4. f[i + 1] = f[i] + Bytes(q[i + 1]) /\ g[i + 1] = g[i] + Bytes(q[i + 1])
    BY <1>3, <1>4, <2>2
  <2>5. QED BY <2>3, <2>4
<1>8. T = Nat
  <2> HIDE DEF T
  <2>1. \A i \in T : i + 1 \in T
    BY <1>7
  <2>2. T \in SUBSET Nat
    BY DEF T
  <2>3. QED BY <1>6, <2>1, <2>2, Induction
<1>9. QED BY <1>2, <1>5, <1>8

LEMMA SlicesSumUp ==
  ASSUME NEW m \in Messages
  PROVE  SumBytes(SlicesOf(m)) = m.size
<1> DEFINE q == SlicesOf(m)
           n == ChunkCount(m)
           g == [i \in 0 .. n |-> IF i = 0 THEN 0 ELSE q[i].to]
<1>1. n \in Nat \ {0} /\ ChunkMax \in Nat \ {0} /\ m.size \in Nat
  BY Counted
<1>2. /\ q \in Seq(Slices) /\ Len(q) = n
      /\ \A l \in 1 .. n : /\ q[l].of = m /\ q[l].from = ChunkMax * (l - 1) + 1
                           /\ q[l].to = IF l < n THEN ChunkMax * l ELSE m.size
  BY SlicesAre
<1> HIDE DEF q, n
<1>3. ASSUME NEW i \in 0 .. n PROVE g[i] = IF i = 0 THEN 0 ELSE g[i - 1] + Bytes(q[i])
  <2>1. CASE i = 0
    BY <1>1, <2>1
  <2>2. CASE i /= 0
    <3>1. i \in 1 .. n /\ i - 1 \in 0 .. n /\ g[i] = q[i].to
      BY <1>1, <2>2
    <3>2. g[i - 1] = ChunkMax * (i - 1)
      <4>1. CASE i = 1
        BY <1>1, <3>1, <4>1
      <4>2. CASE i /= 1
        <5>1. i - 1 \in 1 .. n /\ i - 1 < n
          BY <1>1, <3>1, <4>2
        <5>2. g[i - 1] = q[i - 1].to
          BY <5>1
        <5>3. QED BY <1>2, <5>1, <5>2
      <4>3. QED BY <4>1, <4>2
    <3>3. q[i].from = ChunkMax * (i - 1) + 1
      BY <1>2, <3>1
    <3>4. q[i].to \in Nat /\ ChunkMax * (i - 1) \in Nat
      BY <1>1, <1>2, <3>1 DEF Slices
    <3>5. g[i] = g[i - 1] + Bytes(q[i])
      BY <3>1, <3>2, <3>3, <3>4 DEF Bytes
    <3>6. QED BY <2>2, <3>5
  <2>3. QED BY <2>1, <2>2
<1>4. Sums(g, q)
  <2>1. DOMAIN g = 0 .. Len(q) /\ g = [i \in 0 .. Len(q) |-> g[i]]
    BY <1>2
  <2> HIDE DEF g
  <2>2. g = [i \in 0 .. Len(q) |-> IF i = 0 THEN 0 ELSE g[i - 1] + Bytes(q[i])]
    BY <1>2, <1>3, <2>1
  <2>3. QED BY <2>2 DEF Sums
<1>5. SumBytes(q) = g[Len(q)]
  <2> HIDE DEF g
  <2>1. QED BY <1>2, <1>4, SumBytesIs
<1>6. g[Len(q)] = m.size
  BY <1>1, <1>2
<1>7. QED BY <1>5, <1>6 DEF q

-----------------------------------------------------------------------------
(***************************************************************************)
(* The wires, and the batch that is being read.                            *)
(***************************************************************************)
Datas == [type : {"data"}, slice : Slices]
AnyPacket == Datas \cup Markers

MessageOf(p) == IF p.type = "data" THEN p.slice.of ELSE p.id
StartOf(m) == Marker("start", m, m.size, ChunkCount(m))
EndOf(m) == Marker("end", m, m.size, ChunkCount(m))

ChunksTyped ==
  /\ sent \in [Conn -> Seq(Messages)]
  /\ wire \in [Conn -> Seq(AnyPacket)]
  /\ batch \in Seq(Slices) \cup {NoBatch}
  /\ start \in Markers \cup {NoBatch}
  /\ batch = NoBatch <=> start = NoBatch
  /\ received \in [Conn -> Seq(Seq(Slices))]

(* Messages are numbered. *)
Numbered == \A c \in Conn : \A i \in 1 .. Len(sent[c]) : sent[c][i].conn = c /\ sent[c][i].n = i

(* From place d on, but for the first k of them, the queue has the slices  *)
(* of m and its end marker, and then what was sent after m.                *)
Continues(q, d, m, k) ==
  /\ d + ChunkCount(m) + 1 <= Len(q)
  /\ \A l \in k + 1 .. ChunkCount(m) : q[d + l] = Data(SlicesOf(m)[l])
  /\ q[d + ChunkCount(m) + 1] = EndOf(m)
  /\ \A j \in 1 .. Len(q) : j > d + ChunkCount(m) + 1 => MessageOf(q[j]).n > m.n

(* Messages that are whole on the wire are whole there. *)
OnWire(q, c) ==
  \A i \in 1 .. Len(q) :
    /\ \E s \in 1 .. Len(sent[c]) : MessageOf(q[i]) = sent[c][s]
    /\ q[i].type = "start" => /\ q[i] = StartOf(MessageOf(q[i])) /\ Large(MessageOf(q[i]))
                              /\ Continues(q, i, MessageOf(q[i]), 0)

(* k slices of m were read, among others perhaps. *)
Collected(slices, m, k) ==
  /\ Len(slices) >= k
  /\ Len(slices) = k => \A l \in 1 .. k : slices[l] = SlicesOf(m)[l]

(* The rest of the message that is being read is the next on its wire, or  *)
(* the wire has lost it.                                                   *)
Reading ==
  start /= NoBatch =>
    LET m == start.id IN
    /\ start = StartOf(m) /\ Large(m) /\ m.conn \in Conn
    /\ \E s \in 1 .. Len(sent[m.conn]) : m = sent[m.conn][s]
    /\ \E k \in 0 .. ChunkCount(m) :
         /\ Collected(batch, m, k)
         /\ \/ Continues(wire[m.conn], 0 - k, m, k)
            \/ \A j \in 1 .. Len(wire[m.conn]) : MessageOf(wire[m.conn][j]).n > m.n

(* AssembledIntact, by places. *)
Intact ==
  \A c \in Conn : \A i \in 1 .. Len(received[c]) :
    Len(received[c][i]) > 1 =>
      \E s \in 1 .. Len(sent[c]) : IsWhole(received[c][i], sent[c][s])

AssembledInv ==
  ChunksTyped /\ Numbered /\ (\A c \in Conn : OnWire(wire[c], c)) /\ Reading /\ Intact

(* The first and the last packet of a message. *)
Begins(p) == p.type = "start" \/ (p.type = "data" /\ ~ Large(p.slice.of))
Ends(p)   == p.type = "end"   \/ (p.type = "data" /\ ~ Large(p.slice.of))

(* Messages follow each other, and one that is small is in one packet. *)
InOrder(q, last) ==
  \A i \in 1 .. Len(q) :
    /\ q[i].type = "data" /\ Begins(q[i]) =>
         q[i].slice = Slice(q[i].slice.of, 1, q[i].slice.of.size)
    /\ Ends(q[i]) =>
         IF i = Len(q) THEN MessageOf(q[i]).n = last
         ELSE Begins(q[i + 1]) /\ MessageOf(q[i + 1]).n = MessageOf(q[i]).n + 1

(* A wire that is not being read has the message after those received.     *)
Waiting(c) ==
  start = NoBatch \/ start.id.conn /= c =>
    IF wire[c] = <<>> THEN Len(received[c]) = Len(sent[c])
    ELSE Begins(wire[c][1]) /\ MessageOf(wire[c][1]).n = Len(received[c]) + 1

(* What is being read is the message after those received, and nothing     *)
(* else.                                                                   *)
ReadingAlone ==
  start /= NoBatch =>
    LET m == start.id IN
    /\ m.n = Len(received[m.conn]) + 1
    /\ \E k \in 0 .. ChunkCount(m) :
         Collected(batch, m, k) /\ Len(batch) = k /\ Continues(wire[m.conn], 0 - k, m, k)

Undisturbed == turns /\ losses = 0 /\ evictions = 0

(***************************************************************************)
(* Sequences.                                                              *)
(***************************************************************************)
LEMMA TailIs ==
  ASSUME NEW S, NEW q \in Seq(S), q /= <<>>
  PROVE  /\ Tail(q) \in Seq(S) /\ Len(q) \in Nat \ {0} /\ Len(Tail(q)) = Len(q) - 1
         /\ Head(q) = q[1] /\ q[1] \in S
         /\ \A i \in 1 .. Len(q) - 1 : Tail(q)[i] = q[i + 1]
OBVIOUS

LEMMA NoPackets ==
  ASSUME NEW S, NEW q \in Seq(S)
  PROVE  q = <<>> <=> Len(q) = 0
OBVIOUS

LEMMA AppendIs ==
  ASSUME NEW S, NEW q \in Seq(S), NEW e \in S
  PROVE  /\ Append(q, e) \in Seq(S) /\ Len(q) \in Nat /\ Len(Append(q, e)) = Len(q) + 1
         /\ Append(q, e)[Len(q) + 1] = e
         /\ \A i \in 1 .. Len(q) : Append(q, e)[i] = q[i]
OBVIOUS

LEMMA ConcatIs ==
  ASSUME NEW S, NEW q \in Seq(S), NEW r \in Seq(S)
  PROVE  /\ q \o r \in Seq(S) /\ Len(q) \in Nat /\ Len(r) \in Nat
         /\ Len(q \o r) = Len(q) + Len(r)
         /\ \A i \in 1 .. Len(q) : (q \o r)[i] = q[i]
         /\ \A i \in 1 .. Len(r) : (q \o r)[Len(q) + i] = r[i]
OBVIOUS

LEMMA SameSequence ==
  ASSUME NEW S, NEW q \in Seq(S), NEW r \in Seq(S), Len(q) = Len(r),
         \A i \in 1 .. Len(q) : q[i] = r[i]
  PROVE  q = r
OBVIOUS

(***************************************************************************)
(* Packets.                                                                *)
(***************************************************************************)
LEMMA KindsOfPackets ==
  ASSUME NEW p \in AnyPacket
  PROVE  /\ p.type \in {"data", "start", "end"} /\ MessageOf(p) \in Messages
         /\ p.type = "data" => p \in Datas /\ p.slice \in Slices /\ MessageOf(p) = p.slice.of
         /\ p.type /= "data" => p \in Markers /\ MessageOf(p) = p.id
BY DEF AnyPacket, Datas, Markers, Slices, MessageOf

LEMMA PacketsOfMessages ==
  ASSUME NEW m \in Messages
  PROVE  /\ StartOf(m) \in Markers /\ StartOf(m).type = "start" /\ StartOf(m).id = m
         /\ StartOf(m).count = ChunkCount(m)
         /\ EndOf(m) \in Markers /\ EndOf(m).type = "end" /\ EndOf(m).id = m
         /\ EndOf(m).count = ChunkCount(m) /\ EndOf(m).size = m.size
         /\ StartOf(m) = [EndOf(m) EXCEPT !.type = "start"]
         /\ \A s \in Slices : Data(s) \in Datas /\ Data(s).type = "data" /\ Data(s).slice = s
<1>1. m.size \in Nat /\ ChunkCount(m) \in Nat
  BY Counted
<1>2. QED BY <1>1 DEF StartOf, EndOf, Marker, Markers, Data, Datas

(* What sendChunked() sends: one packet, or slices between markers.        *)
LEMMA PacketsAre ==
  ASSUME NEW m \in Messages
  PROVE  /\ Packets(m) \in Seq(AnyPacket)
         /\ \A i \in 1 .. Len(Packets(m)) : MessageOf(Packets(m)[i]) = m
         /\ ~ Large(m) => /\ Len(Packets(m)) = 1
                          /\ Packets(m)[1] = Data(Slice(m, 1, m.size))
         /\ Large(m) => /\ Len(Packets(m)) = ChunkCount(m) + 2
                        /\ Packets(m)[1] = StartOf(m)
                        /\ \A l \in 1 .. ChunkCount(m) : Packets(m)[l + 1] = Data(SlicesOf(m)[l])
                        /\ Packets(m)[ChunkCount(m) + 2] = EndOf(m)
<1> DEFINE n == ChunkCount(m)
<1>1. m.size \in Nat /\ ChunkMax \in Nat /\ n \in Nat \ {0} /\ (Large(m) <=> ~ (m.size <= ChunkMax))
  BY Counted DEF Large
<1>2. CASE ~ Large(m)
  <2>1. Packets(m) = <<Data(Slice(m, 1, m.size))>>
    BY <1>1, <1>2 DEF Packets
  <2>2. Slice(m, 1, m.size) \in Slices /\ Slice(m, 1, m.size).of = m
    BY <1>1 DEF Slice, Slices
  <2>3. Data(Slice(m, 1, m.size)) \in AnyPacket /\ MessageOf(Data(Slice(m, 1, m.size))) = m
    BY <2>2 DEF Data, AnyPacket, Datas, MessageOf
  <2>4. QED BY <1>2, <2>1, <2>3
<1>3. CASE Large(m)
  <2> DEFINE datas == [i \in 1 .. n |-> Data(SlicesOf(m)[i])]
  <2>1. /\ SlicesOf(m) \in Seq(Slices) /\ Len(SlicesOf(m)) = n /\ DOMAIN SlicesOf(m) = 1 .. n
        /\ \A l \in 1 .. n : SlicesOf(m)[l] \in Slices /\ SlicesOf(m)[l].of = m
    BY SlicesAre
  <2>2. Packets(m) = (<<StartOf(m)>> \o datas) \o <<EndOf(m)>>
    BY <1>1, <1>3, <2>1, SlicesSumUp DEF Packets, StartOf, EndOf
  <2>3. \A l \in 1 .. n : Data(SlicesOf(m)[l]) \in AnyPacket /\ MessageOf(Data(SlicesOf(m)[l])) = m
    BY <2>1 DEF Data, AnyPacket, Datas, MessageOf
  <2>4. /\ StartOf(m) \in AnyPacket /\ EndOf(m) \in AnyPacket
        /\ MessageOf(StartOf(m)) = m /\ MessageOf(EndOf(m)) = m
    BY PacketsOfMessages DEF AnyPacket, MessageOf
  <2>5. datas \in [1 .. n -> AnyPacket]
    BY <2>3
  <2>6. datas \in Seq(AnyPacket) /\ Len(datas) = n /\ \A l \in 1 .. n : datas[l] = Data(SlicesOf(m)[l])
    BY <1>1, <2>5
  <2> HIDE DEF datas, n
  <2> DEFINE front == <<StartOf(m)>> \o datas
  <2>7. /\ front \in Seq(AnyPacket) /\ Len(front) = n + 1 /\ front[1] = StartOf(m)
        /\ \A l \in 1 .. n : front[l + 1] = datas[l]
    <3>1. <<StartOf(m)>> \in Seq(AnyPacket) /\ Len(<<StartOf(m)>>) = 1
          /\ <<StartOf(m)>>[1] = StartOf(m)
      BY <2>4
    <3>2. /\ front \in Seq(AnyPacket) /\ Len(front) = 1 + n /\ front[1] = StartOf(m)
          /\ \A l \in 1 .. n : front[1 + l] = datas[l]
      BY <1>1, <2>6, <3>1, ConcatIs
    <3>3. \A l \in 1 .. n : 1 + l = l + 1
      OBVIOUS
    <3>4. QED BY <1>1, <3>2, <3>3
  <2> HIDE DEF front
  <2>8. /\ Packets(m) \in Seq(AnyPacket) /\ Len(Packets(m)) = n + 2
        /\ \A i \in 1 .. n + 1 : Packets(m)[i] = front[i]
        /\ Packets(m)[n + 2] = EndOf(m)
    <3>1. Packets(m) = Append(front, EndOf(m))
      BY <2>2, <2>4, <2>7 DEF front
    <3>2. Len(front) + 1 = n + 2
      BY <1>1, <2>7
    <3>3. QED BY <1>1, <2>4, <2>7, <3>1, <3>2, AppendIs
  <2>9. ASSUME NEW i \in 1 .. n + 2 PROVE MessageOf(Packets(m)[i]) = m
    <3>1. CASE i = 1
      BY <1>1, <2>4, <2>7, <2>8, <3>1
    <3>2. CASE i = n + 2
      BY <2>4, <2>8, <3>2
    <3>3. CASE i /= 1 /\ i /= n + 2
      <4> DEFINE l == i - 1
      <4>1. l \in 1 .. n /\ l + 1 = i /\ i \in 1 .. n + 1
        BY <1>1, <3>3
      <4>2. Packets(m)[i] = datas[l]
        BY <2>7, <2>8, <4>1
      <4>3. QED BY <2>3, <2>6, <4>1, <4>2
    <3>4. QED BY <3>1, <3>2, <3>3
  <2>10. Packets(m)[1] = StartOf(m)
    BY <1>1, <2>7, <2>8
  <2>11. ASSUME NEW l \in 1 .. n PROVE Packets(m)[l + 1] = Data(SlicesOf(m)[l])
    <3>1. l + 1 \in 1 .. n + 1
      BY <1>1
    <3>2. QED BY <2>6, <2>7, <2>8, <3>1
  <2>12. QED BY <1>3, <2>8, <2>9, <2>10, <2>11 DEF n
<1>4. QED BY <1>2, <1>3

(***************************************************************************)
(* What the wire promises stays true when a packet is taken from it and    *)
(* when a message is added.                                                *)
(***************************************************************************)
LEMMA ContinuesTaken ==
  ASSUME NEW q \in Seq(AnyPacket), q /= <<>>, NEW m \in Messages, NEW d \in Int,
         NEW k \in 0 .. ChunkCount(m), d + k >= 1, Continues(q, d, m, k)
  PROVE  Continues(Tail(q), d - 1, m, k)
<1> DEFINE n == ChunkCount(m)
           t == Tail(q)
<1>1. n \in Nat \ {0} /\ k \in Nat
  BY Counted
<1>2. /\ t \in Seq(AnyPacket) /\ Len(q) \in Nat \ {0} /\ Len(t) = Len(q) - 1
      /\ \A i \in 1 .. Len(q) - 1 : t[i] = q[i + 1]
  BY TailIs
<1>3. /\ d + n + 1 <= Len(q)
      /\ \A l \in k + 1 .. n : q[d + l] = Data(SlicesOf(m)[l])
      /\ q[d + n + 1] = EndOf(m)
      /\ \A j \in 1 .. Len(q) : j > d + n + 1 => MessageOf(q[j]).n > m.n
  BY DEF Continues
<1> HIDE DEF n, t
<1>4. n >= k
  BY DEF n
<1>5. (d - 1) + n + 1 <= Len(t)
  BY <1>1, <1>2, <1>3
<1>6. ASSUME NEW l \in k + 1 .. n PROVE t[(d - 1) + l] = Data(SlicesOf(m)[l])
  <2>1. (d - 1) + l \in 1 .. Len(q) - 1 /\ ((d - 1) + l) + 1 = d + l
    BY <1>1, <1>2, <1>3
  <2>2. QED BY <1>2, <1>3, <2>1
<1>7. t[(d - 1) + n + 1] = EndOf(m)
  <2>1. (d - 1) + n + 1 \in 1 .. Len(q) - 1 /\ ((d - 1) + n + 1) + 1 = d + n + 1
    BY <1>1, <1>2, <1>3, <1>4
  <2>2. t[(d - 1) + n + 1] = q[d + n + 1]
    BY <1>2, <2>1
  <2>3. QED BY <1>3, <2>2
<1>8. ASSUME NEW j \in 1 .. Len(t), j > (d - 1) + n + 1 PROVE MessageOf(t[j]).n > m.n
  <2>1. j \in 1 .. Len(q) - 1 /\ j + 1 \in 1 .. Len(q) /\ j + 1 > d + n + 1
    BY <1>1, <1>2, <1>8
  <2>2. t[j] = q[j + 1]
    BY <1>2, <2>1
  <2>3. QED BY <1>3, <2>1, <2>2
<1>9. QED BY <1>5, <1>6, <1>7, <1>8 DEF Continues, n, t

LEMMA ContinuesFurther ==
  ASSUME NEW q \in Seq(AnyPacket), NEW r \in Seq(AnyPacket), NEW m \in Messages, NEW d \in Int,
         NEW k \in 0 .. ChunkCount(m), d + k >= 0, Continues(q, d, m, k),
         \A i \in 1 .. Len(r) : MessageOf(r[i]).n > m.n
  PROVE  Continues(q \o r, d, m, k)
<1> DEFINE n == ChunkCount(m)
           t == q \o r
<1>1. n \in Nat \ {0} /\ k \in Nat
  BY Counted
<1>2. /\ Len(q) \in Nat /\ Len(r) \in Nat /\ Len(t) = Len(q) + Len(r)
      /\ \A i \in 1 .. Len(q) : t[i] = q[i]
      /\ \A i \in 1 .. Len(r) : t[Len(q) + i] = r[i]
  BY ConcatIs
<1>3. /\ d + n + 1 <= Len(q)
      /\ \A l \in k + 1 .. n : q[d + l] = Data(SlicesOf(m)[l])
      /\ q[d + n + 1] = EndOf(m)
      /\ \A j \in 1 .. Len(q) : j > d + n + 1 => MessageOf(q[j]).n > m.n
  BY DEF Continues
<1> HIDE DEF n, t
<1>4. n >= k
  BY DEF n
<1>5. d + n + 1 <= Len(t)
  BY <1>1, <1>2, <1>3
<1>6. ASSUME NEW l \in k + 1 .. n PROVE t[d + l] = Data(SlicesOf(m)[l])
  <2>1. d + l \in 1 .. Len(q)
    BY <1>1, <1>2, <1>3
  <2>2. QED BY <1>2, <1>3, <2>1
<1>7. t[d + n + 1] = EndOf(m)
  <2>1. d + n + 1 \in 1 .. Len(q)
    BY <1>1, <1>2, <1>3, <1>4
  <2>2. t[d + n + 1] = q[d + n + 1]
    BY <1>2, <2>1
  <2>3. QED BY <1>3, <2>2
<1>8. ASSUME NEW j \in 1 .. Len(t), j > d + n + 1 PROVE MessageOf(t[j]).n > m.n
  <2>1. CASE j \in 1 .. Len(q)
    BY <1>2, <1>3, <1>8, <2>1
  <2>2. CASE j \notin 1 .. Len(q)
    <3> DEFINE i == j - Len(q)
    <3>1. i \in 1 .. Len(r) /\ Len(q) + i = j
      BY <1>2, <2>2
    <3>2. t[j] = r[i]
      BY <1>2, <3>1
    <3>3. QED BY <3>1, <3>2
  <2>3. QED BY <2>1, <2>2
<1>9. QED BY <1>5, <1>6, <1>7, <1>8 DEF Continues, n, t

(* The packet that is taken, and the wire without it. *)
LEMMA PacketTaken ==
  ASSUME AssembledInv, NEW c \in Conn, wire[c] /= <<>>,
         wire' = [wire EXCEPT ![c] = Tail(@)], UNCHANGED sent
  PROVE  /\ wire' \in [Conn -> Seq(AnyPacket)] /\ \A e \in Conn : OnWire(wire[e], e)'
         /\ Head(wire[c]) = wire[c][1] /\ wire[c][1] \in AnyPacket
         /\ \E s \in 1 .. Len(sent[c]) : MessageOf(wire[c][1]) = sent[c][s]
         /\ MessageOf(wire[c][1]).conn = c /\ MessageOf(wire[c][1]) \in Messages
         /\ wire'[c] = Tail(wire[c]) /\ \A e \in Conn \ {c} : wire'[e] = wire[e]
<1> DEFINE q == wire[c]
<1>1. /\ wire \in [Conn -> Seq(AnyPacket)] /\ sent \in [Conn -> Seq(Messages)]
      /\ q \in Seq(AnyPacket) /\ q /= <<>> /\ Numbered /\ \A e \in Conn : OnWire(wire[e], e)
  BY DEF AssembledInv, ChunksTyped
<1>2. /\ Tail(q) \in Seq(AnyPacket) /\ Len(q) \in Nat \ {0} /\ Len(Tail(q)) = Len(q) - 1
      /\ Head(q) = q[1] /\ q[1] \in AnyPacket
      /\ \A i \in 1 .. Len(q) - 1 : Tail(q)[i] = q[i + 1]
  BY <1>1, TailIs
<1>3. /\ wire' \in [Conn -> Seq(AnyPacket)] /\ wire'[c] = Tail(q)
      /\ \A e \in Conn \ {c} : wire'[e] = wire[e]
  BY <1>1, <1>2
<1>4. PICK s \in 1 .. Len(sent[c]) : MessageOf(q[1]) = sent[c][s]
  BY <1>1, <1>2 DEF OnWire
<1>5. MessageOf(q[1]).conn = c /\ MessageOf(q[1]) \in Messages
  BY <1>1, <1>2, <1>4, KindsOfPackets DEF Numbered
<1>6. ASSUME NEW i \in 1 .. Len(Tail(q))
      PROVE  /\ \E z \in 1 .. Len(sent[c]) : MessageOf(Tail(q)[i]) = sent[c][z]
             /\ Tail(q)[i].type = "start" =>
                  /\ Tail(q)[i] = StartOf(MessageOf(Tail(q)[i])) /\ Large(MessageOf(Tail(q)[i]))
                  /\ Continues(Tail(q), i, MessageOf(Tail(q)[i]), 0)
  <2> DEFINE p == q[i + 1]
  <2>1. i + 1 \in 1 .. Len(q) /\ Tail(q)[i] = p /\ p \in AnyPacket /\ i \in Nat
    BY <1>1, <1>2
  <2>2. /\ \E z \in 1 .. Len(sent[c]) : MessageOf(p) = sent[c][z]
        /\ p.type = "start" => /\ p = StartOf(MessageOf(p)) /\ Large(MessageOf(p))
                               /\ Continues(q, i + 1, MessageOf(p), 0)
    BY <1>1, <2>1 DEF OnWire
  <2>3. MessageOf(p) \in Messages
    BY <2>1, KindsOfPackets
  <2> HIDE DEF p
  <2>4. ASSUME Continues(q, i + 1, MessageOf(p), 0)
        PROVE  Continues(Tail(q), i, MessageOf(p), 0)
    <3>1. 0 \in 0 .. ChunkCount(MessageOf(p)) /\ (i + 1) + 0 >= 1 /\ (i + 1) - 1 = i
          /\ i + 1 \in Int
      BY <2>1, <2>3, Counted
    <3>2. Continues(Tail(q), (i + 1) - 1, MessageOf(p), 0)
      BY <1>1, <2>3, <2>4, <3>1, ContinuesTaken
    <3>3. QED BY <3>1, <3>2
  <2>5. QED BY <2>1, <2>2, <2>4
<1>7. OnWire(Tail(q), c)
  BY <1>6 DEF OnWire
<1>8. ASSUME NEW e \in Conn PROVE OnWire(wire'[e], e)
  BY <1>1, <1>3, <1>7
<1>9. ASSUME NEW e \in Conn PROVE OnWire(wire[e], e)'
  <2>1. OnWire(wire'[e], e) /\ sent'[e] = sent[e]
    BY <1>8
  <2>2. QED BY <2>1 DEF OnWire
<1>10. QED BY <1>2, <1>3, <1>4, <1>5, <1>9

(***************************************************************************)
(* Nothing is put together but whole messages.                             *)
(***************************************************************************)

(* A packet of another connection, or of a later message, may be read; the *)
(* message being read is next on its wire or not there any more.           *)
LEMMA NextOfReading ==
  ASSUME AssembledInv, start /= NoBatch, NEW k \in 0 .. ChunkCount(start.id),
         Continues(wire[start.id.conn], 0 - k, start.id, k), wire[start.id.conn] /= <<>>
  PROVE  LET m == start.id
             p == wire[m.conn][1] IN
         /\ k < ChunkCount(m) => /\ p = Data(SlicesOf(m)[k + 1]) /\ p.type = "data"
                                 /\ p.slice = SlicesOf(m)[k + 1]
                                 /\ Continues(Tail(wire[m.conn]), 0 - (k + 1), m, k + 1)
         /\ k = ChunkCount(m) => p = EndOf(m) /\ p.type = "end"
<1> DEFINE m == start.id
           q == wire[m.conn]
           n == ChunkCount(m)
<1>1. m \in Messages /\ m.conn \in Conn /\ q \in Seq(AnyPacket) /\ q /= <<>>
  BY DEF AssembledInv, Reading, ChunksTyped, Markers
<1>2. n \in Nat \ {0} /\ k \in Nat /\ k <= n
  BY <1>1, Counted
<1>3. /\ \A l \in k + 1 .. n : q[(0 - k) + l] = Data(SlicesOf(m)[l])
      /\ q[(0 - k) + n + 1] = EndOf(m)
  BY DEF Continues
<1>4. ASSUME k < n
      PROVE  /\ q[1] = Data(SlicesOf(m)[k + 1]) /\ q[1].type = "data"
             /\ q[1].slice = SlicesOf(m)[k + 1] /\ Continues(Tail(q), 0 - (k + 1), m, k + 1)
  <2>1. k + 1 \in k + 1 .. n /\ (0 - k) + (k + 1) = 1
    BY <1>2, <1>4
  <2>2. q[1] = Data(SlicesOf(m)[k + 1])
    BY <1>3, <2>1
  <2>3. SlicesOf(m)[k + 1] \in Slices
    BY <1>1, <1>2, <1>4, SlicesAre
  <2>4. q[1].type = "data" /\ q[1].slice = SlicesOf(m)[k + 1]
    BY <1>1, <2>2, <2>3, PacketsOfMessages
  <2>5. Continues(q, 0 - k, m, k + 1)
    <3>1. \A l \in (k + 1) + 1 .. n : l \in k + 1 .. n
      BY <1>2
    <3>2. QED BY <3>1 DEF Continues
  <2>6. 0 - k \in Int /\ k + 1 \in 0 .. n /\ (0 - k) + (k + 1) >= 1 /\ (0 - k) - 1 = 0 - (k + 1)
    BY <1>2, <1>4
  <2>7. Continues(Tail(q), (0 - k) - 1, m, k + 1)
    BY <1>1, <2>5, <2>6, ContinuesTaken
  <2>8. QED BY <2>2, <2>4, <2>6, <2>7
<1>5. ASSUME k = n PROVE q[1] = EndOf(m) /\ q[1].type = "end"
  <2>1. (0 - k) + n + 1 = 1
    BY <1>2, <1>5
  <2>2. QED BY <1>1, <1>3, <2>1, PacketsOfMessages
<1>6. QED BY <1>4, <1>5

LEMMA StartKeeps ==
  ASSUME AssembledInv, NEW c \in Conn, StartArrives(c)
  PROVE  /\ AssembledInv'
         /\ LET m == MessageOf(wire[c][1]) IN
            start'.id = m /\ batch' = <<>> /\ Continues(wire'[c], 0, m, 0) /\ m.conn = c
<1> DEFINE p == wire[c][1]
           m == MessageOf(p)
<1>1. /\ wire[c] /= <<>> /\ Head(wire[c]).type = "start"
      /\ wire' = [wire EXCEPT ![c] = Tail(@)]
      /\ batch' = <<>> /\ start' = Head(wire[c]) /\ UNCHANGED <<sent, received>>
  BY DEF StartArrives, Packet
<1>2. /\ wire' \in [Conn -> Seq(AnyPacket)] /\ \A e \in Conn : OnWire(wire[e], e)'
      /\ Head(wire[c]) = p /\ p \in AnyPacket
      /\ \E s \in 1 .. Len(sent[c]) : m = sent[c][s]
      /\ m.conn = c /\ m \in Messages /\ wire'[c] = Tail(wire[c])
  BY <1>1, PacketTaken
<1>3. /\ wire[c] \in Seq(AnyPacket) /\ OnWire(wire[c], c) /\ Numbered /\ Intact /\ ChunksTyped
  BY DEF AssembledInv, ChunksTyped
<1>4. 1 \in 1 .. Len(wire[c])
  BY <1>1, <1>3, TailIs
<1>5. p = StartOf(m) /\ Large(m) /\ Continues(wire[c], 1, m, 0)
  BY <1>1, <1>2, <1>3, <1>4 DEF OnWire
<1> HIDE DEF p, m
<1>6. 0 \in 0 .. ChunkCount(m) /\ ChunkCount(m) \in Nat
  BY <1>2, Counted
<1>7. Continues(wire'[c], 0, m, 0)
  <2>1. Continues(Tail(wire[c]), 1 - 1, m, 0)
    BY <1>1, <1>2, <1>3, <1>5, <1>6, ContinuesTaken
  <2>2. QED BY <1>2, <2>1
<1>8. start' = StartOf(m) /\ start'.id = m /\ start' \in Markers
  BY <1>1, <1>2, <1>5, PacketsOfMessages
<1>9. Collected(<<>>, m, 0)
  <2>1. Len(<<>>) = 0 /\ \A l \in 1 .. 0 : FALSE
    OBVIOUS
  <2>2. QED BY <2>1 DEF Collected
<1>10. Reading'
  <2>1. 0 - 0 = 0
    OBVIOUS
  <2>2. Collected(batch', start'.id, 0) /\ Continues(wire'[c], 0 - 0, start'.id, 0)
    BY <1>1, <1>7, <1>8, <1>9, <2>1
  <2>3. /\ start' = StartOf(start'.id) /\ Large(start'.id) /\ start'.id.conn = c
        /\ \E s \in 1 .. Len(sent'[c]) : start'.id = sent'[c][s]
    BY <1>1, <1>2, <1>5, <1>8
  <2>4. 0 \in 0 .. ChunkCount(start'.id)
    BY <1>6, <1>8
  <2>5. QED BY <2>2, <2>3, <2>4 DEF Reading
<1>11. ChunksTyped'
  <2>1. <<>> \in Seq(Slices)
    OBVIOUS
  <2>2. start' /= NoBatch /\ batch' /= NoBatch
    BY <1>1, <1>8, <2>1, NoBatchAssumption
  <2>3. QED BY <1>1, <1>2, <1>3, <1>8, <2>1, <2>2 DEF ChunksTyped
<1>12. Numbered' /\ Intact'
  BY <1>1, <1>3 DEF Numbered, Intact
<1>13. AssembledInv'
  BY <1>2, <1>10, <1>11, <1>12 DEF AssembledInv
<1>14. QED BY <1>1, <1>2, <1>7, <1>8, <1>13 DEF m, p

LEMMA DataKeeps ==
  ASSUME AssembledInv, NEW c \in Conn, DataArrives(c)
  PROVE  AssembledInv'
<1> DEFINE p == wire[c][1]
           m == start.id
<1>1. /\ wire[c] /= <<>> /\ Head(wire[c]).type = "data"
      /\ wire' = [wire EXCEPT ![c] = Tail(@)] /\ UNCHANGED <<sent, start>>
      /\ \/ batch /= NoBatch /\ batch' = Append(batch, Head(wire[c]).slice) /\ UNCHANGED received
         \/ batch = NoBatch /\ Handed(c, <<Head(wire[c]).slice>>) /\ UNCHANGED batch
  BY DEF DataArrives, Packet
<1>2. /\ wire' \in [Conn -> Seq(AnyPacket)] /\ \A e \in Conn : OnWire(wire[e], e)'
      /\ Head(wire[c]) = p /\ p \in AnyPacket /\ MessageOf(p).conn = c
      /\ wire'[c] = Tail(wire[c]) /\ \A e \in Conn \ {c} : wire'[e] = wire[e]
  BY <1>1, PacketTaken
<1>3. /\ ChunksTyped /\ Numbered /\ Intact /\ Reading /\ wire[c] \in Seq(AnyPacket)
      /\ received \in [Conn -> Seq(Seq(Slices))] /\ received[c] \in Seq(Seq(Slices))
  BY DEF AssembledInv, ChunksTyped
<1>4. p.type = "data" /\ p.slice \in Slices
  BY <1>1, <1>2, KindsOfPackets
<1> HIDE DEF p
<1>5. Numbered'
  BY <1>1, <1>3 DEF Numbered
<1>6. CASE batch = NoBatch
  <2>1. batch' = NoBatch /\ start = NoBatch /\ start' = NoBatch
        /\ received' = [received EXCEPT ![c] = Append(@, <<p.slice>>)]
    BY <1>1, <1>2, <1>3, <1>6 DEF ChunksTyped, Handed
  <2>2. <<p.slice>> \in Seq(Slices) /\ Len(<<p.slice>>) = 1
    BY <1>4
  <2> DEFINE r == received[c]
             t == Append(r, <<p.slice>>)
  <2>3. /\ t \in Seq(Seq(Slices)) /\ Len(r) \in Nat /\ Len(t) = Len(r) + 1
        /\ t[Len(r) + 1] = <<p.slice>> /\ \A i \in 1 .. Len(r) : t[i] = r[i]
    BY <1>3, <2>2, AppendIs
  <2>4. /\ received' \in [Conn -> Seq(Seq(Slices))] /\ received'[c] = t
        /\ \A e \in Conn \ {c} : received'[e] = received[e]
    BY <1>3, <2>1, <2>3
  <2> HIDE DEF t
  <2>5. ASSUME NEW e \in Conn, NEW i \in 1 .. Len(received'[e]), Len(received'[e][i]) > 1
        PROVE  \E s \in 1 .. Len(sent'[e]) : IsWhole(received'[e][i], sent'[e][s])
    <3>1. i \in 1 .. Len(received[e]) /\ received'[e][i] = received[e][i]
      <4>1. CASE e = c
        <5>1. ASSUME i = Len(r) + 1 PROVE FALSE
          <6>1. received'[e][i] = <<p.slice>>
            BY <2>3, <2>4, <4>1, <5>1
          <6>2. QED BY <2>2, <2>5, <6>1
        <5>2. i \in 1 .. Len(r) + 1
          BY <2>3, <2>4, <4>1
        <5>3. i \in 1 .. Len(r)
          BY <2>3, <5>1, <5>2
        <5>4. QED BY <2>3, <2>4, <4>1, <5>3
      <4>2. CASE e /= c
        BY <2>4, <4>2
      <4>3. QED BY <4>1, <4>2
    <3>2. QED BY <1>1, <1>3, <2>5, <3>1 DEF Intact
  <2>6. Intact'
    BY <2>5 DEF Intact
  <2>7. Reading'
    BY <2>1 DEF Reading
  <2>8. ChunksTyped'
    BY <1>1, <1>2, <1>3, <2>1, <2>4 DEF ChunksTyped
  <2>9. QED BY <1>2, <1>5, <2>6, <2>7, <2>8 DEF AssembledInv
<1>7. CASE batch /= NoBatch
  <2>1. batch \in Seq(Slices) /\ start /= NoBatch /\ batch' = Append(batch, p.slice)
        /\ received' = received
    BY <1>1, <1>2, <1>3, <1>7 DEF ChunksTyped
  <2>2. /\ batch' \in Seq(Slices) /\ Len(batch) \in Nat /\ Len(batch') = Len(batch) + 1
        /\ batch'[Len(batch) + 1] = p.slice /\ \A i \in 1 .. Len(batch) : batch'[i] = batch[i]
    BY <1>4, <2>1, AppendIs
  <2>3. Intact'
    BY <1>1, <1>3, <2>1 DEF Intact
  <2>4. ChunksTyped'
    BY <1>1, <1>2, <1>3, <2>1, <2>2, NoBatchAssumption DEF ChunksTyped
  <2>5. /\ start = StartOf(m) /\ Large(m) /\ m.conn \in Conn
        /\ \E s \in 1 .. Len(sent[m.conn]) : m = sent[m.conn][s]
    BY <1>3, <2>1 DEF Reading
  <2>6. m \in Messages /\ ChunkCount(m) \in Nat
    BY <1>3, <2>1, Counted DEF ChunksTyped, Markers
  <2>7. PICK k \in 0 .. ChunkCount(m) :
          /\ Collected(batch, m, k)
          /\ \/ Continues(wire[m.conn], 0 - k, m, k)
             \/ \A j \in 1 .. Len(wire[m.conn]) : MessageOf(wire[m.conn][j]).n > m.n
    BY <1>3, <2>1 DEF Reading
  <2> DEFINE Read(i) == /\ Collected(batch', m, i)
                        /\ \/ Continues(wire'[m.conn], 0 - i, m, i)
                           \/ \A j \in 1 .. Len(wire'[m.conn]) : MessageOf(wire'[m.conn][j]).n > m.n
  <2>8. Collected(batch', m, k)
    BY <2>2, <2>6, <2>7 DEF Collected
  <2>9. \E i \in 0 .. ChunkCount(m) : Read(i)
    <3>1. CASE m.conn /= c
      BY <1>2, <2>5, <2>7, <2>8, <3>1
    <3>2. CASE m.conn = c /\ Continues(wire[m.conn], 0 - k, m, k)
      <4>1. k < ChunkCount(m)
        <5>1. k = ChunkCount(m) => p.type = "end"
          BY <1>1, <2>1, <3>2, NextOfReading DEF p
        <5>2. QED BY <1>4, <2>6, <5>1
      <4>2. p.slice = SlicesOf(m)[k + 1] /\ Continues(Tail(wire[c]), 0 - (k + 1), m, k + 1)
        BY <1>1, <2>1, <3>2, <4>1, NextOfReading DEF p
      <4>3. Collected(batch', m, k + 1)
        <5>1. Len(batch') >= k + 1
          BY <2>2, <2>6, <2>7 DEF Collected
        <5>2. ASSUME Len(batch') = k + 1, NEW l \in 1 .. k + 1 PROVE batch'[l] = SlicesOf(m)[l]
          <6>1. Len(batch) = k
            BY <2>2, <2>6, <5>2
          <6>2. CASE l = k + 1
            BY <2>2, <4>2, <6>1, <6>2
          <6>3. CASE l /= k + 1
            <7>1. l \in 1 .. k
              BY <2>6, <5>2, <6>3
            <7>2. QED BY <2>2, <2>7, <6>1, <7>1 DEF Collected
          <6>4. QED BY <6>2, <6>3
        <5>3. QED BY <5>1, <5>2 DEF Collected
      <4>4. k + 1 \in 0 .. ChunkCount(m)
        BY <2>6, <4>1
      <4>5. QED BY <1>2, <3>2, <4>2, <4>3, <4>4
    <3>3. CASE m.conn = c /\ \A j \in 1 .. Len(wire[c]) : MessageOf(wire[c][j]).n > m.n
      <4>1. /\ Len(wire[c]) \in Nat \ {0} /\ Len(wire'[c]) = Len(wire[c]) - 1
            /\ \A j \in 1 .. Len(wire[c]) - 1 : wire'[c][j] = wire[c][j + 1]
        BY <1>1, <1>2, <1>3, TailIs
      <4>2. \A j \in 1 .. Len(wire[c]) - 1 : j + 1 \in 1 .. Len(wire[c])
        BY <4>1
      <4>3. \A j \in 1 .. Len(wire'[c]) : MessageOf(wire'[c][j]).n > m.n
        BY <3>3, <4>1, <4>2
      <4>4. QED BY <2>8, <3>3, <4>3
    <3>4. QED BY <2>7, <3>1, <3>2, <3>3
  <2>10. start'.id = m /\ start' = start
    BY <1>1
  <2> HIDE DEF m
  <2>11. Reading'
    BY <1>1, <2>5, <2>9, <2>10 DEF Reading
  <2>12. QED BY <1>2, <1>5, <2>3, <2>4, <2>11 DEF AssembledInv
<1>8. QED BY <1>6, <1>7

(* When an end marker completes what was read, that is its message.        *)
LEMMA CompleteIsWhole ==
  ASSUME AssembledInv, NEW c \in Conn, wire[c] /= <<>>, wire[c][1].type = "end",
         batch /= NoBatch, Complete(wire[c][1])
  PROVE  /\ batch = SlicesOf(start.id) /\ start.id \in Messages /\ start.id.conn = c
         /\ \E s \in 1 .. Len(sent[c]) : start.id = sent[c][s]
<1> DEFINE p == wire[c][1]
           m == start.id
           n == ChunkCount(m)
<1>1. /\ ChunksTyped /\ Numbered /\ Reading /\ OnWire(wire[c], c) /\ wire[c] \in Seq(AnyPacket)
  BY DEF AssembledInv, ChunksTyped
<1>2. batch \in Seq(Slices) /\ start /= NoBatch /\ start \in Markers /\ m \in Messages
      /\ n \in Nat \ {0} /\ n > 1
  BY <1>1, Counted DEF ChunksTyped, Markers, Reading
<1>3. p \in AnyPacket /\ 1 \in 1 .. Len(wire[c]) /\ Len(wire[c]) \in Nat
  BY <1>1, TailIs
<1>4. PICK s \in 1 .. Len(sent[c]) : MessageOf(p) = sent[c][s]
  BY <1>1, <1>3 DEF OnWire
<1>5. p \in Markers /\ MessageOf(p) = p.id
  BY <1>3, KindsOfPackets
<1>6. p.id = m /\ start = StartOf(m) /\ p.count = n /\ Len(batch) = n
  <2>1. start = [p EXCEPT !.type = "start"] /\ Len(batch) = p.count
    BY DEF Complete
  <2>2. start.id = p.id /\ start.count = p.count
    BY <1>5, <2>1 DEF Markers
  <2>3. start = StartOf(m) /\ StartOf(m).count = n
    BY <1>1, <1>2, PacketsOfMessages DEF Reading
  <2>4. QED BY <2>1, <2>2, <2>3
<1>7. m = sent[c][s] /\ m.conn = c
  <2>1. sent[c][s].conn = c
    BY <1>1 DEF Numbered
  <2>2. m = sent[c][s]
    BY <1>4, <1>5, <1>6
  <2>3. QED BY <2>1, <2>2
<1>8. PICK k \in 0 .. n :
        /\ Collected(batch, m, k)
        /\ \/ Continues(wire[m.conn], 0 - k, m, k)
           \/ \A j \in 1 .. Len(wire[m.conn]) : MessageOf(wire[m.conn][j]).n > m.n
  BY <1>1, <1>2 DEF Reading
<1>9. Continues(wire[m.conn], 0 - k, m, k)
  <2>1. m.n \in Nat /\ ~ (m.n > m.n)
    BY <1>2 DEF Messages
  <2>2. ~ \A j \in 1 .. Len(wire[c]) : MessageOf(wire[c][j]).n > m.n
    BY <1>3, <1>5, <1>6, <2>1
  <2>3. QED BY <1>7, <1>8, <2>2
<1>10. k = n
  <2>1. k < n => p.type = "data"
    BY <1>2, <1>7, <1>9, NextOfReading
  <2>2. QED BY <1>2, <2>1
<1>11. batch = SlicesOf(m)
  <2>1. \A l \in 1 .. n : batch[l] = SlicesOf(m)[l]
    BY <1>6, <1>8, <1>10 DEF Collected
  <2>2. SlicesOf(m) \in Seq(Slices) /\ Len(SlicesOf(m)) = n
    BY <1>2, SlicesAre
  <2>3. QED BY <1>2, <1>6, <2>1, <2>2, SameSequence
<1>12. QED BY <1>2, <1>7, <1>11

LEMMA EndKeeps ==
  ASSUME AssembledInv, NEW c \in Conn, EndArrives(c)
  PROVE  AssembledInv'
<1> DEFINE p == wire[c][1]
<1>1. /\ wire[c] /= <<>> /\ Head(wire[c]).type = "end"
      /\ wire' = [wire EXCEPT ![c] = Tail(@)] /\ UNCHANGED sent
  BY DEF EndArrives, Packet
<1>2. /\ wire' \in [Conn -> Seq(AnyPacket)] /\ \A e \in Conn : OnWire(wire[e], e)'
      /\ Head(wire[c]) = p
  BY <1>1, PacketTaken
<1>3. /\ ChunksTyped /\ Numbered /\ Intact
      /\ received \in [Conn -> Seq(Seq(Slices))] /\ received[c] \in Seq(Seq(Slices))
  BY DEF AssembledInv, ChunksTyped
<1>4. \/ batch = NoBatch /\ UNCHANGED <<batch, start, received>>
      \/ batch /= NoBatch /\ Complete(p) /\ Handed(c, batch) /\ BatchDropped
      \/ batch /= NoBatch /\ BatchDropped /\ UNCHANGED received
  BY <1>2 DEF EndArrives
<1>5. batch' = NoBatch /\ start' = NoBatch
  BY <1>3, <1>4 DEF BatchDropped, ChunksTyped
<1>6. Numbered' /\ Reading'
  BY <1>1, <1>3, <1>5 DEF Numbered, Reading
<1>7. CASE UNCHANGED received
  <2>1. ChunksTyped' /\ Intact'
    BY <1>1, <1>2, <1>3, <1>5, <1>7 DEF ChunksTyped, Intact
  <2>2. QED BY <1>2, <1>6, <2>1 DEF AssembledInv
<1>8. CASE batch /= NoBatch /\ Complete(p) /\ Handed(c, batch)
  <2>1. /\ batch = SlicesOf(start.id) /\ start.id \in Messages /\ start.id.conn = c
        /\ \E s \in 1 .. Len(sent[c]) : start.id = sent[c][s]
    BY <1>1, <1>2, <1>8, CompleteIsWhole
  <2>2. \E s \in 1 .. Len(sent[c]) : IsWhole(batch, sent[c][s])
    BY <2>1, SlicesAreWhole
  <2>3. batch \in Seq(Slices)
    BY <1>3, <1>8 DEF ChunksTyped
  <2> DEFINE r == received[c]
             t == Append(r, batch)
  <2>4. /\ t \in Seq(Seq(Slices)) /\ Len(r) \in Nat /\ Len(t) = Len(r) + 1
        /\ t[Len(r) + 1] = batch /\ \A i \in 1 .. Len(r) : t[i] = r[i]
    BY <1>3, <2>3, AppendIs
  <2>5. /\ received' \in [Conn -> Seq(Seq(Slices))] /\ received'[c] = t
        /\ \A e \in Conn \ {c} : received'[e] = received[e]
    BY <1>3, <1>8, <2>4 DEF Handed
  <2> HIDE DEF t
  <2>6. ASSUME NEW e \in Conn, NEW i \in 1 .. Len(received'[e]), Len(received'[e][i]) > 1
        PROVE  \E s \in 1 .. Len(sent'[e]) : IsWhole(received'[e][i], sent'[e][s])
    <3>1. CASE e = c /\ i = Len(r) + 1
      BY <1>1, <2>2, <2>4, <2>5, <3>1
    <3>2. CASE ~ (e = c /\ i = Len(r) + 1)
      <4>1. i \in 1 .. Len(received[e]) /\ received'[e][i] = received[e][i]
        BY <2>4, <2>5, <2>6, <3>2
      <4>2. QED BY <1>1, <1>3, <2>6, <4>1 DEF Intact
    <3>3. QED BY <3>1, <3>2
  <2>7. Intact'
    BY <2>6 DEF Intact
  <2>8. ChunksTyped'
    BY <1>1, <1>2, <1>3, <1>5, <2>5 DEF ChunksTyped
  <2>9. QED BY <1>2, <1>6, <2>7, <2>8 DEF AssembledInv
<1>9. QED BY <1>4, <1>7, <1>8

(* What Send adds to the messages and to the wire of its connection. *)
LEMMA SendAdds ==
  ASSUME AssembledInv, NEW c \in Conn, NEW size \in Sizes, Send(c, size)
  PROVE  LET m == [conn |-> c, n |-> Len(sent[c]) + 1, size |-> size]
             q == wire[c]
             r == Packets(m)
             t == q \o r IN
         /\ m \in Messages /\ m.n = Len(sent[c]) + 1 /\ m.conn = c /\ Len(sent[c]) \in Nat
         /\ UNCHANGED <<batch, start, received>>
         /\ sent'[c] \in Seq(Messages) /\ Len(sent'[c]) = Len(sent[c]) + 1
         /\ sent'[c][Len(sent[c]) + 1] = m
         /\ \A i \in 1 .. Len(sent[c]) : sent'[c][i] = sent[c][i]
         /\ \A e \in Conn \ {c} : sent'[e] = sent[e]
         /\ sent' \in [Conn -> Seq(Messages)]
         /\ r \in Seq(AnyPacket) /\ \A i \in 1 .. Len(r) : MessageOf(r[i]) = m
         /\ t \in Seq(AnyPacket) /\ Len(q) \in Nat /\ Len(r) \in Nat /\ Len(t) = Len(q) + Len(r)
         /\ \A i \in 1 .. Len(q) : t[i] = q[i]
         /\ \A i \in 1 .. Len(r) : t[Len(q) + i] = r[i]
         /\ wire' \in [Conn -> Seq(AnyPacket)] /\ wire'[c] = t
         /\ \A e \in Conn \ {c} : wire'[e] = wire[e]
<1> DEFINE m == [conn |-> c, n |-> Len(sent[c]) + 1, size |-> size]
           q == wire[c]
           r == Packets(m)
<1>1. /\ Len(sent[c]) < MaxMessages
      /\ sent' = [sent EXCEPT ![c] = Append(@, m)]
      /\ wire' = [wire EXCEPT ![c] = q \o r]
      /\ UNCHANGED <<batch, start, received>>
  BY DEF Send
<1>2. /\ ChunksTyped /\ Numbered /\ Intact /\ Reading /\ \A e \in Conn : OnWire(wire[e], e)
      /\ sent \in [Conn -> Seq(Messages)] /\ sent[c] \in Seq(Messages)
      /\ wire \in [Conn -> Seq(AnyPacket)] /\ q \in Seq(AnyPacket)
  BY DEF AssembledInv, ChunksTyped
<1>3. m \in Messages /\ m.n = Len(sent[c]) + 1 /\ m.conn = c /\ Len(sent[c]) \in Nat
  BY <1>1, <1>2, ChunkingAssumption DEF Messages
<1> HIDE DEF m
<1>4. /\ sent'[c] \in Seq(Messages) /\ Len(sent'[c]) = Len(sent[c]) + 1
      /\ sent'[c][Len(sent[c]) + 1] = m
      /\ \A i \in 1 .. Len(sent[c]) : sent'[c][i] = sent[c][i]
      /\ \A e \in Conn \ {c} : sent'[e] = sent[e]
      /\ sent' \in [Conn -> Seq(Messages)]
  <2>1. /\ Append(sent[c], m) \in Seq(Messages) /\ Len(Append(sent[c], m)) = Len(sent[c]) + 1
        /\ Append(sent[c], m)[Len(sent[c]) + 1] = m
        /\ \A i \in 1 .. Len(sent[c]) : Append(sent[c], m)[i] = sent[c][i]
    BY <1>2, <1>3, AppendIs
  <2>2. /\ sent'[c] = Append(sent[c], m) /\ \A e \in Conn \ {c} : sent'[e] = sent[e]
        /\ sent' \in [Conn -> Seq(Messages)]
    BY <1>1, <1>2, <2>1
  <2>3. QED BY <2>1, <2>2
<1>6. /\ r \in Seq(AnyPacket) /\ \A i \in 1 .. Len(r) : MessageOf(r[i]) = m
  BY <1>3, PacketsAre
<1> DEFINE t == q \o r
<1>7. /\ t \in Seq(AnyPacket) /\ Len(q) \in Nat /\ Len(r) \in Nat /\ Len(t) = Len(q) + Len(r)
      /\ \A i \in 1 .. Len(q) : t[i] = q[i]
      /\ \A i \in 1 .. Len(r) : t[Len(q) + i] = r[i]
  BY <1>2, <1>6, ConcatIs
<1>8. /\ wire' \in [Conn -> Seq(AnyPacket)] /\ wire'[c] = t
      /\ \A e \in Conn \ {c} : wire'[e] = wire[e]
  BY <1>1, <1>2, <1>7
<1> HIDE DEF r, t
<1>9. QED BY <1>1, <1>3, <1>4, <1>6, <1>7, <1>8 DEF m, q, r, t

LEMMA SendKeeps ==
  ASSUME AssembledInv, NEW c \in Conn, NEW size \in Sizes, Send(c, size)
  PROVE  AssembledInv'
<1> DEFINE m == [conn |-> c, n |-> Len(sent[c]) + 1, size |-> size]
           q == wire[c]
           r == Packets(m)
           t == q \o r
<1>1. UNCHANGED <<batch, start, received>>
  BY DEF Send
<1>2. /\ ChunksTyped /\ Numbered /\ Intact /\ Reading /\ \A e \in Conn : OnWire(wire[e], e)
      /\ sent \in [Conn -> Seq(Messages)] /\ sent[c] \in Seq(Messages)
      /\ wire \in [Conn -> Seq(AnyPacket)] /\ q \in Seq(AnyPacket)
  BY DEF AssembledInv, ChunksTyped
<1>3. m \in Messages /\ m.n = Len(sent[c]) + 1 /\ m.conn = c /\ Len(sent[c]) \in Nat
  BY SendAdds
<1>4. /\ sent'[c] \in Seq(Messages) /\ Len(sent'[c]) = Len(sent[c]) + 1
      /\ sent'[c][Len(sent[c]) + 1] = m
      /\ \A i \in 1 .. Len(sent[c]) : sent'[c][i] = sent[c][i]
      /\ \A e \in Conn \ {c} : sent'[e] = sent[e]
      /\ sent' \in [Conn -> Seq(Messages)]
  BY SendAdds
<1>6. /\ r \in Seq(AnyPacket) /\ \A i \in 1 .. Len(r) : MessageOf(r[i]) = m
  BY SendAdds
<1>7. /\ t \in Seq(AnyPacket) /\ Len(q) \in Nat /\ Len(r) \in Nat /\ Len(t) = Len(q) + Len(r)
      /\ \A i \in 1 .. Len(q) : t[i] = q[i]
      /\ \A i \in 1 .. Len(r) : t[Len(q) + i] = r[i]
  BY <1>2, <1>6, ConcatIs
<1>8. /\ wire' \in [Conn -> Seq(AnyPacket)] /\ wire'[c] = t
      /\ \A e \in Conn \ {c} : wire'[e] = wire[e]
  BY SendAdds
<1> HIDE DEF m
<1>5. \A e \in Conn : \A i \in 1 .. Len(sent[e]) : i \in 1 .. Len(sent'[e]) /\ sent'[e][i] = sent[e][i]
  <2>1. \A i \in 1 .. Len(sent[c]) : i \in 1 .. Len(sent'[c]) /\ sent'[c][i] = sent[c][i]
    BY <1>3, <1>4
  <2>2. QED BY <1>4, <2>1
<1>9. ASSUME NEW x \in Messages, NEW s \in 1 .. Len(sent[c]), x = sent[c][s]
      PROVE  \A i \in 1 .. Len(r) : MessageOf(r[i]).n > x.n
  <2>1. x.n = s
    BY <1>2, <1>9 DEF Numbered
  <2>2. QED BY <1>3, <1>6, <2>1
<1> HIDE DEF q, r, t
<1>10. ASSUME NEW i \in 1 .. Len(t)
       PROVE  /\ \E s \in 1 .. Len(sent'[c]) : MessageOf(t[i]) = sent'[c][s]
              /\ t[i].type = "start" => /\ t[i] = StartOf(MessageOf(t[i])) /\ Large(MessageOf(t[i]))
                                        /\ Continues(t, i, MessageOf(t[i]), 0)
  <2>1. CASE i \in 1 .. Len(q)
    <3>1. t[i] = q[i] /\ q[i] \in AnyPacket /\ OnWire(q, c)
      BY <1>2, <1>7, <2>1 DEF q
    <3>2. PICK s \in 1 .. Len(sent[c]) : MessageOf(q[i]) = sent[c][s]
      BY <2>1, <3>1 DEF OnWire
    <3>3. MessageOf(t[i]) \in Messages /\ MessageOf(t[i]) = sent[c][s]
      BY <3>1, <3>2, KindsOfPackets
    <3>4. \E z \in 1 .. Len(sent'[c]) : MessageOf(t[i]) = sent'[c][z]
      BY <1>5, <3>3
    <3>5. ASSUME t[i].type = "start"
          PROVE  /\ t[i] = StartOf(MessageOf(t[i])) /\ Large(MessageOf(t[i]))
                 /\ Continues(t, i, MessageOf(t[i]), 0)
      <4>1. /\ t[i] = StartOf(MessageOf(t[i])) /\ Large(MessageOf(t[i]))
            /\ Continues(q, i, MessageOf(t[i]), 0)
        BY <2>1, <3>1, <3>5 DEF OnWire
      <4>2. i \in Int /\ 0 \in 0 .. ChunkCount(MessageOf(t[i])) /\ i + 0 >= 0
        BY <2>1, <3>3, Counted
      <4>3. \A j \in 1 .. Len(r) : MessageOf(r[j]).n > MessageOf(t[i]).n
        BY <1>9, <3>3
      <4>4. q \in Seq(AnyPacket)
        BY <1>2 DEF q
      <4>5. Continues(t, i, MessageOf(t[i]), 0)
        BY <1>6, <3>3, <4>1, <4>2, <4>3, <4>4, ContinuesFurther DEF t
      <4>6. QED BY <4>1, <4>5
    <3>6. QED BY <3>4, <3>5
  <2>2. CASE i \notin 1 .. Len(q)
    <3> DEFINE j == i - Len(q)
    <3>1. j \in 1 .. Len(r) /\ Len(q) + j = i
      BY <1>7, <2>2
    <3>2. t[i] = r[j] /\ MessageOf(t[i]) = m /\ t[i] \in AnyPacket
      <4>1. t[i] = r[j]
        BY <1>7, <3>1
      <4> HIDE DEF j
      <4>2. MessageOf(r[j]) = m /\ r[j] \in AnyPacket
        BY <1>6, <3>1
      <4>3. QED BY <4>1, <4>2
    <3>3. \E s \in 1 .. Len(sent'[c]) : m = sent'[c][s]
      BY <1>3, <1>4
    <3>4. ASSUME t[i].type = "start"
          PROVE  t[i] = StartOf(m) /\ Large(m) /\ Continues(t, i, m, 0)
      <4> DEFINE n == ChunkCount(m)
      <4>1. n \in Nat \ {0} /\ \A l \in 1 .. n : SlicesOf(m)[l] \in Slices
        BY <1>3, Counted, SlicesAre
      <4>2. Large(m)
        <5>1. ASSUME ~ Large(m) PROVE FALSE
          <6>1. Len(r) = 1 /\ r[1] = Data(Slice(m, 1, m.size))
            BY <1>3, <5>1, PacketsAre DEF r
          <6>2. t[i].type = "data"
            BY <3>1, <3>2, <6>1 DEF Data
          <6>3. QED BY <3>4, <6>2
        <5>2. QED BY <5>1
      <4>3. /\ Len(r) = n + 2 /\ r[1] = StartOf(m) /\ r[n + 2] = EndOf(m)
            /\ \A l \in 1 .. n : r[l + 1] = Data(SlicesOf(m)[l])
        BY <1>3, <4>2, PacketsAre DEF r
      <4> HIDE DEF j, n
      <4>4. j = 1
        <5>1. CASE j = n + 2
          BY <1>3, <3>2, <3>4, <4>3, <5>1, PacketsOfMessages
        <5>2. CASE j /= 1 /\ j /= n + 2
          <6>1. j - 1 \in 1 .. n /\ (j - 1) + 1 = j
            BY <3>1, <4>1, <4>3, <5>2
          <6>2. r[j] = Data(SlicesOf(m)[j - 1])
            BY <4>3, <6>1
          <6>3. QED BY <1>3, <3>2, <3>4, <4>1, <6>1, <6>2, PacketsOfMessages
        <5>3. QED BY <5>1, <5>2
      <4>5. i = Len(q) + 1
        BY <1>7, <3>1, <4>4
      <4>6. i + n + 1 = Len(t)
        BY <1>7, <4>1, <4>3, <4>5
      <4>7. ASSUME NEW l \in 1 .. n PROVE t[i + l] = Data(SlicesOf(m)[l])
        <5>1. l + 1 \in 1 .. Len(r) /\ Len(q) + (l + 1) = i + l
          BY <1>7, <4>1, <4>3, <4>5
        <5>2. t[i + l] = r[l + 1]
          BY <1>7, <5>1
        <5>3. QED BY <4>3, <5>2
      <4>8. t[i + n + 1] = EndOf(m)
        <5>1. n + 2 \in 1 .. Len(r) /\ Len(q) + (n + 2) = i + n + 1
          BY <1>7, <4>1, <4>3, <4>5
        <5>2. t[i + n + 1] = r[n + 2]
          BY <1>7, <5>1
        <5>3. QED BY <4>3, <5>2
      <4>9. Continues(t, i, m, 0)
        <5>1. \A z \in 1 .. Len(t) : ~ (z > i + n + 1)
          BY <1>7, <4>6
        <5>2. \A l \in 0 + 1 .. n : l \in 1 .. n
          BY <4>1
        <5>3. i + n + 1 <= Len(t)
          BY <1>7, <4>6
        <5>4. QED BY <4>7, <4>8, <5>1, <5>2, <5>3 DEF Continues, n
      <4>10. QED BY <3>2, <4>2, <4>3, <4>4, <4>9
    <3>5. QED BY <3>2, <3>3, <3>4
  <2>3. QED BY <2>1, <2>2
<1>11. \A e \in Conn : OnWire(wire[e], e)'
  <2>1. ASSUME NEW e \in Conn PROVE OnWire(wire[e], e)'
    <3>1. CASE e = c
      BY <1>8, <1>10, <3>1 DEF OnWire
    <3>2. CASE e /= c
      <4>1. wire'[e] = wire[e] /\ sent'[e] = sent[e] /\ OnWire(wire[e], e)
        BY <1>2, <1>4, <1>8, <3>2
      <4>2. QED BY <4>1 DEF OnWire
    <3>3. QED BY <3>1, <3>2
  <2>2. QED BY <2>1
<1>12. Numbered'
  <2>1. ASSUME NEW e \in Conn, NEW i \in 1 .. Len(sent'[e])
        PROVE  sent'[e][i].conn = e /\ sent'[e][i].n = i
    <3>1. CASE e = c /\ i = Len(sent[c]) + 1
      BY <1>3, <1>4, <3>1
    <3>2. CASE ~ (e = c /\ i = Len(sent[c]) + 1)
      <4>1. i \in 1 .. Len(sent[e]) /\ sent'[e][i] = sent[e][i]
        BY <1>2, <1>3, <1>4, <2>1, <3>2
      <4>2. QED BY <1>2, <4>1 DEF Numbered
    <3>3. QED BY <3>1, <3>2
  <2>2. QED BY <2>1 DEF Numbered
<1>13. Intact'
  <2>1. ASSUME NEW e \in Conn, NEW i \in 1 .. Len(received'[e]), Len(received'[e][i]) > 1
        PROVE  \E s \in 1 .. Len(sent'[e]) : IsWhole(received'[e][i], sent'[e][s])
    <3>1. received' = received
      BY <1>1
    <3>2. PICK s \in 1 .. Len(sent[e]) : IsWhole(received[e][i], sent[e][s])
      BY <1>2, <2>1, <3>1 DEF Intact
    <3>3. s \in 1 .. Len(sent'[e]) /\ sent'[e][s] = sent[e][s]
      BY <1>5
    <3>4. QED BY <3>1, <3>2, <3>3
  <2>2. QED BY <2>1 DEF Intact
<1>14. ChunksTyped'
  BY <1>1, <1>2, <1>4, <1>8 DEF ChunksTyped
<1>15. Reading'
  <2>1. SUFFICES ASSUME start /= NoBatch PROVE Reading'
    BY <1>1 DEF Reading
  <2> DEFINE x == start.id
  <2>2. /\ start = StartOf(x) /\ Large(x) /\ x.conn \in Conn /\ x \in Messages
        /\ \E s \in 1 .. Len(sent[x.conn]) : x = sent[x.conn][s]
    BY <1>2, <2>1 DEF Reading, ChunksTyped, Markers
  <2>3. PICK k \in 0 .. ChunkCount(x) :
          /\ Collected(batch, x, k)
          /\ \/ Continues(wire[x.conn], 0 - k, x, k)
             \/ \A j \in 1 .. Len(wire[x.conn]) : MessageOf(wire[x.conn][j]).n > x.n
    BY <1>2, <2>1 DEF Reading
  <2>4. ChunkCount(x) \in Nat /\ k \in Nat
    BY <2>2, Counted
  <2>5. \/ Continues(wire'[x.conn], 0 - k, x, k)
        \/ \A j \in 1 .. Len(wire'[x.conn]) : MessageOf(wire'[x.conn][j]).n > x.n
    <3>1. CASE x.conn /= c
      BY <1>8, <2>2, <2>3, <3>1
    <3>2. CASE x.conn = c
      <4>1. \A i \in 1 .. Len(r) : MessageOf(r[i]).n > x.n
        BY <1>9, <2>2, <3>2
      <4>2. q \in Seq(AnyPacket) /\ wire[c] = q
        BY <1>2 DEF q
      <4>3. CASE Continues(q, 0 - k, x, k)
        <5>1. 0 - k \in Int /\ (0 - k) + k >= 0
          BY <2>4
        <5>2. Continues(t, 0 - k, x, k)
          BY <1>6, <2>2, <4>1, <4>2, <4>3, <5>1, ContinuesFurther DEF t
        <5>3. QED BY <1>8, <3>2, <5>2
      <4>4. CASE \A j \in 1 .. Len(q) : MessageOf(q[j]).n > x.n
        <5>1. ASSUME NEW j \in 1 .. Len(t) PROVE MessageOf(t[j]).n > x.n
          <6>1. CASE j \in 1 .. Len(q)
            BY <1>7, <4>4, <6>1
          <6>2. CASE j \notin 1 .. Len(q)
            <7> DEFINE i == j - Len(q)
            <7>1. i \in 1 .. Len(r) /\ Len(q) + i = j
              BY <1>7, <6>2
            <7>2. t[j] = r[i]
              BY <1>7, <7>1
            <7>3. QED BY <4>1, <7>1, <7>2
          <6>3. QED BY <6>1, <6>2
        <5>2. QED BY <1>8, <3>2, <5>1
      <4>5. QED BY <2>3, <3>2, <4>2, <4>3, <4>4
    <3>3. QED BY <3>1, <3>2
  <2>6. \E s \in 1 .. Len(sent'[x.conn]) : x = sent'[x.conn][s]
    BY <1>5, <2>2
  <2>7. start' = start /\ batch' = batch /\ start'.id = x
    BY <1>1
  <2> HIDE DEF x
  <2>8. QED BY <2>2, <2>3, <2>5, <2>6, <2>7 DEF Reading
<1>16. QED BY <1>11, <1>12, <1>13, <1>14, <1>15 DEF AssembledInv

LEMMA LossKeeps ==
  ASSUME AssembledInv, NEW c \in Conn, Lose(c)
  PROVE  AssembledInv'
<1>1. wire' = [wire EXCEPT ![c] = <<>>] /\ UNCHANGED <<sent, batch, start, received>>
  BY DEF Lose
<1>2. /\ ChunksTyped /\ Numbered /\ Intact /\ Reading /\ \A e \in Conn : OnWire(wire[e], e)
      /\ wire \in [Conn -> Seq(AnyPacket)]
  BY DEF AssembledInv, ChunksTyped
<1>3. <<>> \in Seq(AnyPacket) /\ Len(<<>>) = 0 /\ \A j \in 1 .. 0 : FALSE
  OBVIOUS
<1>4. /\ wire' \in [Conn -> Seq(AnyPacket)] /\ wire'[c] = <<>>
      /\ \A e \in Conn \ {c} : wire'[e] = wire[e]
  BY <1>1, <1>2, <1>3
<1>5. \A e \in Conn : OnWire(wire[e], e)'
  <2>1. ASSUME NEW e \in Conn PROVE OnWire(wire[e], e)'
    <3>1. CASE e = c
      BY <1>3, <1>4, <3>1 DEF OnWire
    <3>2. CASE e /= c
      <4>1. wire'[e] = wire[e] /\ sent' = sent /\ OnWire(wire[e], e)
        BY <1>1, <1>2, <1>4, <3>2
      <4>2. QED BY <4>1 DEF OnWire
    <3>3. QED BY <3>1, <3>2
  <2>2. QED BY <2>1
<1>6. ChunksTyped' /\ Numbered' /\ Intact'
  BY <1>1, <1>2, <1>4 DEF ChunksTyped, Numbered, Intact
<1>7. Reading'
  <2>1. SUFFICES ASSUME start /= NoBatch PROVE Reading'
    BY <1>1 DEF Reading
  <2> DEFINE m == start.id
  <2>2. /\ start = StartOf(m) /\ Large(m) /\ m.conn \in Conn
        /\ \E s \in 1 .. Len(sent[m.conn]) : m = sent[m.conn][s]
    BY <1>2, <2>1 DEF Reading
  <2>3. PICK k \in 0 .. ChunkCount(m) :
          /\ Collected(batch, m, k)
          /\ \/ Continues(wire[m.conn], 0 - k, m, k)
             \/ \A j \in 1 .. Len(wire[m.conn]) : MessageOf(wire[m.conn][j]).n > m.n
    BY <1>2, <2>1 DEF Reading
  <2>4. \/ Continues(wire'[m.conn], 0 - k, m, k)
        \/ \A j \in 1 .. Len(wire'[m.conn]) : MessageOf(wire'[m.conn][j]).n > m.n
    <3>1. CASE m.conn = c
      BY <1>3, <1>4, <3>1
    <3>2. CASE m.conn /= c
      BY <1>4, <2>2, <2>3, <3>2
    <3>3. QED BY <3>1, <3>2
  <2>5. start' = start /\ batch' = batch /\ sent' = sent /\ start'.id = m
    BY <1>1
  <2> HIDE DEF m
  <2>6. QED BY <2>2, <2>3, <2>4, <2>5 DEF Reading
<1>8. QED BY <1>5, <1>6, <1>7 DEF AssembledInv

LEMMA UnchangedKeeps ==
  ASSUME AssembledInv, UNCHANGED <<sent, wire, received>>,
         UNCHANGED <<batch, start>> \/ (batch' = NoBatch /\ start' = NoBatch)
  PROVE  AssembledInv'
<1>1. ChunksTyped /\ Numbered /\ Intact /\ Reading /\ \A e \in Conn : OnWire(wire[e], e)
  BY DEF AssembledInv
<1>2. ChunksTyped' /\ Numbered' /\ Intact'
  BY <1>1 DEF ChunksTyped, Numbered, Intact
<1>3. Reading'
  BY <1>1 DEF Reading
<1>4. \A e \in Conn : OnWire(wire[e], e)'
  BY <1>1 DEF OnWire
<1>5. QED BY <1>2, <1>3, <1>4 DEF AssembledInv

LEMMA AssembledStep == AssembledInv /\ [ChunkingNext]_chunkingVars => AssembledInv'
<1> SUFFICES ASSUME AssembledInv, [ChunkingNext]_chunkingVars PROVE AssembledInv'
  OBVIOUS
<1>1. CASE \E c \in Conn, size \in Sizes : Send(c, size)
  BY <1>1, SendKeeps
<1>2. CASE \E c \in Conn : Arrives(c)
  BY <1>2, StartKeeps, DataKeeps, EndKeeps DEF Arrives
<1>3. CASE \E c \in Conn : Lose(c)
  BY <1>3, LossKeeps
<1>4. CASE Evict \/ UNCHANGED chunkingVars
  BY <1>4, UnchangedKeeps DEF Evict, BatchDropped, chunkingVars
<1>5. QED BY <1>1, <1>2, <1>3, <1>4 DEF ChunkingNext

LEMMA AssembledInit == ChunkingInit => AssembledInv
<1> SUFFICES ASSUME ChunkingInit PROVE AssembledInv
  OBVIOUS
<1>1. /\ sent = [c \in Conn |-> <<>>] /\ wire = [c \in Conn |-> <<>>]
      /\ batch = NoBatch /\ start = NoBatch /\ received = [c \in Conn |-> <<>>]
  BY DEF ChunkingInit
<1>2. \A S : <<>> \in Seq(S)
  OBVIOUS
<1>3. Len(<<>>) = 0 /\ \A j \in 1 .. 0 : FALSE
  OBVIOUS
<1>4. ChunksTyped
  BY <1>1, <1>2 DEF ChunksTyped
<1>5. Numbered /\ Intact /\ Reading /\ \A c \in Conn : OnWire(wire[c], c)
  BY <1>1, <1>3 DEF Numbered, Intact, Reading, OnWire
<1>6. QED BY <1>4, <1>5 DEF AssembledInv

LEMMA AssembledInvariance == ChunkingSpec => []AssembledInv
BY AssembledInit, AssembledStep, PTL DEF ChunkingSpec

(* Whatever other connections send in between, whatever breaks and is      *)
(* forgotten, for any number of connections and any sizes: what is put     *)
(* together of several slices is one whole message of that connection.     *)
THEOREM AssembledIsIntact == ChunkingSpec => []AssembledIntact
<1>1. AssembledInv => AssembledIntact
  <2> SUFFICES ASSUME AssembledInv, NEW c \in Conn, NEW slices \in Range(received[c]),
                      Len(slices) > 1
               PROVE  \E m \in Range(sent[c]) : IsWhole(slices, m)
    BY DEF AssembledIntact
  <2>1. /\ received[c] \in Seq(Seq(Slices)) /\ sent[c] \in Seq(Messages) /\ Intact
    BY DEF AssembledInv, ChunksTyped
  <2>2. PICK i \in 1 .. Len(received[c]) : slices = received[c][i]
    <3>1. PICK i \in DOMAIN received[c] : slices = received[c][i]
      BY DEF Range
    <3>2. DOMAIN received[c] = 1 .. Len(received[c])
      BY <2>1
    <3>3. QED BY <3>1, <3>2
  <2>3. PICK s \in 1 .. Len(sent[c]) : IsWhole(slices, sent[c][s])
    BY <2>1, <2>2 DEF Intact
  <2>4. sent[c][s] \in Range(sent[c])
    BY <2>1 DEF Range
  <2>5. QED BY <2>3, <2>4
<1>2. QED BY <1>1, AssembledInvariance, PTL

(***************************************************************************)
(* Chunking is not seen while nothing breaks and connections take turns.   *)
(***************************************************************************)
Matched ==
  \A c \in Conn : /\ Len(received[c]) <= Len(sent[c])
                  /\ \A i \in 1 .. Len(received[c]) : IsWhole(received[c][i], sent[c][i])

UnseenSoFar ==
  /\ \A c \in Conn : InOrder(wire[c], Len(sent[c])) /\ Waiting(c)
  /\ ReadingAlone
  /\ Matched

LossesCounted == losses \in Nat /\ evictions \in Nat

UnseenInv == LossesCounted /\ (Undisturbed => UnseenSoFar)

(* What comes after a packet. *)
LEMMA NextInOrder ==
  ASSUME NEW q \in Seq(AnyPacket), q /= <<>>, NEW last \in Nat, InOrder(q, last)
  PROVE  /\ InOrder(Tail(q), last)
         /\ q[1].type = "data" /\ Begins(q[1]) =>
              q[1].slice = Slice(q[1].slice.of, 1, q[1].slice.of.size)
         /\ Ends(q[1]) =>
              IF Tail(q) = <<>> THEN MessageOf(q[1]).n = last
              ELSE Begins(Tail(q)[1]) /\ MessageOf(Tail(q)[1]).n = MessageOf(q[1]).n + 1
<1> DEFINE t == Tail(q)
<1>1. /\ t \in Seq(AnyPacket) /\ Len(q) \in Nat \ {0} /\ Len(t) = Len(q) - 1
      /\ \A i \in 1 .. Len(q) - 1 : t[i] = q[i + 1]
  BY TailIs
<1> HIDE DEF t
<1>2. t = <<>> <=> Len(q) = 1
  <2>1. t = <<>> <=> Len(t) = 0
    BY <1>1, NoPackets
  <2>2. QED BY <1>1, <2>1
<1>3. \A i \in 1 .. Len(q) :
        /\ q[i].type = "data" /\ Begins(q[i]) =>
             q[i].slice = Slice(q[i].slice.of, 1, q[i].slice.of.size)
        /\ Ends(q[i]) => IF i = Len(q) THEN MessageOf(q[i]).n = last
                         ELSE Begins(q[i + 1]) /\ MessageOf(q[i + 1]).n = MessageOf(q[i]).n + 1
  BY DEF InOrder
<1>4. ASSUME NEW i \in 1 .. Len(t)
      PROVE  /\ t[i].type = "data" /\ Begins(t[i]) =>
                  t[i].slice = Slice(t[i].slice.of, 1, t[i].slice.of.size)
             /\ Ends(t[i]) =>
                  IF i = Len(t) THEN MessageOf(t[i]).n = last
                  ELSE Begins(t[i + 1]) /\ MessageOf(t[i + 1]).n = MessageOf(t[i]).n + 1
  <2> DEFINE j == i + 1
  <2>1. j \in 1 .. Len(q) /\ t[i] = q[j] /\ (i = Len(t) <=> j = Len(q))
    BY <1>1
  <2>2. i /= Len(t) => t[i + 1] = q[j + 1]
    <3>1. SUFFICES ASSUME i /= Len(t) PROVE t[i + 1] = q[j + 1]
      OBVIOUS
    <3>2. i + 1 \in 1 .. Len(q) - 1
      BY <1>1, <3>1
    <3>3. QED BY <1>1, <3>2
  <2> HIDE DEF j
  <2>3. QED BY <1>3, <2>1, <2>2
<1>5. InOrder(t, last)
  BY <1>4 DEF InOrder
<1>6. 1 \in 1 .. Len(q) /\ (1 = Len(q) <=> t = <<>>)
  BY <1>1, <1>2
<1>7. t /= <<>> => t[1] = q[1 + 1]
  <2>1. SUFFICES ASSUME t /= <<>> PROVE t[1] = q[1 + 1]
    OBVIOUS
  <2>2. 1 \in 1 .. Len(q) - 1
    BY <1>1, <1>2, <2>1
  <2>3. QED BY <1>1, <2>2
<1>8. QED BY <1>3, <1>5, <1>6, <1>7 DEF t

(* A connection whose message is being read has more to come.              *)
LEMMA ReadingHasMore ==
  ASSUME AssembledInv, ReadingAlone, start /= NoBatch
  PROVE  wire[start.id.conn] /= <<>>
<1> DEFINE m == start.id
<1>1. PICK k \in 0 .. ChunkCount(m) : Continues(wire[m.conn], 0 - k, m, k)
  BY DEF ReadingAlone
<1>2. m \in Messages /\ ChunkCount(m) \in Nat
  BY Counted DEF AssembledInv, ChunksTyped, Markers
<1>3. (0 - k) + ChunkCount(m) + 1 <= Len(wire[m.conn])
  BY <1>1 DEF Continues
<1>4. Len(<<>>) = 0
  OBVIOUS
<1>5. QED BY <1>2, <1>3, <1>4

(* One message in one packet. *)
LEMMA SmallIsWhole ==
  ASSUME NEW m \in Messages
  PROVE  IsWhole(<<Slice(m, 1, m.size)>>, m)
<1> DEFINE s == Slice(m, 1, m.size)
<1>1. s.of = m /\ s.from = 1 /\ s.to = m.size
  BY DEF Slice
<1> HIDE DEF s
<1>2. <<s>> /= <<>> /\ Len(<<s>>) = 1 /\ Head(<<s>>) = s /\ Last(<<s>>) = s
  BY DEF Last
<1>3. Range(<<s>>) = {s}
  BY DEF Range
<1>4. \A i \in 1 .. Len(<<s>>) - 1 : FALSE
  BY <1>2
<1>5. QED BY <1>1, <1>2, <1>3, <1>4 DEF IsWhole, s

(* Whose turn it is. *)
LEMMA Turn ==
  ASSUME AssembledInv, Undisturbed, UnseenSoFar, NEW c \in Conn, wire[c] /= <<>>,
         turns /\ start /= NoBatch => c = start.id.conn
  PROVE  LET q == wire[c]
             p == q[1] IN
         /\ q \in Seq(AnyPacket) /\ Len(sent[c]) \in Nat /\ Len(received[c]) \in Nat
         /\ InOrder(q, Len(sent[c]))
         /\ start = NoBatch => Begins(p) /\ MessageOf(p).n = Len(received[c]) + 1
         /\ start /= NoBatch =>
              /\ start.id \in Messages /\ c = start.id.conn /\ start.id.n = Len(received[c]) + 1
              /\ start = StartOf(start.id)
              /\ \/ /\ p.type = "data"
                    /\ \E k \in 0 .. ChunkCount(start.id) - 1 :
                         /\ Collected(batch, start.id, k) /\ Len(batch) = k
                         /\ p.slice = SlicesOf(start.id)[k + 1]
                         /\ Continues(Tail(q), 0 - (k + 1), start.id, k + 1)
                 \/ p = EndOf(start.id) /\ p.type = "end" /\ batch = SlicesOf(start.id)
<1> DEFINE q == wire[c]
           p == q[1]
           m == start.id
<1>1. /\ q \in Seq(AnyPacket) /\ Len(sent[c]) \in Nat /\ Len(received[c]) \in Nat
      /\ InOrder(q, Len(sent[c])) /\ Waiting(c) /\ ReadingAlone
  BY DEF AssembledInv, ChunksTyped, UnseenSoFar
<1>2. start = NoBatch => Begins(p) /\ MessageOf(p).n = Len(received[c]) + 1
  BY <1>1 DEF Waiting
<1>3. ASSUME start /= NoBatch
      PROVE  /\ m \in Messages /\ c = m.conn /\ m.n = Len(received[c]) + 1 /\ start = StartOf(m)
             /\ \/ /\ p.type = "data"
                   /\ \E k \in 0 .. ChunkCount(m) - 1 :
                        /\ Collected(batch, m, k) /\ Len(batch) = k
                        /\ p.slice = SlicesOf(m)[k + 1]
                        /\ Continues(Tail(q), 0 - (k + 1), m, k + 1)
                \/ p = EndOf(m) /\ p.type = "end" /\ batch = SlicesOf(m)
  <2>1. m \in Messages /\ c = m.conn /\ start = StartOf(m) /\ batch \in Seq(Slices)
    BY <1>3 DEF AssembledInv, Reading, ChunksTyped, Markers, Undisturbed
  <2>2. m.n = Len(received[c]) + 1
    BY <1>1, <1>3, <2>1 DEF ReadingAlone
  <2>3. PICK k \in 0 .. ChunkCount(m) :
          Collected(batch, m, k) /\ Len(batch) = k /\ Continues(wire[m.conn], 0 - k, m, k)
    BY <1>1, <1>3 DEF ReadingAlone
  <2>4. ChunkCount(m) \in Nat /\ k \in Nat
    BY <2>1, Counted
  <2>5. CASE k < ChunkCount(m)
    <3>1. p.type = "data" /\ p.slice = SlicesOf(m)[k + 1]
          /\ Continues(Tail(q), 0 - (k + 1), m, k + 1)
      BY <1>3, <2>1, <2>3, <2>5, NextOfReading
    <3>2. k \in 0 .. ChunkCount(m) - 1
      BY <2>4, <2>5
    <3>3. QED BY <2>1, <2>2, <2>3, <3>1, <3>2
  <2>6. CASE k = ChunkCount(m)
    <3>1. p = EndOf(m) /\ p.type = "end"
      BY <1>3, <2>1, <2>3, <2>6, NextOfReading
    <3>2. SlicesOf(m) \in Seq(Slices) /\ Len(SlicesOf(m)) = k
      BY <2>1, <2>6, SlicesAre
    <3>3. batch = SlicesOf(m)
      BY <2>1, <2>3, <3>2, SameSequence DEF Collected
    <3>4. QED BY <2>1, <2>2, <3>1, <3>3
  <2>7. QED BY <2>4, <2>5, <2>6
<1>4. QED BY <1>1, <1>2, <1>3

(* A message on its way in packets. *)
LEMMA PacketsInOrder ==
  ASSUME NEW m \in Messages
  PROVE  /\ Packets(m) /= <<>> /\ Begins(Packets(m)[1]) /\ InOrder(Packets(m), m.n)
<1> DEFINE n == ChunkCount(m)
           r == Packets(m)
<1>1. /\ n \in Nat \ {0} /\ r \in Seq(AnyPacket) /\ m.size \in Nat
      /\ \A i \in 1 .. Len(r) : MessageOf(r[i]) = m
  BY Counted, PacketsAre
<1>2. CASE ~ Large(m)
  <2> DEFINE s == Slice(m, 1, m.size)
  <2>1. Len(r) = 1 /\ r[1] = Data(s)
    BY <1>2, PacketsAre
  <2>2. s.of = m /\ s \in Slices
    BY <1>1 DEF Slice, Slices
  <2>3. r[1].type = "data" /\ r[1].slice = s
    BY <2>1, <2>2 DEF Data
  <2> HIDE DEF r, s
  <2>4. r /= <<>>
    <3>1. Len(r) /= 0 /\ r \in Seq(AnyPacket)
      BY <1>1, <2>1
    <3>2. QED BY <3>1, NoPackets
  <2>5. MessageOf(r[1]) = m /\ \A i \in 1 .. Len(r) : i = 1 /\ i = Len(r)
    BY <1>1, <2>1
  <2>6. r[1].slice = Slice(r[1].slice.of, 1, r[1].slice.of.size)
    BY <2>2, <2>3 DEF s
  <2>7. Begins(r[1])
    BY <1>2, <2>2, <2>3 DEF Begins
  <2>8. InOrder(r, m.n)
    BY <2>5, <2>6 DEF InOrder
  <2>9. QED BY <2>4, <2>7, <2>8 DEF r
<1>3. CASE Large(m)
  <2>1. /\ Len(r) = n + 2 /\ r[1] = StartOf(m) /\ r[n + 2] = EndOf(m)
        /\ \A l \in 1 .. n : r[l + 1] = Data(SlicesOf(m)[l])
    BY <1>3, PacketsAre
  <2>2. \A l \in 1 .. n : SlicesOf(m)[l] \in Slices /\ SlicesOf(m)[l].of = m
    BY <1>1, SlicesAre
  <2> HIDE DEF r, n
  <2>3. r[1].type = "start" /\ r[n + 2].type = "end"
    BY <2>1, PacketsOfMessages
  <2>4. ASSUME NEW i \in 1 .. Len(r), i /= Len(r)
        PROVE  ~ Ends(r[i]) /\ ~ (r[i].type = "data" /\ Begins(r[i]))
    <3>1. CASE i = 1
      BY <2>3, <3>1 DEF Ends
    <3>2. CASE i /= 1
      <4> DEFINE l == i - 1
      <4>1. l \in 1 .. n /\ l + 1 = i
        BY <1>1, <2>1, <2>4, <3>2
      <4> HIDE DEF l
      <4>2. r[i] = Data(SlicesOf(m)[l]) /\ SlicesOf(m)[l] \in Slices /\ SlicesOf(m)[l].of = m
        BY <2>1, <2>2, <4>1
      <4>3. r[i].type = "data" /\ r[i].slice.of = m
        BY <4>2 DEF Data
      <4>4. QED BY <1>3, <4>3 DEF Ends, Begins
    <3>3. QED BY <3>1, <3>2
  <2>5. Len(r) \in 1 .. Len(r) /\ r[Len(r)].type = "end" /\ MessageOf(r[Len(r)]) = m
    BY <1>1, <2>1, <2>3
  <2>6. InOrder(r, m.n)
    BY <2>4, <2>5 DEF InOrder
  <2>7. r /= <<>> /\ Begins(r[1])
    BY <1>1, <2>1, <2>3, NoPackets DEF Begins
  <2>8. QED BY <2>6, <2>7 DEF r
<1>4. QED BY <1>2, <1>3

(* One message after another. *)
LEMMA OrderContinues ==
  ASSUME NEW q \in Seq(AnyPacket), NEW r \in Seq(AnyPacket), NEW last \in Nat,
         InOrder(q, last), InOrder(r, last + 1),
         r /= <<>>, Begins(r[1]), MessageOf(r[1]).n = last + 1
  PROVE  InOrder(q \o r, last + 1)
<1> DEFINE t == q \o r
<1>1. /\ Len(q) \in Nat /\ Len(r) \in Nat /\ Len(t) = Len(q) + Len(r)
      /\ \A i \in 1 .. Len(q) : t[i] = q[i]
      /\ \A i \in 1 .. Len(r) : t[Len(q) + i] = r[i]
  BY ConcatIs
<1>2. Len(r) /= 0
  BY NoPackets
<1> HIDE DEF t
<1> DEFINE Placed(p, i, z, next, l) ==
             /\ p.type = "data" /\ Begins(p) => p.slice = Slice(p.slice.of, 1, p.slice.of.size)
             /\ Ends(p) => IF i = z THEN MessageOf(p).n = l
                           ELSE Begins(next) /\ MessageOf(next).n = MessageOf(p).n + 1
<1>3. /\ \A i \in 1 .. Len(q) : Placed(q[i], i, Len(q), q[i + 1], last)
      /\ \A i \in 1 .. Len(r) : Placed(r[i], i, Len(r), r[i + 1], last + 1)
  BY DEF InOrder
<1>4. ASSUME NEW i \in 1 .. Len(t) PROVE Placed(t[i], i, Len(t), t[i + 1], last + 1)
  <2>1. CASE i \in 1 .. Len(q) /\ i /= Len(q)
    <3>1. t[i] = q[i] /\ i + 1 \in 1 .. Len(q) /\ i /= Len(t)
      BY <1>1, <2>1
    <3>2. t[i + 1] = q[i + 1]
      BY <1>1, <3>1
    <3>3. Placed(q[i], i, Len(q), q[i + 1], last)
      BY <1>3, <2>1
    <3>4. QED BY <2>1, <3>1, <3>2, <3>3
  <2>2. CASE i \in 1 .. Len(q) /\ i = Len(q)
    <3>1. t[i] = q[i] /\ 1 \in 1 .. Len(r) /\ i /= Len(t)
      BY <1>1, <1>2, <2>2
    <3>2. t[i + 1] = r[1]
      BY <1>1, <2>2, <3>1
    <3>3. Placed(q[i], i, Len(q), q[i + 1], last)
      BY <1>3, <2>2
    <3>4. QED BY <2>2, <3>1, <3>2, <3>3
  <2>3. CASE i \notin 1 .. Len(q)
    <3> DEFINE j == i - Len(q)
    <3>1. j \in 1 .. Len(r) /\ Len(q) + j = i /\ (j = Len(r) <=> i = Len(t))
      BY <1>1, <2>3
    <3>2. j /= Len(r) => j + 1 \in 1 .. Len(r) /\ Len(q) + (j + 1) = i + 1
      BY <1>1, <3>1
    <3> HIDE DEF j
    <3>3. t[i] = r[j] /\ (j /= Len(r) => t[i + 1] = r[j + 1])
      BY <1>1, <3>1, <3>2
    <3>4. Placed(r[j], j, Len(r), r[j + 1], last + 1)
      BY <1>3, <3>1
    <3>5. QED BY <3>1, <3>3, <3>4
  <2>4. QED BY <2>1, <2>2, <2>3
<1>5. QED BY <1>4 DEF InOrder, t

(* What a connection has sent stays in order when it sends one more.       *)
LEMMA SendUnseen ==
  ASSUME AssembledInv, UnseenSoFar, NEW c \in Conn, NEW size \in Sizes, Send(c, size)
  PROVE  UnseenSoFar'
<1> DEFINE m == [conn |-> c, n |-> Len(sent[c]) + 1, size |-> size]
           q == wire[c]
           r == Packets(m)
           t == q \o r
           last == Len(sent[c])
<1>1. /\ m \in Messages /\ m.n = last + 1 /\ last \in Nat
      /\ UNCHANGED <<batch, start, received>>
      /\ Len(sent'[c]) = last + 1
      /\ \A i \in 1 .. last : sent'[c][i] = sent[c][i]
      /\ \A e \in Conn \ {c} : sent'[e] = sent[e]
      /\ r \in Seq(AnyPacket) /\ \A i \in 1 .. Len(r) : MessageOf(r[i]) = m
      /\ wire'[c] = t /\ \A e \in Conn \ {c} : wire'[e] = wire[e]
      /\ q \in Seq(AnyPacket)
      /\ Len(q) \in Nat /\ Len(r) \in Nat /\ t \in Seq(AnyPacket) /\ Len(t) = Len(q) + Len(r)
      /\ \A i \in 1 .. Len(q) : t[i] = q[i]
      /\ \A i \in 1 .. Len(r) : t[Len(q) + i] = r[i]
  <2>1. /\ m \in Messages /\ m.n = last + 1 /\ last \in Nat
        /\ UNCHANGED <<batch, start, received>>
    BY SendAdds
  <2>2. /\ Len(sent'[c]) = last + 1
        /\ \A i \in 1 .. last : sent'[c][i] = sent[c][i]
        /\ \A e \in Conn \ {c} : sent'[e] = sent[e]
    BY SendAdds
  <2>3. /\ r \in Seq(AnyPacket) /\ \A i \in 1 .. Len(r) : MessageOf(r[i]) = m
    BY SendAdds
  <2>4. wire'[c] = t /\ \A e \in Conn \ {c} : wire'[e] = wire[e]
    BY SendAdds
  <2>5. q \in Seq(AnyPacket)
    BY DEF AssembledInv, ChunksTyped
  <2> HIDE DEF m, q, r
  <2>6. /\ Len(q) \in Nat /\ Len(r) \in Nat /\ t \in Seq(AnyPacket) /\ Len(t) = Len(q) + Len(r)
        /\ \A i \in 1 .. Len(q) : t[i] = q[i]
        /\ \A i \in 1 .. Len(r) : t[Len(q) + i] = r[i]
    BY <2>3, <2>5, ConcatIs
  <2> HIDE DEF t, last
  <2>7. QED BY <2>1, <2>2, <2>3, <2>4, <2>5, <2>6
<1>2. r /= <<>> /\ Begins(r[1]) /\ InOrder(r, last + 1)
  BY <1>1, PacketsInOrder
<1>3. /\ \A e \in Conn : InOrder(wire[e], Len(sent[e])) /\ Waiting(e)
      /\ ReadingAlone /\ Matched /\ Numbered /\ q \in Seq(AnyPacket)
      /\ received \in [Conn -> Seq(Seq(Slices))] /\ received[c] \in Seq(Seq(Slices))
  BY DEF UnseenSoFar, AssembledInv, ChunksTyped
<1> HIDE DEF m, q, r, t
<1>4. 1 \in 1 .. Len(r) /\ MessageOf(r[1]) = m /\ Len(r) /= 0
  BY <1>1, <1>2, NoPackets
<1>5. InOrder(t, last + 1)
  <2>1. InOrder(q, last)
    BY <1>3 DEF q
  <2>2. MessageOf(r[1]).n = last + 1
    BY <1>1, <1>4
  <2> HIDE DEF last
  <2>3. QED BY <1>1, <1>2, <1>3, <2>1, <2>2, OrderContinues DEF t
<1>6. \A e \in Conn : InOrder(wire'[e], Len(sent'[e]))
  BY <1>1, <1>3, <1>5
<1>7. ASSUME NEW e \in Conn PROVE Waiting(e)'
  <2>1. CASE e /= c
    BY <1>1, <1>3, <2>1 DEF Waiting
  <2>2. CASE e = c
    <3>1. SUFFICES ASSUME start = NoBatch \/ start.id.conn /= c
                   PROVE  /\ t /= <<>> /\ Begins(t[1])
                          /\ MessageOf(t[1]).n = Len(received[c]) + 1
      BY <1>1, <2>2 DEF Waiting
    <3>2. t /= <<>>
      BY <1>1, <1>4, NoPackets
    <3>3. CASE q = <<>>
      <4>1. Len(received[c]) = last /\ Len(q) = 0
        BY <1>3, <3>1, <3>3, NoPackets DEF Waiting, q
      <4>2. Len(q) + 1 = 1
        BY <4>1
      <4>3. t[1] = r[1]
        BY <1>1, <1>4, <4>2
      <4>4. QED BY <1>1, <1>2, <1>4, <3>2, <4>1, <4>3
    <3>4. CASE q /= <<>>
      <4>1. 1 \in 1 .. Len(q)
        BY <1>3, <3>4, TailIs
      <4>2. t[1] = q[1]
        BY <1>1, <4>1
      <4>3. Begins(q[1]) /\ MessageOf(q[1]).n = Len(received[c]) + 1
        BY <1>3, <3>1, <3>4 DEF Waiting, q
      <4>4. QED BY <3>2, <4>2, <4>3
    <3>5. QED BY <3>3, <3>4
  <2>3. QED BY <2>1, <2>2
<1>8. ReadingAlone'
  <2>1. SUFFICES ASSUME start /= NoBatch PROVE ReadingAlone'
    BY <1>1 DEF ReadingAlone
  <2> DEFINE x == start.id
  <2>2. /\ x.n = Len(received[x.conn]) + 1 /\ x \in Messages /\ x.conn \in Conn
        /\ \E s \in 1 .. Len(sent[x.conn]) : x = sent[x.conn][s]
    BY <1>3, <2>1 DEF ReadingAlone, AssembledInv, Reading, ChunksTyped, Markers
  <2>3. PICK k \in 0 .. ChunkCount(x) :
          Collected(batch, x, k) /\ Len(batch) = k /\ Continues(wire[x.conn], 0 - k, x, k)
    BY <1>3, <2>1 DEF ReadingAlone
  <2>4. Continues(wire'[x.conn], 0 - k, x, k)
    <3>1. CASE x.conn /= c
      BY <1>1, <2>2, <2>3, <3>1
    <3>2. CASE x.conn = c
      <4>1. PICK s \in 1 .. last : x = sent[c][s]
        BY <2>2, <3>2
      <4>2. x.n = s
        BY <1>3, <4>1 DEF Numbered
      <4>3. \A i \in 1 .. Len(r) : MessageOf(r[i]).n > x.n
        BY <1>1, <4>1, <4>2
      <4>4. 0 - k \in Int /\ (0 - k) + k >= 0
        BY <2>2, Counted
      <4>5. Continues(q, 0 - k, x, k)
        BY <2>3, <3>2 DEF q
      <4>6. Continues(t, 0 - k, x, k)
        BY <1>1, <1>3, <2>2, <4>3, <4>4, <4>5, ContinuesFurther DEF t
      <4>7. QED BY <1>1, <3>2, <4>6
    <3>3. QED BY <3>1, <3>2
  <2>5. start' = start /\ batch' = batch /\ received' = received /\ start'.id = x
    BY <1>1
  <2> HIDE DEF x
  <2>6. QED BY <2>2, <2>3, <2>4, <2>5 DEF ReadingAlone
<1>9. Matched'
  <2>1. ASSUME NEW e \in Conn
        PROVE  /\ Len(received[e]) <= Len(sent'[e])
               /\ \A i \in 1 .. Len(received[e]) : IsWhole(received[e][i], sent'[e][i])
    <3>1. /\ Len(received[e]) <= Len(sent[e])
          /\ \A i \in 1 .. Len(received[e]) : IsWhole(received[e][i], sent[e][i])
      BY <1>3 DEF Matched
    <3>2. CASE e /= c
      BY <1>1, <3>1, <3>2
    <3>3. CASE e = c
      <4>1. Len(received[c]) \in Nat
        BY <1>3
      <4>2. \A i \in 1 .. Len(received[c]) : i \in 1 .. last
        BY <1>1, <3>1, <3>3, <4>1
      <4>3. QED BY <1>1, <3>1, <3>3, <4>1, <4>2
    <3>4. QED BY <3>2, <3>3
  <2>2. QED BY <1>1, <2>1 DEF Matched
<1>10. QED BY <1>6, <1>7, <1>8, <1>9 DEF UnseenSoFar

(* The message that was next is handed over whole, with its last packet.   *)
LEMMA HandedUnseen ==
  ASSUME AssembledInv, UnseenSoFar, NEW c \in Conn, wire[c] /= <<>>,
         start = NoBatch \/ start.id.conn = c,
         wire' = [wire EXCEPT ![c] = Tail(@)], UNCHANGED sent, start' = NoBatch,
         NEW slices \in Seq(Slices), Handed(c, slices),
         Ends(wire[c][1]), MessageOf(wire[c][1]).n = Len(received[c]) + 1,
         IsWhole(slices, MessageOf(wire[c][1]))
  PROVE  UnseenSoFar'
<1> DEFINE q == wire[c]
           p == q[1]
           m == MessageOf(p)
           last == Len(sent[c])
           done == Len(received[c])
<1>1. /\ \A e \in Conn : InOrder(wire[e], Len(sent[e])) /\ Waiting(e)
      /\ Matched /\ Numbered /\ q \in Seq(AnyPacket) /\ InOrder(q, last) /\ last \in Nat
      /\ received \in [Conn -> Seq(Seq(Slices))] /\ received[c] \in Seq(Seq(Slices))
      /\ done \in Nat
  BY DEF UnseenSoFar, AssembledInv, ChunksTyped
<1>2. /\ wire'[c] = Tail(q) /\ \A e \in Conn \ {c} : wire'[e] = wire[e]
      /\ \E s \in 1 .. last : m = sent[c][s]
  BY PacketTaken
<1>3. /\ done + 1 \in 1 .. last /\ m = sent[c][done + 1]
  <2>1. PICK s \in 1 .. last : m = sent[c][s]
    BY <1>2
  <2>2. m.n = s
    BY <1>1, <2>1 DEF Numbered
  <2>3. QED BY <2>1, <2>2
<1>4. /\ InOrder(Tail(q), last)
      /\ IF Tail(q) = <<>> THEN m.n = last
         ELSE Begins(Tail(q)[1]) /\ MessageOf(Tail(q)[1]).n = m.n + 1
  <2>1. q /= <<>> /\ Ends(q[1])
    OBVIOUS
  <2> HIDE DEF q, last
  <2>2. QED BY <1>1, <2>1, NextInOrder
<1>5. /\ received' \in [Conn -> Seq(Seq(Slices))] /\ Len(received'[c]) = done + 1
      /\ received'[c][done + 1] = slices
      /\ \A i \in 1 .. done : received'[c][i] = received[c][i]
      /\ \A e \in Conn \ {c} : received'[e] = received[e]
  <2> DEFINE t == Append(received[c], slices)
  <2>1. /\ t \in Seq(Seq(Slices)) /\ Len(t) = done + 1
        /\ t[done + 1] = slices /\ \A i \in 1 .. done : t[i] = received[c][i]
    BY <1>1, AppendIs
  <2>2. /\ received' \in [Conn -> Seq(Seq(Slices))] /\ received'[c] = t
        /\ \A e \in Conn \ {c} : received'[e] = received[e]
    BY <1>1, <2>1 DEF Handed
  <2>3. QED BY <2>1, <2>2
<1> HIDE DEF m, done, last
<1>6. Matched'
  <2>1. ASSUME NEW e \in Conn
        PROVE  /\ Len(received'[e]) <= Len(sent[e])
               /\ \A i \in 1 .. Len(received'[e]) : IsWhole(received'[e][i], sent[e][i])
    <3>1. /\ Len(received[e]) <= Len(sent[e])
          /\ \A i \in 1 .. Len(received[e]) : IsWhole(received[e][i], sent[e][i])
      BY <1>1 DEF Matched
    <3>2. CASE e /= c
      BY <1>5, <3>1, <3>2
    <3>3. CASE e = c
      <4>1. done + 1 <= last
        BY <1>1, <1>3
      <4>2. ASSUME NEW i \in 1 .. done + 1 PROVE IsWhole(received'[c][i], sent[c][i])
        <5>1. CASE i = done + 1
          BY <1>3, <1>5, <5>1 DEF m, p, q
        <5>2. CASE i /= done + 1
          <6>1. i \in 1 .. done
            BY <1>1, <5>2
          <6>2. QED BY <1>5, <3>1, <3>3, <6>1 DEF done
        <5>3. QED BY <5>1, <5>2
      <4>3. QED BY <1>5, <3>3, <4>1, <4>2 DEF last
    <3>4. QED BY <3>2, <3>3
  <2>2. QED BY <2>1 DEF Matched
<1>7. \A e \in Conn : InOrder(wire'[e], Len(sent'[e]))
  BY <1>1, <1>2, <1>4 DEF last
<1>8. ASSUME NEW e \in Conn PROVE Waiting(e)'
  <2>1. CASE e /= c
    <3>1. start = NoBatch \/ start.id.conn /= e
      BY <2>1
    <3>2. QED BY <1>1, <1>2, <1>5, <2>1, <3>1 DEF Waiting
  <2>2. CASE e = c
    <3>1. m.n = done + 1
      BY DEF m, done
    <3>2. IF wire'[c] = <<>> THEN Len(received'[c]) = Len(sent'[c])
          ELSE Begins(wire'[c][1]) /\ MessageOf(wire'[c][1]).n = Len(received'[c]) + 1
      BY <1>2, <1>4, <1>5, <3>1 DEF last
    <3>3. QED BY <2>2, <3>2 DEF Waiting
  <2>3. QED BY <2>1, <2>2
<1>9. ReadingAlone'
  BY DEF ReadingAlone
<1>10. QED BY <1>6, <1>7, <1>8, <1>9 DEF UnseenSoFar

LEMMA StartUnseen ==
  ASSUME AssembledInv, AssembledInv', Undisturbed, UnseenSoFar,
         NEW c \in Conn, StartArrives(c)
  PROVE  UnseenSoFar'
<1> DEFINE q == wire[c]
           p == q[1]
           m == MessageOf(p)
<1>1. /\ q /= <<>> /\ Head(q).type = "start" /\ Head(q) = p
      /\ wire' = [wire EXCEPT ![c] = Tail(@)] /\ UNCHANGED <<sent, received>>
      /\ turns /\ start /= NoBatch => c = start.id.conn
  BY PacketTaken DEF StartArrives, Packet
<1>2. start = NoBatch /\ m.n = Len(received[c]) + 1
  <2>1. ASSUME start /= NoBatch PROVE FALSE
    <3>1. p.type = "data" \/ p.type = "end"
      BY <1>1, <2>1, Turn
    <3>2. QED BY <1>1, <3>1
  <2>2. start = NoBatch => m.n = Len(received[c]) + 1
    BY <1>1, Turn
  <2>3. QED BY <2>1, <2>2
<1>3. start'.id = m /\ batch' = <<>> /\ Continues(wire'[c], 0, m, 0) /\ m.conn = c
  BY StartKeeps
<1>4. start' /= NoBatch
  <2>1. <<>> \in Seq(Slices)
    OBVIOUS
  <2>2. batch' /= NoBatch
    BY <1>3, <2>1, NoBatchAssumption
  <2>3. QED BY <2>2 DEF AssembledInv, ChunksTyped
<1>5. /\ \A e \in Conn : InOrder(wire[e], Len(sent[e])) /\ Waiting(e)
      /\ Matched /\ q \in Seq(AnyPacket) /\ Len(sent[c]) \in Nat
  BY DEF UnseenSoFar, AssembledInv, ChunksTyped
<1>6. /\ m \in Messages /\ wire'[c] = Tail(q)
      /\ \A e \in Conn \ {c} : wire'[e] = wire[e]
  BY <1>1, PacketTaken
<1>7. InOrder(Tail(q), Len(sent[c]))
  BY <1>1, <1>5, NextInOrder
<1> HIDE DEF m
<1>8. \A e \in Conn : InOrder(wire'[e], Len(sent'[e]))
  BY <1>1, <1>5, <1>6, <1>7
<1>9. ASSUME NEW e \in Conn PROVE Waiting(e)'
  <2>1. CASE e /= c
    BY <1>1, <1>2, <1>5, <1>6, <2>1 DEF Waiting
  <2>2. CASE e = c
    BY <1>3, <1>4, <2>2 DEF Waiting
  <2>3. QED BY <2>1, <2>2
<1>10. ReadingAlone'
  <2>1. Collected(<<>>, m, 0) /\ Len(<<>>) = 0 /\ 0 - 0 = 0
    <3>1. Len(<<>>) = 0 /\ 0 - 0 = 0 /\ \A l \in 1 .. 0 : FALSE
      OBVIOUS
    <3>2. QED BY <3>1 DEF Collected
  <2>2. m \in Messages
    BY <1>6
  <2>3. 0 \in 0 .. ChunkCount(m)
    BY <2>2, Counted
  <2>4. m.n = Len(received'[m.conn]) + 1
    BY <1>1, <1>2, <1>3
  <2>5. Collected(batch', m, 0) /\ Len(batch') = 0 /\ Continues(wire'[m.conn], 0 - 0, m, 0)
    BY <1>3, <2>1
  <2>6. QED BY <1>3, <2>3, <2>4, <2>5 DEF ReadingAlone
<1>11. Matched'
  BY <1>1, <1>5 DEF Matched
<1>12. QED BY <1>8, <1>9, <1>10, <1>11 DEF UnseenSoFar

LEMMA DataUnseen ==
  ASSUME AssembledInv, AssembledInv', Undisturbed, UnseenSoFar,
         NEW c \in Conn, DataArrives(c)
  PROVE  UnseenSoFar'
<1> DEFINE q == wire[c]
           p == q[1]
<1>1. /\ q /= <<>> /\ Head(q).type = "data" /\ Head(q) = p
      /\ wire' = [wire EXCEPT ![c] = Tail(@)] /\ UNCHANGED <<sent, start>>
      /\ turns /\ start /= NoBatch => c = start.id.conn
      /\ \/ batch /= NoBatch /\ batch' = Append(batch, p.slice) /\ UNCHANGED received
         \/ batch = NoBatch /\ Handed(c, <<p.slice>>) /\ UNCHANGED batch
  BY PacketTaken DEF DataArrives, Packet
<1>2. /\ \A e \in Conn : InOrder(wire[e], Len(sent[e])) /\ Waiting(e)
      /\ Matched /\ q \in Seq(AnyPacket) /\ Len(sent[c]) \in Nat
      /\ batch = NoBatch <=> start = NoBatch
  BY DEF UnseenSoFar, AssembledInv, ChunksTyped
<1>3. /\ wire'[c] = Tail(q) /\ (\A e \in Conn \ {c} : wire'[e] = wire[e])
      /\ p \in AnyPacket
  BY <1>1, PacketTaken
<1>4. /\ p.type = "data" /\ p.slice \in Slices /\ MessageOf(p) = p.slice.of
      /\ MessageOf(p) \in Messages
  BY <1>1, <1>3, KindsOfPackets
<1>5. InOrder(q, Len(sent[c]))
  BY <1>2
<1>6. CASE start = NoBatch
  <2> DEFINE m == MessageOf(p)
  <2>1. Begins(p) /\ m.n = Len(received[c]) + 1
    BY <1>1, <1>6, Turn
  <2>2. Handed(c, <<p.slice>>) /\ start' = NoBatch
    BY <1>1, <1>2, <1>6
  <2>3. p.slice = Slice(m, 1, m.size)
    BY <1>1, <1>2, <1>4, <1>5, <2>1, NextInOrder
  <2>4. Ends(p)
    BY <1>4, <2>1 DEF Begins, Ends
  <2>5. IsWhole(<<p.slice>>, m)
    BY <1>4, <2>3, SmallIsWhole
  <2>6. <<p.slice>> \in Seq(Slices)
    BY <1>4
  <2>7. QED BY <1>1, <1>6, <2>1, <2>2, <2>4, <2>5, <2>6, HandedUnseen
<1>7. CASE start /= NoBatch
  <2> DEFINE m == start.id
  <2>1. /\ m \in Messages /\ c = m.conn /\ m.n = Len(received[c]) + 1
    BY <1>1, <1>7, Turn
  <2>2. PICK k \in 0 .. ChunkCount(m) - 1 :
          /\ Collected(batch, m, k) /\ Len(batch) = k
          /\ p.slice = SlicesOf(m)[k + 1]
          /\ Continues(Tail(q), 0 - (k + 1), m, k + 1)
    <3>1. p.type /= "end"
      BY <1>4
    <3>2. QED BY <1>1, <1>7, <3>1, Turn
  <2>3. batch' = Append(batch, p.slice) /\ received' = received /\ batch \in Seq(Slices)
    BY <1>1, <1>2, <1>7 DEF AssembledInv, ChunksTyped
  <2>4. ChunkCount(m) \in Nat /\ k \in Nat /\ k + 1 \in 0 .. ChunkCount(m)
    BY <2>1, Counted
  <2>5. /\ Len(batch') = k + 1 /\ batch'[k + 1] = p.slice
        /\ \A i \in 1 .. k : batch'[i] = batch[i]
    BY <1>4, <2>2, <2>3, AppendIs
  <2>6. Collected(batch', m, k + 1)
    <3>1. ASSUME NEW l \in 1 .. k + 1 PROVE batch'[l] = SlicesOf(m)[l]
      <4>1. CASE l = k + 1
        BY <2>2, <2>5, <4>1
      <4>2. CASE l /= k + 1
        <5>1. l \in 1 .. k
          BY <2>4, <4>2
        <5>2. QED BY <2>2, <2>5, <5>1 DEF Collected
      <4>3. QED BY <4>1, <4>2
    <3>2. Len(batch') >= k + 1
      BY <2>4, <2>5
    <3>3. QED BY <3>1, <3>2 DEF Collected
  <2>7. ReadingAlone'
    <3>1. start'.id = m /\ m.n = Len(received'[m.conn]) + 1
      BY <1>1, <2>1, <2>3
    <3>2. Continues(wire'[m.conn], 0 - (k + 1), m, k + 1)
      BY <1>3, <2>1, <2>2
    <3> HIDE DEF m
    <3>3. QED BY <2>4, <2>5, <2>6, <3>1, <3>2 DEF ReadingAlone
  <2>8. InOrder(Tail(q), Len(sent[c]))
    BY <1>1, <1>2, <1>5, NextInOrder
  <2>9. \A e \in Conn : InOrder(wire'[e], Len(sent'[e]))
    BY <1>1, <1>2, <1>3, <2>8
  <2>10. ASSUME NEW e \in Conn PROVE Waiting(e)'
    <3>1. CASE e /= c
      BY <1>1, <1>2, <1>3, <2>3, <3>1 DEF Waiting
    <3>2. CASE e = c
      BY <1>1, <1>7, <2>1, <3>2 DEF Waiting
    <3>3. QED BY <3>1, <3>2
  <2>11. Matched'
    BY <1>1, <1>2, <2>3 DEF Matched
  <2>12. QED BY <2>7, <2>9, <2>10, <2>11 DEF UnseenSoFar
<1>8. QED BY <1>6, <1>7

LEMMA EndUnseen ==
  ASSUME AssembledInv, AssembledInv', Undisturbed, UnseenSoFar,
         NEW c \in Conn, EndArrives(c)
  PROVE  UnseenSoFar'
<1> DEFINE q == wire[c]
           p == q[1]
           m == start.id
<1>1. /\ q /= <<>> /\ Head(q).type = "end" /\ Head(q) = p
      /\ wire' = [wire EXCEPT ![c] = Tail(@)] /\ UNCHANGED sent
      /\ turns /\ start /= NoBatch => c = start.id.conn
      /\ \/ batch = NoBatch
         \/ Complete(p) /\ Handed(c, batch) /\ BatchDropped
         \/ ~ Complete(p)
  BY PacketTaken DEF EndArrives, Packet
<1>2. start /= NoBatch
  <2>1. start = NoBatch => Begins(p)
    BY <1>1, Turn
  <2>2. QED BY <1>1, <2>1 DEF Begins
<1>3. /\ m \in Messages /\ c = m.conn /\ m.n = Len(received[c]) + 1 /\ start = StartOf(m)
      /\ p = EndOf(m) /\ batch = SlicesOf(m)
  <2>1. p.type /= "data"
    BY <1>1
  <2>2. QED BY <1>1, <1>2, <2>1, Turn
<1>4. /\ SlicesOf(m) \in Seq(Slices) /\ Len(SlicesOf(m)) = ChunkCount(m)
      /\ SumBytes(SlicesOf(m)) = m.size /\ IsWhole(SlicesOf(m), m)
  BY <1>3, SlicesAre, SlicesSumUp, SlicesAreWhole
<1>5. Complete(p) /\ MessageOf(p) = m
  <2>1. /\ EndOf(m).count = ChunkCount(m) /\ EndOf(m).size = m.size
        /\ StartOf(m) = [EndOf(m) EXCEPT !.type = "start"]
        /\ EndOf(m).id = m /\ EndOf(m).type = "end"
    BY <1>3, PacketsOfMessages
  <2>2. QED BY <1>3, <1>4, <2>1 DEF Complete, MessageOf
<1>6. batch /= NoBatch
  BY <1>2 DEF AssembledInv, ChunksTyped
<1>7. Handed(c, SlicesOf(m)) /\ start' = NoBatch
  BY <1>1, <1>3, <1>5, <1>6 DEF BatchDropped
<1>8. Ends(p) /\ MessageOf(p).n = Len(received[c]) + 1 /\ IsWhole(SlicesOf(m), MessageOf(p))
  BY <1>1, <1>3, <1>4, <1>5 DEF Ends
<1>9. start.id.conn = c
  BY <1>3
<1> HIDE DEF m
<1>10. QED BY <1>1, <1>4, <1>7, <1>8, <1>9, HandedUnseen

LEMMA UnseenInit == ChunkingInit => UnseenInv
<1> SUFFICES ASSUME ChunkingInit PROVE UnseenInv
  OBVIOUS
<1>1. /\ sent = [c \in Conn |-> <<>>] /\ wire = [c \in Conn |-> <<>>]
      /\ start = NoBatch /\ received = [c \in Conn |-> <<>>]
      /\ losses = 0 /\ evictions = 0
  BY DEF ChunkingInit
<1>2. Len(<<>>) = 0 /\ \A i \in 1 .. 0 : FALSE
  OBVIOUS
<1>3. \A c \in Conn : InOrder(wire[c], Len(sent[c])) /\ Waiting(c)
  BY <1>1, <1>2 DEF InOrder, Waiting
<1>4. ReadingAlone /\ Matched
  BY <1>1, <1>2 DEF ReadingAlone, Matched
<1>5. LossesCounted
  BY <1>1 DEF LossesCounted
<1>6. QED BY <1>3, <1>4, <1>5 DEF UnseenInv, UnseenSoFar

LEMMA UnseenStep ==
  AssembledInv /\ AssembledInv' /\ UnseenInv /\ [ChunkingNext]_chunkingVars => UnseenInv'
<1> SUFFICES ASSUME AssembledInv, AssembledInv', UnseenInv, [ChunkingNext]_chunkingVars
             PROVE  UnseenInv'
  OBVIOUS
<1>1. LossesCounted /\ (Undisturbed => UnseenSoFar)
  BY DEF UnseenInv
<1>2. ASSUME UNCHANGED <<turns, losses, evictions>>, Undisturbed => UnseenSoFar'
      PROVE  UnseenInv'
  <2>1. LossesCounted' /\ (Undisturbed' => Undisturbed)
    BY <1>1, <1>2 DEF LossesCounted, Undisturbed
  <2>2. QED BY <1>2, <2>1 DEF UnseenInv
<1>3. ASSUME NEW c \in Conn, NEW size \in Sizes, Send(c, size) PROVE UnseenInv'
  <2>1. UNCHANGED <<turns, losses, evictions>>
    BY <1>3 DEF Send
  <2>2. QED BY <1>1, <1>2, <1>3, <2>1, SendUnseen
<1>4. ASSUME NEW c \in Conn, Arrives(c) PROVE UnseenInv'
  <2>1. UNCHANGED <<turns, losses, evictions>>
    BY <1>4 DEF Arrives, StartArrives, EndArrives, DataArrives
  <2>2. QED BY <1>1, <1>2, <1>4, <2>1, StartUnseen, DataUnseen, EndUnseen DEF Arrives
<1>5. ASSUME NEW c \in Conn, Lose(c) PROVE UnseenInv'
  <2>1. losses' = losses + 1 /\ evictions' = evictions
    BY <1>5 DEF Lose
  <2>2. LossesCounted' /\ losses' /= 0
    BY <1>1, <2>1 DEF LossesCounted
  <2>3. QED BY <2>2 DEF UnseenInv, Undisturbed
<1>6. ASSUME Evict PROVE UnseenInv'
  <2>1. evictions' = evictions + 1 /\ losses' = losses
    BY <1>6 DEF Evict
  <2>2. LossesCounted' /\ evictions' /= 0
    BY <1>1, <2>1 DEF LossesCounted
  <2>3. QED BY <2>2 DEF UnseenInv, Undisturbed
<1>7. ASSUME UNCHANGED chunkingVars PROVE UnseenInv'
  BY <1>1, <1>7 DEF chunkingVars, UnseenInv, LossesCounted, Undisturbed, UnseenSoFar, InOrder,
     Waiting, ReadingAlone, Matched
<1>8. QED BY <1>3, <1>4, <1>5, <1>6, <1>7 DEF ChunkingNext

LEMMA UnseenInvariance == ChunkingSpec => []UnseenInv
BY UnseenInit, UnseenStep, AssembledInvariance, PTL DEF ChunkingSpec

(* While connections take turns and nothing breaks, for any sizes and any  *)
(* number of connections: a connection's messages arrive as they were      *)
(* sent, in that order, and all of them once the wire is empty.            *)
THEOREM ChunkingIsUnseen == ChunkingSpec => []ChunkingUnseen
<1>1. AssembledInv /\ UnseenInv => ChunkingUnseen
  <2> SUFFICES ASSUME AssembledInv, UnseenInv, turns, losses = 0, evictions = 0, NEW c \in Conn
               PROVE  /\ Len(received[c]) <= Len(sent[c])
                      /\ \A i \in DOMAIN received[c] : IsWhole(received[c][i], sent[c][i])
                      /\ wire[c] = <<>> => Len(received[c]) = Len(sent[c])
    BY DEF ChunkingUnseen
  <2>1. Waiting(c) /\ ReadingAlone /\ Matched
    BY DEF UnseenInv, Undisturbed, UnseenSoFar
  <2>2. DOMAIN received[c] = 1 .. Len(received[c])
    BY DEF AssembledInv, ChunksTyped
  <2>3. ASSUME wire[c] = <<>> PROVE Len(received[c]) = Len(sent[c])
    <3>1. start /= NoBatch => wire[start.id.conn] /= <<>>
      BY <2>1, ReadingHasMore
    <3>2. start = NoBatch \/ start.id.conn /= c
      BY <2>3, <3>1
    <3>3. QED BY <2>1, <2>3, <3>2 DEF Waiting
  <2>4. QED BY <2>1, <2>2, <2>3 DEF Matched
<1>2. QED BY <1>1, AssembledInvariance, UnseenInvariance, PTL
=============================================================================
