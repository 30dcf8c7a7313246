------------------------------- MODULE PubSub -------------------------------
(***************************************************************************)
(* partysub: a room is served by several nodes, which are Servers named    *)
(* after the room, a location and a number.  A subscriber connects to one  *)
(* of them; a message goes to the subscribers of the node that it reached  *)
(* and, in one call of publish() per node, to those of all the others.     *)
(* Nodes keep nothing but the topics of their connections, which survive   *)
(* hibernation; a call that fails is logged and forgotten.                 *)
(*                                                                         *)
(* Names, topics and patterns are sequences of the parts that the code     *)
(* looks at: a room is the parts of its name between hyphens, and the      *)
(* pattern "p:*" is <<"p", ":", "*">>.                                     *)
(***************************************************************************)
EXTENDS Naturals, Sequences, FiniteSets

CONSTANTS
  Client,
  Part,             \* the parts of names and topics
  Room,             \* names of rooms, sequences of parts
  Location,         \* the locations that count, in their order: the keys of
                    \* options.locations, or, without a weight there, all nine
  MaxNodes,         \* options.nodes is at most this,
  MaxWeight,        \* and the weights are at most this
  Topic,            \* topics that messages have
  Topics,           \* lists of patterns that subscribers ask for
  MaxMessages,      \* bound on the messages published
  None

ASSUME PubSubAssumption ==
  /\ Room \subseteq Seq(Part) /\ Location \in Seq(Part) \ {<<>>}
  /\ Topics \subseteq Seq(Seq(Part))
  /\ MaxNodes \in Nat \ {0} /\ MaxWeight \in Nat \ {0} /\ MaxMessages \in Nat
  /\ None \notin [room : Room, name : Seq(Part \cup Nat), topics : Topics]

VARIABLES
  asked,            \* options.nodes
  nodes,            \* how many nodes each location has
  sub,              \* the node and the patterns of each connection
  messages,         \* what was published, and in which room
  calls,            \* calls of publish() that are under way
  got,              \* how many copies of each message a connection was sent
  owed              \* who was subscribed to a message when it was published,
                    \* has stayed so, and was not cut off by a call that failed

vars == <<asked, nodes, sub, messages, calls, got, owed>>

-----------------------------------------------------------------------------
(***************************************************************************)
(* generateIdsGroupedByLocation().                                         *)
(***************************************************************************)
Larger(a, b) == IF a < b THEN b ELSE a

Place == 1 .. Len(Location)

Total(f) ==
  LET sum[i \in 0 .. Len(Location)] == IF i = 0 THEN 0 ELSE sum[i - 1] + f[i]
  IN  sum[Len(Location)]

(* Weights that are all zero, or none, give way to ones for the nine      *)
(* locations there are: the code goes on with these as if they were asked. *)
Weights == {weight \in [Place -> 0 .. MaxWeight] : Total(weight) > 0}

(* (w / total) * N in floating point: a product that should be whole may   *)
(* fall short of it, as (1 / 49) * 49 does. It does so in places `short`.  *)
Rounded(weight, n, i, short) ==
  LET whole == (weight[i] * n) \div Total(weight)
  IN  IF i \in short /\ whole > 0 /\ whole * Total(weight) = weight[i] * n
      THEN whole - 1 ELSE whole

(* The share of a location, which has a node at least. *)
Share(weight, n, i, short) == Larger(Rounded(weight, n, i, short), 1)

(* What the shares leave of n is dealt out in turn. *)
Allocation(weight, n, short) ==
  LET share == [i \in Place |-> Share(weight, n, i, short)]
      left == IF Total(share) < n THEN n - Total(share) ELSE 0
  IN  [i \in Place |-> share[i] + (left + Len(Location) - i) \div Len(Location)]

-----------------------------------------------------------------------------
(***************************************************************************)
(* Names and topics.                                                       *)
(***************************************************************************)
NodeIDs == {<<Location[i], k>> : i \in Place, k \in 0 .. MaxNodes + Len(Location)}

NodesOf(i) == {<<Location[i], k>> : k \in 0 .. nodes[i] - 1}

AllNodes == UNION {NodesOf(i) : i \in Place}

(* this.name without its last two parts. *)
LastThreeCut(name) == SubSeq(name, 1, Len(name) - 3)            \* mutant
BaseName(name) == SubSeq(name, 1, Len(name) - 2)

(* A request from a place that has nodes goes to one of them, any other    *)
(* request anywhere.                                                       *)
RouteFrom(origin, room) ==
  {room \o node : node \in IF origin \in Place THEN NodesOf(origin) ELSE AllNodes}

StartsWith(s, prefix) ==
  Len(prefix) <= Len(s) /\ SubSeq(s, 1, Len(prefix)) = prefix

Matches(pattern, topic) ==
  \/ pattern = <<"*">>
  \/ pattern = topic
  \/ /\ Len(pattern) >= 2 /\ SubSeq(pattern, Len(pattern) - 1, Len(pattern)) = <<":", "*">>
     /\ StartsWith(topic, SubSeq(pattern, 1, Len(pattern) - 2))

-----------------------------------------------------------------------------
(***************************************************************************)
(* The nodes.                                                              *)
(***************************************************************************)
Init ==
  /\ \E weight \in Weights, n \in 1 .. MaxNodes, short \in SUBSET Place :
       nodes = Allocation(weight, n, short) /\ asked = n
  /\ sub = [c \in Client |-> None]
  /\ messages = <<>>
  /\ calls = {}
  /\ got = [c \in Client |-> [m \in 1 .. MaxMessages |-> 0]]
  /\ owed = [m \in 1 .. MaxMessages |-> {}]

At(name) == {c \in Client : sub[c] /= None /\ sub[c].name = name}

(* How many of a connection's patterns a topic matches. *)
Matching(c, topic) == Cardinality({i \in DOMAIN sub[c].topics : Matches(sub[c].topics[i], topic)})

(* publish(): a copy for each pattern that matches. *)
Publish(name, m, topic) ==
  got' = [c \in Client |-> IF c \in At(name) THEN [got[c] EXCEPT ![m] = @ + Matching(c, topic)]
                                             ELSE got[c]]

(* The nodes that broadcastPubSubMessage() calls. *)
EvenItself(name) == {BaseName(name) \o node : node \in AllNodes} \* mutant
SameLocation(name) ==                                           \* mutant
  {other \in EvenItself(name) \ {name} : other[Len(other) - 1] = name[Len(name) - 1]}
OtherNodes(name) == {BaseName(name) \o node : node \in AllNodes} \ {name}

(* Those who should get a message of a room. *)
Subscribed(room, topic) ==
  {c \in Client : /\ sub[c] /= None /\ sub[c].room = room
                  /\ \E i \in DOMAIN sub[c].topics : Matches(sub[c].topics[i], topic)}

(* A message for a room reaches a node, from a subscriber or in a request. *)
BroadcastPubSubMessage(room, name, topic) ==
  LET m == Len(messages) + 1 IN
  /\ m <= MaxMessages
  /\ messages' = Append(messages, [room |-> room, topic |-> topic])
  /\ Publish(name, m, topic)
  /\ calls' = calls \cup {[to |-> other, message |-> m] : other \in OtherNodes(name)}
  /\ owed' = [owed EXCEPT ![m] = Subscribed(room, topic)]
  /\ UNCHANGED <<asked, nodes, sub>>

OnMessage(c, topic) ==
  /\ sub[c] /= None
  /\ BroadcastPubSubMessage(sub[c].room, sub[c].name, topic)

OnRequest(room, topic) ==
  \E origin \in 0 .. Len(Location) : \E name \in RouteFrom(origin, room) :
    BroadcastPubSubMessage(room, name, topic)

PublishArrives(call) ==
  /\ Publish(call.to, call.message, messages[call.message].topic)
  /\ calls' = calls \ {call}
  /\ UNCHANGED <<asked, nodes, sub, messages, owed>>

PublishFails(call) ==
  /\ calls' = calls \ {call}
  /\ owed' = [owed EXCEPT ![call.message] = @ \ At(call.to)]
  /\ UNCHANGED <<asked, nodes, sub, messages, got>>

-----------------------------------------------------------------------------
(***************************************************************************)
(* The subscribers.                                                        *)
(***************************************************************************)
NoLonger(c) == owed' = [m \in 1 .. MaxMessages |-> owed[m] \ {c}]

OnConnect(c, room, topics) ==
  /\ sub[c] = None
  /\ \E origin \in 0 .. Len(Location) : \E name \in RouteFrom(origin, room) :
       sub' = [sub EXCEPT ![c] = [room |-> room, name |-> name, topics |-> topics]]
  /\ UNCHANGED <<asked, nodes, messages, calls, got, owed>>

(* A message with __topics. *)
SetTopics(c, topics) ==
  /\ sub[c] /= None
  /\ sub' = [sub EXCEPT ![c].topics = topics]
  /\ NoLonger(c)
  /\ UNCHANGED <<asked, nodes, messages, calls, got>>

Disconnect(c) ==
  /\ sub[c] /= None
  /\ sub' = [sub EXCEPT ![c] = None]
  /\ got' = [got EXCEPT ![c] = [m \in 1 .. MaxMessages |-> 0]]
  /\ NoLonger(c)
  /\ UNCHANGED <<asked, nodes, messages, calls>>

Next ==
  \/ \E c \in Client, room \in Room, topics \in Topics : OnConnect(c, room, topics)
  \/ \E c \in Client, topics \in Topics : SetTopics(c, topics)
  \/ \E c \in Client : Disconnect(c)
  \/ \E c \in Client, topic \in Topic : OnMessage(c, topic)
  \/ \E room \in Room, topic \in Topic : OnRequest(room, topic)
  \/ \E call \in calls : PublishArrives(call) \/ PublishFails(call)

Spec == Init /\ [][Next]_vars

-----------------------------------------------------------------------------
(***************************************************************************)
(* Properties.                                                             *)
(***************************************************************************)
Message == 1 .. MaxMessages

TypeOK ==
  /\ asked \in 1 .. MaxNodes
  /\ nodes \in [Place -> 1 .. MaxNodes + Len(Location)]
  /\ \A c \in Client :
       sub[c] /= None => /\ sub[c].room \in Room /\ sub[c].topics \in Topics
                         /\ sub[c].name \in {sub[c].room \o node : node \in NodeIDs}
  /\ messages \in Seq([room : Room, topic : Topic]) /\ Len(messages) <= MaxMessages
  /\ \A call \in calls : /\ \E room \in Room, node \in NodeIDs : call.to = room \o node
                         /\ call.message \in 1 .. Len(messages)
  /\ got \in [Client -> [Message -> Nat]]
  /\ owed \in [Message -> SUBSET Client]

(* Who is subscribed when a message is published, wherever in the room,    *)
(* and stays so, has it or is still to be called (index.ts:80-107).        *)
NothingLost ==
  \A m \in 1 .. Len(messages) : \A c \in owed[m] :
    got[c][m] > 0 \/ [to |-> sub[c].name, message |-> m] \in calls

(* A connection is sent a message by one node and in one go, a copy for    *)
(* each of its patterns that match: no other node, and no call of          *)
(* publish() that is still under way, sends it again, however nodes are    *)
(* named and whatever the subscriber did meanwhile (index.ts:80-124).      *)
SentInOneGo ==
  [][\A c \in Client, m \in Message :
       got'[c][m] > got[c][m] =>
         got[c][m] = 0 /\ got'[c][m] = Matching(c, messages'[m].topic)]_vars

(* Messages are delivered at most once (README.md:148): not so where two   *)
(* patterns of a subscription match one topic.                             *)
AtMostOnce == \A c \in Client, m \in Message : got[c][m] <= 1

(* A node is called for messages of its own room only (:87, :93).          *)
RoomsApart ==
  \A call \in calls : \E node \in AllNodes : call.to = messages[call.message].room \o node

(***************************************************************************)
(* The nodes together implement a room that is in one place: what its      *)
(* clients want is the topics that their patterns match, and a message is  *)
(* under way as long as a call of publish() is (index.ts:80-124).  So      *)
(* nobody is sent a message that it did not subscribe to at that moment in *)
(* that very room, and when no call is left nobody misses the message.     *)
(***************************************************************************)
Wanted(subscription) ==
  IF subscription = None THEN {}
  ELSE [room : {subscription.room},
        topic : {topic \in Topic :
                   \E i \in DOMAIN subscription.topics : Matches(subscription.topics[i], topic)}]

Wants == [c \in Client |-> Wanted(sub[c])]
Delivered == [c \in Client |-> {m \in Message : got[c][m] > 0}]
Missing == [m \in Message |-> {c \in owed[m] : got[c][m] = 0}]
Underway == {call.message : call \in calls}

Feed == INSTANCE RoomFeed WITH
  wanted <- Wants, delivered <- Delivered, missing <- Missing, underway <- Underway
ImplementsFeed == Feed!FeedSpec

(* There are as many nodes as were asked for (README.md:27). *)
NodesAsAsked == Total(nodes) = asked
=============================================================================
