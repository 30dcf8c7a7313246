------------------------------ MODULE RoomFeed ------------------------------
(***************************************************************************)
(* What a partysub room promises its subscribers, whatever nodes serve it: *)
(* a message is delivered only to those who want its topic in its room at  *)
(* that moment, and is not over before each of those who wanted it when it *)
(* was published has it, has left or asked for something else, or was cut  *)
(* off by a node that failed.                                              *)
(***************************************************************************)
EXTENDS Naturals, Sequences

CONSTANTS Client, Room, Topic, MaxMessages

VARIABLES
  wanted,           \* the rooms and topics that each client wants
  messages,         \* what was published, oldest first
  delivered,        \* the messages that each client was given
  missing,          \* who has to be given a message still
  underway          \* the messages that are not over

feedVars == <<wanted, messages, delivered, missing, underway>>

FeedMessage == 1 .. MaxMessages

Audience(message) == {c \in Client : message \in wanted[c]}

FeedInit ==
  /\ wanted = [c \in Client |-> {}]
  /\ messages = <<>>
  /\ delivered = [c \in Client |-> {}]
  /\ missing = [m \in FeedMessage |-> {}]
  /\ underway = {}

-----------------------------------------------------------------------------
WaitsNoMore(c) == missing' = [m \in FeedMessage |-> missing[m] \ {c}]

(* A client wants some topics of one room, and no longer what it wanted.   *)
Want(c, room, topics) ==
  /\ UNCHANGED <<messages, underway, delivered>>
  /\ wanted' = [wanted EXCEPT ![c] = [room : {room}, topic : topics]]
  /\ WaitsNoMore(c)

Leave(c) ==
  /\ UNCHANGED <<messages, underway>>
  /\ wanted' = [wanted EXCEPT ![c] = {}]
  /\ delivered' = [delivered EXCEPT ![c] = {}]
  /\ WaitsNoMore(c)

Give(m, some) ==
  delivered' = [c \in Client |-> IF c \in some THEN delivered[c] \cup {m} ELSE delivered[c]]

(* A message may be over only when nobody misses it. *)
OverWhenComplete(m) ==
  \/ underway' = underway \cup {m}
  \/ missing'[m] = {} /\ underway' = underway \ {m}

Announce(message) ==
  LET m == Len(messages) + 1 IN
  /\ m <= MaxMessages
  /\ messages' = Append(messages, message)
  /\ UNCHANGED wanted
  /\ \E some \in SUBSET Audience(message) :
       /\ Give(m, some)
       /\ missing' = [missing EXCEPT ![m] = Audience(message) \ some]
  /\ OverWhenComplete(m)

Deliver(m, some) ==
  /\ UNCHANGED <<messages, wanted>>
  /\ some \subseteq Audience(messages[m])
  /\ Give(m, some)
  /\ missing' = [missing EXCEPT ![m] = @ \ some]
  /\ OverWhenComplete(m)

(* A node fails: those who are connected to it do not get the message.     *)
CutOff(m, some) ==
  /\ UNCHANGED <<messages, wanted, delivered>>
  /\ missing' = [missing EXCEPT ![m] = @ \ some]
  /\ OverWhenComplete(m)

FeedNext ==
  \/ \E c \in Client, room \in Room, topics \in SUBSET Topic : Want(c, room, topics)
  \/ \E c \in Client : Leave(c)
  \/ \E message \in [room : Room, topic : Topic] : Announce(message)
  \/ \E m \in underway, some \in SUBSET Client : Deliver(m, some) \/ CutOff(m, some)

FeedSpec == FeedInit /\ [][FeedNext]_feedVars
=============================================================================
