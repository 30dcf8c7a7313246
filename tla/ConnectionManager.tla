-------------------------- MODULE ConnectionManager --------------------------
(***************************************************************************)
(* partyserver's two connection managers (packages/partyserver/src/        *)
(* connection.ts).  A Server keeps its accepted WebSockets either in a Map *)
(* from connection ids to sockets (InMemoryConnectionManager) or leaves    *)
(* them to the platform (HibernatingConnectionManager).  The id of a       *)
(* connection is chosen by its client, and a client that connects again    *)
(* brings the id it had.                                                   *)
(***************************************************************************)
EXTENDS Functions

CONSTANTS
  Conn,                 \* the server's ends of WebSockets
  Id,                   \* connection ids
  IdOf                  \* the id each socket's client asked for (_pk)

ASSUME ManagerAssumption == IdOf \in [Conn -> Id]

VARIABLES
  hibernate,            \* static options.hibernate
  sock,                 \* "new", and when accepted the readyState: "open",
                        \* "closing", "closed"
  byId,                 \* #connections of the in-memory manager
  removers,             \* sockets whose close still runs removeConnection
  overlapped            \* history, read by no action: sockets such that, since
                        \* they were accepted, another of their id came or went

managerVars == <<hibernate, sock, byId, removers, overlapped>>

ManagerTypeOK ==
  /\ hibernate \in BOOLEAN
  /\ sock \in [Conn -> {"new", "open", "closing", "closed"}]
  /\ DOMAIN byId \subseteq Id
  /\ \A i \in DOMAIN byId : byId[i] \in Conn
  /\ removers \subseteq Conn
  /\ overlapped \subseteq Conn

ManagerInit ==
  /\ hibernate \in BOOLEAN
  /\ sock = [c \in Conn |-> "new"]
  /\ byId = <<>>
  /\ removers = {}
  /\ overlapped = {}

Open == {c \in Conn : sock[c] = "open"}

-----------------------------------------------------------------------------
(***************************************************************************)
(* What a Server reads from its manager.                                   *)
(***************************************************************************)

(* DurableObjectState.getWebSockets(): what was accepted and has not gone. *)
PlatformSockets == {c \in Conn : sock[c] \in {"open", "closing"}}

(* getConnections(): the open sockets of either manager. *)
EvenClosing ==                                              \* mutant
  IF hibernate THEN PlatformSockets ELSE Range(byId)
GetConnections ==
  {c \in IF hibernate THEN PlatformSockets ELSE Range(byId) : sock[c] = "open"}

(* getConnections(tag); every connection is tagged with its id.  The       *)
(* in-memory generator does not look at readyState here.                   *)
GetTagged(tag) ==
  IF hibernate THEN {c \in GetConnections : IdOf[c] = tag}
               ELSE {c \in Range(byId) : IdOf[c] = tag}

(* getConnection(id): the sockets it finds; the hibernating manager throws *)
(* when there is more than one.                                            *)
GetConnection(id) ==
  IF hibernate THEN {c \in PlatformSockets : IdOf[c] = id}
               ELSE {byId[i] : i \in DOMAIN byId \cap {id}}

(* broadcast(msg, without): who is sent the message. *)
Recipients(without) == {c \in GetConnections : IdOf[c] \notin without}

-----------------------------------------------------------------------------
(***************************************************************************)
(* What changes them.                                                      *)
(***************************************************************************)

(* Map.set *)
Registered(c) ==
  [i \in DOMAIN byId \cup {IdOf[c]} |-> IF i = IdOf[c] THEN c ELSE byId[i]]

(* Map.delete *)
NothingRemoved(c) == byId                                   \* mutant
Unregistered(c) == Restrict(byId, DOMAIN byId \ {IdOf[c]})

(* The other sockets there are with the id of c: when c comes or goes they *)
(* overlap with it.                                                        *)
SameId(c) == {d \in PlatformSockets \ {c} : IdOf[d] = IdOf[c]}

(* accept(); a client may come back while its last socket is still there.  *)
Accept(c) ==
  /\ sock[c] = "new"
  /\ sock' = [sock EXCEPT ![c] = "open"]
  /\ overlapped' = overlapped \cup SameId(c)
  /\ UNCHANGED hibernate
  /\ IF hibernate
     THEN UNCHANGED <<byId, removers>>
     ELSE byId' = Registered(c) /\ removers' = removers \cup {c}

(* A socket that is never accepted. *)
Refuse(c) ==
  /\ sock[c] = "new"
  /\ sock' = [sock EXCEPT ![c] = "closed"]
  /\ UNCHANGED <<hibernate, byId, removers, overlapped>>

(* The server or the client begins to close; the close event is to come. *)
BeginClose(c) ==
  /\ sock[c] = "open"
  /\ sock' = [sock EXCEPT ![c] = "closing"]
  /\ UNCHANGED <<hibernate, byId, removers, overlapped>>

(* The close or error event of a socket; the in-memory manager listens to  *)
(* both with removeConnection, which runs once and deletes the entry of    *)
(* the socket's id, whichever socket the entry holds.                      *)
SocketGone(c) ==
  /\ sock[c] \in {"open", "closing"}
  /\ sock' = [sock EXCEPT ![c] = "closed"]
  /\ overlapped' = (overlapped \cup SameId(c)) \ {c}
  /\ UNCHANGED hibernate
  /\ IF c \in removers
     THEN byId' = Unregistered(c) /\ removers' = removers \ {c}
     ELSE UNCHANGED <<byId, removers>>

(* The memory of the Server is gone; what the platform keeps stays. *)
ForgetConnections ==
  /\ byId' = <<>>
  /\ removers' = {}
  /\ overlapped' = {}
  /\ UNCHANGED hibernate

-----------------------------------------------------------------------------
(***************************************************************************)
(* Properties.                                                             *)
(***************************************************************************)

(* broadcast(): "Send a message to all connected clients, except           *)
(* connection ids listed in `without`" (partyserver/src/index.ts:514).     *)
(* With hibernation it does.  In memory it is sent to every open socket    *)
(* but those that overlapped with another of their client.                 *)
BroadcastReachesAll ==
  \A without \in SUBSET Id :
    Recipients(without) =
      {c \in Open : IdOf[c] \notin without /\ (hibernate \/ c \notin overlapped)}

(* What the comment says, for a connection that is the only one left with  *)
(* its id.  It does not hold of the in-memory manager: when the old socket *)
(* of a client closes after the new one came, the new one is forgotten.    *)
SoleConnectionReached ==
  \A c \in Open :
    {d \in PlatformSockets : IdOf[d] = IdOf[c]} = {c} => c \in Recipients({})

(* The Map holds just the sockets that have not gone and that no other     *)
(* socket of their id followed or left since they came: an id leads to the *)
(* newest socket of its client, a socket that has gone is never kept, and  *)
(* a socket is lost only to a reconnecting client (connection.ts:240, 248).*)
(* getConnection() finds each open socket that is not lost, and finds more *)
(* than one, when it throws, only of a client whose sockets overlap.       *)
MapIsExact ==
  /\ ~hibernate => Range(byId) = PlatformSockets \ overlapped
  /\ \A c \in Open :
       /\ hibernate \/ c \notin overlapped => c \in GetConnection(IdOf[c])
       /\ SameId(c) = {} => GetConnection(IdOf[c]) \subseteq {c}

(* getConnections(tag): "Get all currently connected WebSocket             *)
(* connections, optionally filtered by tags" (README.md:118).              *)
TaggedAreOpen == \A tag \in Id : GetTagged(tag) \subseteq Open
=============================================================================
