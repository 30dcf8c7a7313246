------------------------------ MODULE Chunking ------------------------------
(***************************************************************************)
(* y-partyserver's chunked messages (packages/y-partyserver/src/shared/    *)
(* chunking.ts).  A message that is larger than ChunkMax is sent in slices *)
(* between a start and an end marker; the receiver, one closure for all    *)
(* connections of a server, puts the slices together again.                *)
(*                                                                         *)
(* The bytes of message m are numbered from 1 to m.size, and a slice names *)
(* the bytes it holds.                                                     *)
(***************************************************************************)
EXTENDS Integers, Sequences, SequencesExt

CONSTANTS
  Conn,                 \* connections of the server
  ChunkMax,             \* CHUNK_MAX_SIZE
  Sizes,                \* the sizes of messages
  MaxMessages,          \* bound: messages of each connection
  NoBatch,              \* no batch is being read
  MaxLosses,            \* bound: losses of a connection
  MaxEvictions          \* bound: evictions of a hibernating server

ASSUME ChunkingAssumption ==
  /\ ChunkMax \in Nat \ {0} /\ Sizes \subseteq Nat \ {0}
  /\ MaxMessages \in Nat /\ MaxLosses \in Nat /\ MaxEvictions \in Nat

VARIABLES
  turns,                \* do connections wait for each other's batches to end
  sent,                 \* the messages each connection has sent
  wire,                 \* the packets under way on each connection
  batch,                \* the slices read since the start marker, or NoBatch
  start,                \* the start marker, or NoBatch
  received,             \* what receive() was called with, by connection
  lost,                 \* messages a lost connection took with it (history)
  losses, evictions     \* how often so far

chunkingVars == <<turns, sent, wire, batch, start, received, lost, losses, evictions>>

Messages == [conn : Conn, n : 1 .. MaxMessages, size : Sizes]

-----------------------------------------------------------------------------
(***************************************************************************)
(* sendChunked()                                                           *)
(***************************************************************************)

Slice(m, from, to) == [of |-> m, from |-> from, to |-> to]
Bytes(slice) == slice.to - slice.from + 1
SumBytes(slices) ==
  LET sum[i \in 0 .. Len(slices)] == IF i = 0 THEN 0 ELSE sum[i - 1] + Bytes(slices[i])
  IN  sum[Len(slices)]

SmallerOf(a, b) == IF a < b THEN a ELSE b

(* Math.ceil(size / ChunkMax) *)
RoundedDown(m) == m.size \div ChunkMax                      \* mutant
ChunkCount(m) == (m.size + ChunkMax - 1) \div ChunkMax

SlicesOf(m) ==
  [i \in 1 .. ChunkCount(m) |->
    Slice(m, ChunkMax * (i - 1) + 1, SmallerOf(ChunkMax * i, m.size))]

Data(slice) == [type |-> "data", slice |-> slice]
Marker(type, m, size, count) == [type |-> type, id |-> m, size |-> size, count |-> count]

Slices == [of : Messages, from : Nat, to : Nat]
Markers == [type : {"start", "end"}, id : Messages, size : Nat, count : Nat]

ASSUME NoBatchAssumption == NoBatch \notin Seq(Slices) /\ NoBatch \notin Markers

Packets(m) ==
  IF m.size <= ChunkMax
  THEN <<Data(Slice(m, 1, m.size))>>
  ELSE LET slices == SlicesOf(m) IN
       <<Marker("start", m, m.size, ChunkCount(m))>>
         \o [i \in DOMAIN slices |-> Data(slices[i])]
         \o <<Marker("end", m, SumBytes(slices), Len(slices))>>

Send(c, size) ==
  /\ Len(sent[c]) < MaxMessages
  /\ LET m == [conn |-> c, n |-> Len(sent[c]) + 1, size |-> size] IN
     /\ sent' = [sent EXCEPT ![c] = Append(@, m)]
     /\ wire' = [wire EXCEPT ![c] = @ \o Packets(m)]
  /\ UNCHANGED <<turns, batch, start, received, lost, losses, evictions>>

-----------------------------------------------------------------------------
(***************************************************************************)
(* handleChunked(): one packet of some connection arrives.                 *)
(***************************************************************************)

(* Connections that take turns: the packet is of the message being read.   *)
Packet(c, type) ==
  /\ wire[c] /= <<>> /\ Head(wire[c]).type = type
  /\ turns /\ start /= NoBatch => c = start.id.conn
  /\ wire' = [wire EXCEPT ![c] = Tail(@)]

Handed(c, slices) == received' = [received EXCEPT ![c] = Append(@, slices)]

StartArrives(c) ==
  /\ Packet(c, "start")
  /\ batch' = <<>>
  /\ start' = Head(wire[c])
  /\ UNCHANGED <<turns, sent, received, lost, losses, evictions>>

(* The markers match, and what was read is what they say. *)
CountIgnored(marker) ==                                     \* mutant
  start = [marker EXCEPT !.type = "start"]
Complete(marker) ==
  /\ start = [marker EXCEPT !.type = "start"]
  /\ Len(batch) = marker.count
  /\ SumBytes(batch) = marker.size

(* An end marker: what was read is handed over, or an error is thrown; an  *)
(* end without a start is ignored.                                         *)
BatchDropped == batch' = NoBatch /\ start' = NoBatch

EndArrives(c) ==
  /\ Packet(c, "end")
  /\ LET marker == Head(wire[c]) IN
     \/ /\ batch = NoBatch
        /\ UNCHANGED <<batch, start, received>>
     \/ /\ batch /= NoBatch /\ Complete(marker)
        /\ Handed(c, batch)
        /\ BatchDropped
     \/ /\ batch /= NoBatch /\ ~Complete(marker)
        /\ BatchDropped
        /\ UNCHANGED received
  /\ UNCHANGED <<turns, sent, lost, losses, evictions>>

DataArrives(c) ==
  /\ Packet(c, "data")
  /\ LET slice == Head(wire[c]).slice IN
     \/ batch /= NoBatch /\ batch' = Append(batch, slice) /\ UNCHANGED received
     \/ batch = NoBatch /\ Handed(c, <<slice>>) /\ UNCHANGED batch
  /\ UNCHANGED <<turns, sent, start, lost, losses, evictions>>

-----------------------------------------------------------------------------
(***************************************************************************)
(* What the network and the platform may do.                               *)
(***************************************************************************)

(* The connection breaks; the client connects again later. *)
Lose(c) ==
  /\ losses < MaxLosses /\ wire[c] /= <<>>
  /\ losses' = losses + 1
  /\ lost' = lost \cup {IF p.type = "data" THEN p.slice.of ELSE p.id : p \in Range(wire[c])}
  /\ wire' = [wire EXCEPT ![c] = <<>>]
  /\ UNCHANGED <<turns, sent, batch, start, received, evictions>>

(* A hibernating server leaves memory between two packets. *)
Evict ==
  /\ evictions < MaxEvictions
  /\ evictions' = evictions + 1
  /\ BatchDropped
  /\ UNCHANGED <<turns, sent, wire, received, lost, losses>>

-----------------------------------------------------------------------------

ChunkingInit ==
  /\ turns \in BOOLEAN
  /\ sent = [c \in Conn |-> <<>>]
  /\ wire = [c \in Conn |-> <<>>]
  /\ batch = NoBatch /\ start = NoBatch
  /\ received = [c \in Conn |-> <<>>]
  /\ lost = {}
  /\ losses = 0 /\ evictions = 0

Arrives(c) == StartArrives(c) \/ EndArrives(c) \/ DataArrives(c)

ChunkingNext ==
  \/ \E c \in Conn : (\E size \in Sizes : Send(c, size)) \/ Arrives(c) \/ Lose(c)
  \/ Evict

ChunkingSpec == ChunkingInit /\ [][ChunkingNext]_chunkingVars

-----------------------------------------------------------------------------
(***************************************************************************)
(* Properties.                                                             *)
(***************************************************************************)

IsSlice(s) == s.of \in Messages /\ 1 <= s.from /\ s.from <= s.to /\ s.to <= s.of.size
IsPacket(p) ==
  \/ p.type = "data" /\ IsSlice(p.slice)
  \/ p.type \in {"start", "end"} /\ p.id \in Messages /\ p.size = p.id.size

ChunkingTypeOK ==
  /\ turns \in BOOLEAN
  /\ \A c \in Conn : sent[c] \in Seq(Messages)
  /\ \A c \in Conn : \A p \in Range(wire[c]) : IsPacket(p)
  /\ batch /= NoBatch => \A s \in Range(batch) : IsSlice(s)
  /\ start = NoBatch \/ (IsPacket(start) /\ start.type = "start")
  /\ (batch = NoBatch) = (start = NoBatch)
  /\ lost \subseteq Messages
  /\ losses \in 0 .. MaxLosses /\ evictions \in 0 .. MaxEvictions

(* The slices are all the bytes of m, in order. *)
IsWhole(slices, m) ==
  /\ slices /= <<>> /\ \A s \in Range(slices) : s.of = m
  /\ Head(slices).from = 1 /\ Last(slices).to = m.size
  /\ \A i \in 1 .. Len(slices) - 1 : slices[i + 1].from = slices[i].to + 1

(* Whatever other connections send in between, whatever breaks and         *)
(* whatever is forgotten: what is put together of more than one slice is   *)
(* one message of that connection, all of it, in order (handleChunked).    *)
AssembledIntact ==
  \A c \in Conn : \A slices \in Range(received[c]) :
    Len(slices) > 1 => \E m \in Range(sent[c]) : IsWhole(slices, m)

(* With connections that take turns and do not break, chunking cannot be   *)
(* seen from outside: what a connection's messages are handed over as is   *)
(* what it sent, in that order, and once its packets have arrived that is  *)
(* everything it sent (sendChunked, handleChunked).                        *)
ChunkingUnseen ==
  turns /\ losses = 0 /\ evictions = 0 =>
    \A c \in Conn :
      /\ Len(received[c]) <= Len(sent[c])
      /\ \A i \in DOMAIN received[c] : IsWhole(received[c][i], sent[c][i])
      /\ wire[c] = <<>> => Len(received[c]) = Len(sent[c])

-----------------------------------------------------------------------------
(***************************************************************************)
(* What the comments say and the code does not do.                         *)
(***************************************************************************)

(* chunking.ts:86 "The server pools each chunk until it receives a chunk   *)
(* end marker": chunks of the message the start marker announced.          *)
OnlyItsChunksPooled ==
  batch /= NoBatch => \A s \in Range(batch) : s.of = start.id

(* chunking.ts:88 "The server forwards the message to handlers": each one  *)
(* whose packets have all arrived.                                         *)
ArrivedIsForwarded ==
  turns /\ evictions = 0 =>
    \A c \in Conn : wire[c] = <<>> =>
      \A m \in Range(sent[c]) \ lost : \E slices \in Range(received[c]) : IsWhole(slices, m)

(* chunking.ts:87 "The server validates that the received data matches the *)
(* expected size": what is forwarded is a message, not a part of one.      *)
OnlyMessagesForwarded ==
  \A c \in Conn : \A slices \in Range(received[c]) :
    \E m \in Range(sent[c]) : IsWhole(slices, m)
=============================================================================
