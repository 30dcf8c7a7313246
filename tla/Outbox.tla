------------------------------- MODULE Outbox -------------------------------
(***************************************************************************)
(* What ReconnectingWebSocket.send() promises its caller: the messages a   *)
(* socket is given are the messages that were accepted, each one once, in  *)
(* the order of the calls.  A message is accepted when it is handed to an  *)
(* open socket directly, which is allowed only when nothing is waiting, or *)
(* when there is room for it in a buffer of Limit messages.  Messages are  *)
(* numbered by the calls to send().                                        *)
(***************************************************************************)
EXTENDS Integers, Sequences

CONSTANT Limit          \* how many messages may wait

VARIABLES
  sent,                 \* number of calls of send() so far
  pending,              \* accepted and not yet handed to a socket
  handed                \* everything that was given to a socket, oldest first

outboxVars == <<sent, pending, handed>>

OutboxInit ==
  /\ sent = 0
  /\ pending = <<>>
  /\ handed = <<>>

HandOver ==
  /\ pending = <<>>
  /\ sent' = sent + 1
  /\ handed' = Append(handed, sent + 1)
  /\ UNCHANGED pending

Buffer ==
  /\ Len(pending) < Limit
  /\ sent' = sent + 1
  /\ pending' = Append(pending, sent + 1)
  /\ UNCHANGED handed

Discard ==
  /\ Len(pending) = Limit
  /\ sent' = sent + 1
  /\ UNCHANGED <<pending, handed>>

Flush ==
  /\ handed' = handed \o pending
  /\ pending' = <<>>
  /\ UNCHANGED sent

OutboxNext == HandOver \/ Buffer \/ Discard \/ Flush

OutboxSpec == OutboxInit /\ [][OutboxNext]_outboxVars
=============================================================================
