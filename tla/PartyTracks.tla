----------------------------- MODULE PartyTracks -----------------------------
(***************************************************************************)
(* How PartyTracks pushes, pulls and closes tracks: push() and pull()      *)
(* subscribe to an Observable that hands its track to a                    *)
(* BulkRequestDispatcher; the dispatcher gathers what comes before its     *)
(* timer fires and calls the bulk function of its first caller, which      *)
(* queues one task on the FIFOScheduler that all three dispatchers share;  *)
(* the task talks to the SFU, and its outcome settles the promise that the *)
(* callers of the bulk request wait for.  A caller whose track is not in   *)
(* the answer tries again after a while; one that has unsubscribed closes  *)
(* the track.                                                              *)
(*                                                                         *)
(* The arrays of a dispatcher have an identity: a timer holds the array    *)
(* that was current when it was set, which may no longer be.  A bulk       *)
(* request, its timer, its task and its promise share one number; timers   *)
(* of 0 ms fire in the order in which they were set.  Handlers of settled  *)
(* promises run before the next timer or the next message from the SFU.    *)
(*                                                                         *)
(* One session is modelled, until its peer connection is closed.  Its      *)
(* first requests are answered before the connection is up, and it may be  *)
(* disconnected and come back.                                             *)
(***************************************************************************)
EXTENDS Naturals, Sequences, Functions, FiniteSets

CONSTANTS
  Pushed, Pulled,   \* the tracks that are pushed, and those that are pulled
  Limit,            \* batchSizeLimit
  MaxFailures,      \* bound on the tasks that throw
  MaxCalls          \* bound on the pushes, pulls and retries of all tracks

ASSUME PartyTracksAssumption ==
  /\ Pushed \cap Pulled = {}
  /\ Limit \in Nat \ {0}
  /\ MaxFailures \in Nat
  /\ MaxCalls \in Nat

Track == Pushed \cup Pulled
Kind == {"push", "pull", "close"}
NoRequest == 0

VARIABLES
  batch,      \* the arrays of each dispatcher, the last is #currentBatch
  response,   \* #currentBulkResponse, the number of its bulk request
  bulk,       \* the bulk requests, in the order in which their timers were set
  track,      \* what becomes of each subscription, and the promise it awaits
  connected,  \* connectionState is "connected"
  live,       \* the mids of this session that the SFU keeps open
  unclosed,   \* those that were left and not asked to be closed (history)
  calls       \* the pushes, pulls and retries so far

vars == <<batch, response, bulk, track, connected, live, unclosed, calls>>

Request == [kind : Kind, array : Nat, state : {"timer", "queued", "done", "failed"},
            sent : Seq(Track), found : SUBSET Track]

KindOf(t) == IF t \in Pushed THEN "push" ELSE "pull"

Current(k) == Len(batch[k])

Init ==
  /\ batch = [k \in Kind |-> << <<>> >>]
  /\ response = [k \in Kind |-> NoRequest]
  /\ bulk = <<>>
  /\ track = [t \in Track |-> [state |-> "idle", promise |-> NoRequest]]
  /\ connected = FALSE
  /\ live = {} /\ unclosed = {}
  /\ calls = 0

-----------------------------------------------------------------------------
(***************************************************************************)
(* BulkRequestDispatcher.                                                  *)
(***************************************************************************)
Full(k) == Len(batch[k][Current(k)]) >= Limit

NewRequest(k, array) ==
  [kind |-> k, array |-> array, state |-> "timer", sent |-> <<>>, found |-> {}]

(* A new promise, and a timer that holds the array. *)
NewResponse(k, array) ==
  /\ bulk' = Append(bulk, NewRequest(k, array))
  /\ response' = [response EXCEPT ![k] = Len(bulk) + 1]

(* The entry goes into the current array; a pending response is shared.    *)
Join(k, t) ==
  /\ ~ Full(k)
  /\ batch' = [batch EXCEPT ![k][Current(k)] = Append(@, t)]
  /\ IF response[k] /= NoRequest THEN UNCHANGED <<bulk, response>>
                                 ELSE NewResponse(k, Current(k))

(* A full array is left to its timer, and another begun. *)
Overflow(k, t) ==
  /\ Full(k)
  /\ batch' = [batch EXCEPT ![k] = Append(@, <<t>>)]
  /\ NewResponse(k, Current(k) + 1)

DoBulkRequest(k, t) == Join(k, t) \/ Overflow(k, t)

ResponseKept(r) ==                                                   \* mutant
  LET k == bulk[r].kind
      a == bulk[r].array
  IN  /\ bulk' = [bulk EXCEPT ![r].state = "queued", ![r].sent = batch[k][a]]
      /\ batch' = [batch EXCEPT ![k][a] = <<>>]
      /\ UNCHANGED response

CurrentTaken(r) ==                                                   \* mutant
  LET k == bulk[r].kind
  IN  /\ response' = [response EXCEPT ![k] = NoRequest]
      /\ bulk' = [bulk EXCEPT ![r].state = "queued", ![r].sent = batch[k][Current(k)]]
      /\ batch' = [batch EXCEPT ![k][Current(k)] = <<>>]

(* The timer of a bulk request takes what its array holds and calls the    *)
(* bulk function, which schedules a task.                                  *)
Dispatch(r) ==
  LET k == bulk[r].kind
      a == bulk[r].array
  IN  /\ response' = [response EXCEPT ![k] = NoRequest]
      /\ bulk' = [bulk EXCEPT ![r].state = "queued", ![r].sent = batch[k][a]]
      /\ batch' = [batch EXCEPT ![k][a] = <<>>]

-----------------------------------------------------------------------------
(***************************************************************************)
(* Subscriptions.                                                          *)
(***************************************************************************)
Settled(r) == bulk[r].state \in {"done", "failed"}

(* A rejected promise has a handler in #pushTrackInBulk only.              *)
Handled(t) ==
  /\ track[t].state \in {"waiting", "left"}
  /\ Settled(track[t].promise)
  /\ bulk[track[t].promise].state = "failed" => t \in Pushed

MicrotasksDone == \A t \in Track : ~ Handled(t)

(* The Observable of a track is subscribed to: by push() or pull(), or by  *)
(* retryWithBackoff().                                                     *)
Ask(t) ==
  /\ DoBulkRequest(KindOf(t), t)
  /\ calls < MaxCalls
  /\ calls' = calls + 1
  /\ track' = [track EXCEPT ![t] = [state |-> "waiting", promise |-> response'[KindOf(t)]]]
  /\ UNCHANGED <<connected, live, unclosed>>

Subscribe(t) ==
  /\ track[t].state = "idle"
  /\ Ask(t)

Retry(t) ==
  /\ track[t].state = "backoff"
  /\ Ask(t)

Becomes(t, state) == track' = [track EXCEPT ![t].state = state]

(* The mid of a pushed track is its transceiver's, of a pulled one it is   *)
(* new in every answer.                                                    *)
MidOf(t, r) == <<t, IF t \in Pushed THEN NoRequest ELSE r>>
Mid(t) == MidOf(t, track[t].promise)

NothingAsked == UNCHANGED <<batch, response, bulk>>
NothingClosed == NothingAsked /\ UNCHANGED unclosed
LeftOpen(t) == NothingAsked /\ unclosed' = unclosed \cup {Mid(t)}

(* #closeTrackInBulk, which does nothing while the connection is not up;   *)
(* nobody awaits its promise.                                              *)
CloseTrack(t) ==
  \/ connected /\ DoBulkRequest("close", t) /\ UNCHANGED unclosed
  \/ ~connected /\ LeftOpen(t)

(* The subscriber goes: a track that was found is closed, a retry is       *)
(* cancelled, and a bulk request or the wait for a transceiver goes on.    *)
Unsubscribe(t) ==
  /\ \/ track[t].state = "found" /\ Becomes(t, "gone") /\ CloseTrack(t)
     \/ track[t].state = "backoff" /\ Becomes(t, "gone") /\ NothingClosed
     \/ track[t].state = "waiting" /\ Becomes(t, "left") /\ NothingClosed
     \/ track[t].state = "resolving" /\ Becomes(t, "unresolved") /\ NothingClosed
  /\ UNCHANGED <<connected, live, calls>>

LateIgnored(t) ==                                                    \* mutant
  \/ track[t].state \in {"waiting", "resolving"} /\ Becomes(t, "found") /\ NothingClosed
  \/ track[t].state \in {"left", "unresolved"} /\ Becomes(t, "gone") /\ NothingClosed

(* The handlers have the track; subscriber.add() of a subscriber that has  *)
(* gone closes it at once.                                                 *)
Found(t) ==
  \/ track[t].state \in {"waiting", "resolving"} /\ Becomes(t, "found") /\ NothingClosed
  \/ track[t].state \in {"left", "unresolved"} /\ Becomes(t, "gone") /\ CloseTrack(t)

(* A pull that is in the answer waits for its transceiver. *)
Resolving(t) ==
  /\ Becomes(t, IF track[t].state = "waiting" THEN "resolving" ELSE "unresolved")
  /\ NothingClosed

InAnswer(t) == (t \in Pushed /\ Found(t)) \/ (t \in Pulled /\ Resolving(t))

(* subscriber.error(), which says nothing to one that has gone.            *)
Fails(t) == Becomes(t, IF track[t].state \in {"waiting", "resolving"} THEN "backoff" ELSE "gone")
NotFound(t) == Fails(t) /\ NothingClosed

Answer(t) ==
  /\ Handled(t)
  /\ IF t \in bulk[track[t].promise].found THEN InAnswer(t) ELSE NotFound(t)
  /\ UNCHANGED <<connected, live, calls>>

(* resolveTransceiver(): the track event with the mid comes, or five       *)
(* seconds have passed; then the pull is retried, and nobody closes what   *)
(* the SFU has opened for it.                                              *)
Unresolved(t) == track[t].state \in {"resolving", "unresolved"}

TrackComes(t) ==
  /\ MicrotasksDone
  /\ Unresolved(t) /\ Found(t)
  /\ UNCHANGED <<connected, live, calls>>

GivesUp(t) ==
  /\ MicrotasksDone
  /\ Unresolved(t) /\ Fails(t) /\ LeftOpen(t)
  /\ UNCHANGED <<connected, live, calls>>

(* connectionState changes; it can be up when a first answer has come.     *)
Connection ==
  /\ MicrotasksDone
  /\ \E r \in DOMAIN bulk : Settled(r)
  /\ connected' = ~connected
  /\ UNCHANGED <<batch, response, bulk, track, live, unclosed, calls>>

-----------------------------------------------------------------------------
(***************************************************************************)
(* Timers, and the FIFOScheduler's tasks.                                  *)
(***************************************************************************)
First(state) == {r \in DOMAIN bulk : /\ bulk[r].state = state
                                     /\ \A q \in 1 .. r - 1 : bulk[q].state /= state}

TimerFires ==
  /\ MicrotasksDone
  /\ \E r \in First("timer") : Dispatch(r)
  /\ UNCHANGED <<track, connected, live, unclosed, calls>>

(* What the SFU does for a task: it opens some of the tracks, or closes    *)
(* the mids of some that have gone.                                        *)
SFU(r, tracks) ==
  live' = IF bulk[r].kind = "close" THEN live \ {Mid(t) : t \in tracks}
                                    ELSE live \cup {MidOf(t, r) : t \in tracks}

(* The task has the SFU's answer, which lists the tracks that it opened.   *)
TaskResolves ==
  /\ MicrotasksDone
  /\ \E r \in First("queued") : \E found \in SUBSET Range(bulk[r].sent) :
       /\ bulk[r].kind = "close" => found = Range(bulk[r].sent)
       /\ SFU(r, found)
       /\ bulk' = [bulk EXCEPT ![r].state = "done", ![r].found = found]
  /\ UNCHANGED <<batch, response, track, connected, unclosed, calls>>

(* The task throws, before or after the SFU has done something of it.      *)
TaskThrows ==
  /\ Cardinality({r \in DOMAIN bulk : bulk[r].state = "failed"}) < MaxFailures
  /\ MicrotasksDone
  /\ \E r \in First("queued") : \E done \in SUBSET Range(bulk[r].sent) :
       /\ SFU(r, done)
       /\ bulk' = [bulk EXCEPT ![r].state = "failed"]
  /\ UNCHANGED <<batch, response, track, connected, unclosed, calls>>

Next ==
  \/ \E t \in Track : Subscribe(t) \/ Retry(t) \/ Unsubscribe(t) \/ Answer(t)
  \/ \E t \in Pulled : TrackComes(t) \/ GivesUp(t)
  \/ Connection
  \/ TimerFires \/ TaskResolves \/ TaskThrows

Spec == Init /\ [][Next]_vars

(* Timers fire, fetch() settles and so do promises; users do what they like *)
(* and retries are timers, too.                                             *)
Fairness ==
  /\ WF_vars(TimerFires)
  /\ WF_vars(TaskResolves \/ TaskThrows)
  /\ \A t \in Track : WF_vars(Answer(t))
  /\ \A t \in Pulled : WF_vars(TrackComes(t) \/ GivesUp(t))

FairSpec == Spec /\ Fairness

-----------------------------------------------------------------------------
(***************************************************************************)
(* Properties.                                                             *)
(***************************************************************************)
TypeOK ==
  /\ batch \in [Kind -> Seq(Seq(Track))]
  /\ response \in [Kind -> 0 .. Len(bulk)]
  /\ bulk \in Seq(Request)
  /\ track \in [Track -> [state : {"idle", "waiting", "resolving", "found", "backoff",
                                     "left", "unresolved", "gone"},
                          promise : 0 .. Len(bulk)]]
  /\ connected \in BOOLEAN
  /\ live \subseteq Track \X (0 .. Len(bulk))
  /\ unclosed \subseteq Track \X (0 .. Len(bulk))
  /\ calls \in 0 .. MaxCalls

(* Whatever is in an array of a dispatcher has a timer that will take it   *)
(* (Peer.utils.ts:46-69): no order of calls and timers strands an entry,   *)
(* though arrays outlive their response and responses their array.         *)
NothingStranded ==
  \A k \in Kind : \A a \in 1 .. Len(batch[k]) :
    batch[k][a] /= <<>> =>
      \E r \in 1 .. Len(bulk) : /\ bulk[r].kind = k /\ bulk[r].array = a
                                /\ bulk[r].state = "timer"

(* No bulk request has more entries than batchSizeLimit (:40-44). *)
WithinLimit == \A r \in 1 .. Len(bulk) : Len(bulk[r].sent) <= Limit

(* When the response that a caller awaits goes to the SFU, the caller's    *)
(* entry has gone, too: it is not left for a later request (:58-75).       *)
SentByThen ==
  \A t \in Track : LET p == track[t].promise IN
    track[t].state \in {"waiting", "left"} /\ bulk[p].state /= "timer"
      => \E r \in 1 .. p : /\ bulk[r].kind = KindOf(t) /\ bulk[r].state /= "timer"
                           /\ t \in Range(bulk[r].sent)

(* As long as no array of its dispatcher has overflowed, the response that *)
(* a caller is given is that of the bulk request with its entry (:64-66,   *)
(* :78).                                                                   *)
NeverOverflowed(k) == Len(batch[k]) = 1

OwnRequest ==
  \A t \in Track : LET p == track[t].promise IN
    /\ NeverOverflowed(KindOf(t))
    /\ track[t].state \in {"waiting", "left"} /\ bulk[p].state /= "timer"
    => t \in Range(bulk[p].sent)

(* When all requests are answered, and none failed and no array            *)
(* overflowed, the SFU keeps open what subscribers have, or wait to see    *)
(* (PartyTracks.ts:256-266, :470-481), and besides that nothing but what   *)
(* was left while the connection was not up (:582-591) or given up after   *)
(* five seconds (:635).                                                    *)
NoLeak ==
  /\ MicrotasksDone /\ \A r \in DOMAIN bulk : bulk[r].state = "done"
  /\ \A k \in Kind : NeverOverflowed(k)
  => /\ unclosed \subseteq live
     /\ live \ unclosed =
          {Mid(t) : t \in {x \in Track : track[x].state = "found" \/ Unresolved(x)}}

-----------------------------------------------------------------------------
(***************************************************************************)
(* What comments and README say and the code does not do.                  *)
(***************************************************************************)

(* Peer.utils.ts:78 "This bulk response needs to be processed to extract   *)
(* the the result for the entry", after an overflow, too.                  *)
ResponseHasEntry ==
  \A t \in Track : LET p == track[t].promise IN
    track[t].state \in {"waiting", "left"} /\ bulk[p].state /= "timer"
      => t \in Range(bulk[p].sent)

(* README.md:276 "Remove a pushed/pulled track by calling unsubscribe()":  *)
(* not while the connection is not up, nor when its transceiver is late.   *)
LeftIsClosed ==
  (\A r \in DOMAIN bulk : bulk[r].state = "done") /\ MicrotasksDone
    => \A t \in Track : track[t].state = "gone" => Mid(t) \notin live

(* README.md:14 "Automatic Recovery": a pull is answered or fails, too     *)
(* (PartyTracks.ts:463-489).                                               *)
PullSettles == \A t \in Pulled : track[t].state = "waiting" ~> track[t].state /= "waiting"

=============================================================================
