--------------------------- MODULE ResilientTrack ---------------------------
(***************************************************************************)
(* resilientTrack$ of partytracks (packages/partytracks/src/client/        *)
(* resilientTrack$.ts) over the list of devices that deviceManager.ts puts *)
(* in order: each device is asked for a track until one is healthy.        *)
(*                                                                         *)
(* getUserMedia() and the test of a track's health cannot be cancelled:    *)
(* what comes of them finds the subscriber of another time.  A slot holds  *)
(* one call of acquireTrack() and the track that comes of it; `mine' says  *)
(* that its subscriber is the one that is open.                            *)
(*                                                                         *)
(* Left out: lists without a device, labels that are sorted by name        *)
(* ("virtual"); and activeDevice$ is subscribed to all along, so that      *)
(* devicePriority$ has what localStorage has.                              *)
(***************************************************************************)
EXTENDS Naturals, Sequences, FiniteSetsExt

CONSTANTS
  Devices,              \* devices of the kind that is asked for
  Lists,                \* what devices$ may emit: lists of some of them
  Settings,             \* see setting
  Slots,                \* bound: calls and tracks at one time
  MaxChanges,           \* bound: changes of the list and of the preference
  None                  \* no device

(* A device may be healthy always, never, or at times; it may be missing   *)
(* or in use; or the user does not allow it.                               *)
Health == {"good", "bad", "moody", "gone", "denied"}

ASSUME TrackAssumption ==
  /\ Lists \subseteq Seq(Devices) /\ <<>> \notin Lists
  /\ Settings \subseteq [managed : BOOLEAN, health : [Devices -> Health]]
  /\ IsFiniteSet(Slots)
  /\ MaxChanges \in Nat
  /\ None \notin Devices

VARIABLES
  setting,              \* managed: devicePriority$ is deviceManager's;
                        \* health: what comes of asking each device
  devices,              \* devices$
  deprioritized,        \* deprioritizedDevices
  preferred,            \* preferredDevice$
  position,             \* the device of the open subscriber, 0 without one
  tracks,               \* the slots
  overlapped,           \* history: two checks of one track at one time
  changes               \* changes so far

listVars == <<devices, deprioritized, preferred>>
trackVars == <<setting, listVars, position, tracks, overlapped, changes>>

HealthOf(device) == setting.health[device]
IsHealthy(device) ==
  CASE HealthOf(device) = "good" -> {TRUE} [] HealthOf(device) = "moody" -> BOOLEAN
    [] OTHER -> {FALSE}

Free == [phase |-> "free", device |-> None, mine |-> FALSE, checks |-> 0]
Track ==
  [phase : {"free", "asking", "testing", "on", "off"}, device : Devices \cup {None},
   mine : BOOLEAN, checks : 0 .. 2]

TrackTypeOK ==
  /\ setting \in Settings /\ devices \in Lists
  /\ deprioritized \subseteq Devices /\ preferred \in Devices \cup {None}
  /\ position \in 0 .. Len(devices)
  /\ tracks \in [Slots -> Track]
  /\ overlapped \in BOOLEAN /\ changes \in 0 .. MaxChanges

-----------------------------------------------------------------------------
(***************************************************************************)
(* The order of devices: the deprioritized last, the preferred first.      *)
(***************************************************************************)

Priority(list, low, top) ==
  LET sorted == SelectSeq(list, LAMBDA d : d \notin low)
                  \o SelectSeq(list, LAMBDA d : d \in low)
  IN  SelectSeq(sorted, LAMBDA d : d = top) \o SelectSeq(sorted, LAMBDA d : d /= top)

Order == Priority(devices, deprioritized, preferred)

(* deprioritizeDevice and setPreferredDevice: filter() keeps what matches. *)
Deprioritized(device) == {device}
NoLongerDeprioritized(device) == deprioritized \cap {device}

-----------------------------------------------------------------------------
(***************************************************************************)
(* Slots, and what becomes of them.                                        *)
(***************************************************************************)

(* A slot is left for every check that is still to end. *)
Spare(ts) == Cardinality({n \in Slots : ts[n] = Free})
Checks(ts) == MapThenSumSet(LAMBDA n : ts[n].checks, Slots)
Room(ts) == Spare(ts) > Checks(ts)

(* acquireTrack(), for the open subscriber or one that has closed *)
Asked(ts, device, mine) ==
  [ts EXCEPT ![CHOOSE n \in Slots : ts[n] = Free] =
     [phase |-> "asking", device |-> device, mine |-> mine, checks |-> 0]]

(* cleanup() of a track; checks of its health may still be to come. *)
NotCleanedUp(track) == track                                 \* mutant
CleanedUp(track) == IF track.checks = 0 THEN Free ELSE [track EXCEPT !.phase = "off"]

(* The subscriber closes: cleanup() of the tracks it was given. *)
Left(track) ==
  IF track.phase \in {"on", "off"} THEN CleanedUp([track EXCEPT !.mine = FALSE])
  ELSE [track EXCEPT !.mine = FALSE]
Closed(ts) == [n \in Slots |-> IF ts[n].mine THEN Left(ts[n]) ELSE ts[n]]

(* switchMap: the list has changed, while there is a subscriber. *)
Switched(ts, from, to) ==
  IF position = 0 \/ from = to THEN ts ELSE Asked(Closed(ts), to[1], TRUE)
SwitchedTo(from, to) == IF position = 0 \/ from = to THEN position ELSE 1

(* concat: the device's observable completes, the next is subscribed to,   *)
(* or the devices are exhausted.                                           *)
NothingNext(ts) ==                                           \* mutant
  tracks' = Closed(ts) /\ UNCHANGED position
Complete(ts) ==
  \/ /\ position < Len(Order)
     /\ tracks' = Asked(Closed(ts), Order[position + 1], TRUE)
     /\ position' = position + 1
  \/ /\ position = Len(Order)
     /\ tracks' = Closed(ts)
     /\ position' = 0

Error(ts) == tracks' = Closed(ts) /\ position' = 0

-----------------------------------------------------------------------------
(***************************************************************************)
(* Actions.                                                                *)
(***************************************************************************)

Subscribe ==
  /\ position = 0 /\ Room(tracks)
  /\ position' = 1
  /\ tracks' = Asked(tracks, Order[1], TRUE)
  /\ UNCHANGED <<setting, listVars, overlapped, changes>>

(* The last subscriber goes: share() resets. *)
Unsubscribe ==
  /\ position > 0
  /\ position' = 0
  /\ tracks' = Closed(tracks)
  /\ UNCHANGED <<setting, listVars, overlapped, changes>>

(* getUserMedia() rejects *)
Rejected(n) ==
  /\ tracks[n].phase = "asking" /\ HealthOf(tracks[n].device) \in {"gone", "denied"}
  /\ LET rest == [tracks EXCEPT ![n] = Free] IN
       \/ ~tracks[n].mine /\ tracks' = rest /\ UNCHANGED position
       \/ tracks[n].mine /\ HealthOf(tracks[n].device) = "gone" /\ Complete(rest)
       \/ tracks[n].mine /\ HealthOf(tracks[n].device) = "denied" /\ Error(rest)
  /\ UNCHANGED <<setting, listVars, overlapped, changes>>

(* It resolves with a healthy track, which is handed over, or stopped at   *)
(* once when its subscriber has closed; or with one that is not, which is  *)
(* known when the devices have been enumerated.                            *)
KeptForNobody(n) == [tracks EXCEPT ![n].phase = "on"]        \* mutant
HandedOver(n) == IF tracks[n].mine THEN [tracks EXCEPT ![n].phase = "on"]
                                   ELSE [tracks EXCEPT ![n] = Free]
Resolved(n) ==
  /\ tracks[n].phase = "asking" /\ HealthOf(tracks[n].device) \notin {"gone", "denied"}
  /\ \E healthy \in IsHealthy(tracks[n].device) :
       tracks' = IF healthy THEN HandedOver(n) ELSE [tracks EXCEPT ![n].phase = "testing"]
  /\ UNCHANGED <<setting, listVars, position, overlapped, changes>>

(* The track is not healthy: onDeviceFailure() may put the devices into    *)
(* another order, which closes the subscriber that is completed next.      *)
Unhealthy(n) ==
  /\ tracks[n].phase = "testing"
  /\ deprioritized' = IF setting.managed THEN Deprioritized(tracks[n].device) ELSE deprioritized
  /\ LET to   == Priority(devices, deprioritized', preferred)
         rest == [tracks EXCEPT ![n] = Free]
     IN  IF position > 0 /\ to /= Order
         THEN tracks' = Switched(rest, Order, to) /\ position' = 1
         ELSE \/ tracks[n].mine /\ Complete(rest)
              \/ ~tracks[n].mine /\ tracks' = rest /\ UNCHANGED position
  /\ UNCHANGED <<setting, devices, preferred, overlapped, changes>>

(* The device ends its track. *)
Ended(n) ==
  /\ tracks[n].phase = "on" /\ tracks[n].mine
  /\ Room(Closed(tracks))
  /\ Complete(tracks)
  /\ UNCHANGED <<setting, listVars, overlapped, changes>>

(* The page becomes visible: each track checks its health; what is healthy *)
(* ends the check, what is not waits for the devices to be enumerated.     *)
Visible ==
  \E found \in SUBSET {n \in Slots : tracks[n].phase = "on" /\ tracks[n].checks < 2
                                     /\ FALSE \in IsHealthy(tracks[n].device)} \ {{}} :
    /\ tracks' = [n \in Slots |-> IF n \in found THEN [tracks[n] EXCEPT !.checks = @ + 1]
                                                 ELSE tracks[n]]
    /\ Spare(tracks) >= Checks(tracks')
    /\ overlapped' = (overlapped \/ \E n \in found : tracks[n].checks > 0)
    /\ UNCHANGED <<setting, listVars, position, changes>>

(* The check of a track ends: cleanup(), and its subscriber is given       *)
(* another one, though it may have closed.                                 *)
Reacquire(n) ==
  /\ tracks[n].checks > 0
  /\ LET done == [tracks EXCEPT ![n] = CleanedUp([tracks[n] EXCEPT !.checks = @ - 1])] IN
       tracks' = Asked(done, tracks[n].device, tracks[n].mine)
  /\ UNCHANGED <<setting, listVars, position, overlapped, changes>>

(* devices$ emits: a device was plugged in or out. *)
DevicesChange ==
  /\ changes < MaxChanges /\ changes' = changes + 1
  /\ Room(Closed(tracks))
  /\ devices' \in Lists
  /\ LET to == Priority(devices', deprioritized, preferred) IN
       tracks' = Switched(tracks, Order, to) /\ position' = SwitchedTo(Order, to)
  /\ UNCHANGED <<setting, deprioritized, preferred, overlapped>>

(* setPreferredDevice(): the list may change twice. *)
SetPreferredDevice ==
  /\ setting.managed
  /\ changes < MaxChanges /\ changes' = changes + 1
  /\ \E device \in Devices :
       LET low   == NoLongerDeprioritized(device)
           first == Priority(devices, low, preferred)
           then  == Priority(devices, low, device)
           once  == Switched(tracks, Order, first)
       IN  /\ Room(Closed(tracks)) /\ Room(Closed(once))
           /\ deprioritized' = low /\ preferred' = device
           /\ tracks' = Switched(once, first, then)
           /\ position' = IF position = 0 \/ (Order = first /\ first = then) THEN position ELSE 1
  /\ UNCHANGED <<setting, devices, overlapped>>

-----------------------------------------------------------------------------

TrackInit ==
  /\ setting \in Settings
  /\ devices \in Lists /\ deprioritized = {} /\ preferred = None
  /\ position = 0
  /\ tracks = [n \in Slots |-> Free]
  /\ overlapped = FALSE /\ changes = 0

Answer(n) == Rejected(n) \/ Resolved(n) \/ Unhealthy(n) \/ Reacquire(n)
TrackStep ==
  (\E n \in Slots : Answer(n) \/ Ended(n)) \/ Visible \/ DevicesChange \/ SetPreferredDevice
TrackNext == Subscribe \/ Unsubscribe \/ TrackStep
TrackSpec == TrackInit /\ [][TrackNext]_trackVars

(* What the browser is asked for it answers. *)
TrackFairness == \A n \in Slots : WF_trackVars(Answer(n))

-----------------------------------------------------------------------------
(***************************************************************************)
(* Properties.                                                             *)
(***************************************************************************)

On == {n \in Slots : tracks[n].phase = "on"}

(* A track that is on was given to the subscriber that is open: one that   *)
(* is acquired after its subscriber went, or while the list of devices     *)
(* changed, is turned off (acquireTrack).                                  *)
NothingLeftOn == \A n \in On : tracks[n].mine /\ position > 0

(* There is one track at most, of the device that is tried, when a track   *)
(* is taken from a subscriber and another acquired for it; two checks that *)
(* overlap each acquire one (onVisibleHandler).                            *)
OneAtATime == overlapped \/ Cardinality(On) <= 1

(* resilientTrack$.ts:49 "Each device will be tried until a healthy track  *)
(* is acquired": a subscriber is given a track or an error.                *)
Settles == position > 0 ~> position = 0 \/ On /= {}

(* This holds when the order of the devices does not depend on failures.   *)
SettlesInOrder == position > 0 /\ ~setting.managed ~> position = 0 \/ On /= {}
=============================================================================
