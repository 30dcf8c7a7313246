-------------------------- MODULE MediaTracks_proofs --------------------------
(***************************************************************************)
(* Proofs about where a track comes from and what is sent of it:           *)
(* ResilientTrack, for any devices, lists, bounds and health, and          *)
(* BroadcastTrack, for any tracks and options.                             *)
(***************************************************************************)
EXTENDS ResilientTrack, BroadcastTrack, FiniteSetTheorems, TLAPS

-----------------------------------------------------------------------------
(***************************************************************************)
(* ResilientTrack: a track is on only for the subscriber that is open, and *)
(* there is one at most.                                                   *)
(*                                                                         *)
(* Both are about who a slot belongs to, so the devices' order, which      *)
(* slots are free and how many there are do not matter: a slot that is     *)
(* asked for begins anew, and all others have been left before.            *)
(***************************************************************************)

(* A slot is a record; nothing is said of its device. *)
Slot(t) ==
  /\ DOMAIN t = {"phase", "device", "mine", "checks"}
  /\ t.mine \in BOOLEAN /\ t.checks \in Nat
SlotsOK(ts) == ts = [n \in Slots |-> ts[n]] /\ \A n \in Slots : Slot(ts[n])

(* What is on belongs to the open subscriber. *)
Kept(ts, at) == \A n \in Slots : /\ ts[n].phase = "on" => ts[n].mine
                                 /\ ts[n].mine => at > 0

(* As long as no two checks overlapped, the subscriber has one slot. *)
Single(ts, over) ==
  ~over => /\ \A n \in Slots : ts[n].checks <= 1
           /\ \A m, n \in Slots : ts[m].mine /\ ts[n].mine => m = n

Good(ts, at, over) == SlotsOK(ts) /\ at \in Nat /\ Kept(ts, at) /\ Single(ts, over)
Nobodys(ts) == \A n \in Slots : ~ts[n].mine

IInv == Good(tracks, position, overlapped) /\ overlapped \in BOOLEAN

-----------------------------------------------------------------------------

(* A slot that is set free leaves the others as they are. *)
LEMMA FreeIsGood ==
  ASSUME NEW ts, NEW at, NEW over, Good(ts, at, over), NEW n \in Slots
  PROVE  Good([ts EXCEPT ![n] = Free], at, over) /\ ~[ts EXCEPT ![n] = Free][n].mine
<1>. DEFINE new == [ts EXCEPT ![n] = Free]
<1>1. Slot(Free) /\ ~Free.mine /\ Free.phase = "free" /\ Free.checks = 0
  BY DEF Free, Slot
<1>2. SlotsOK(ts) /\ new = [m \in Slots |-> IF m = n THEN Free ELSE ts[m]]
  BY DEF Good, SlotsOK
<1>. HIDE DEF new
<1>3. SlotsOK(new)
  BY <1>1, <1>2 DEF SlotsOK
<1>4. Kept(new, at)
  BY <1>1, <1>2 DEF Good, Kept
<1>5. Single(new, over)
  BY <1>1, <1>2 DEF Good, Single
<1>6. Good(new, at, over) /\ ~new[n].mine
  BY <1>1, <1>2, <1>3, <1>4, <1>5 DEF Good
<1>. QED  BY <1>6 DEF new

(* A slot whose subscriber closes is nobody's, and else as it was. *)
LEMMA LeftAlone ==
  ASSUME NEW t, Slot(t)
  PROVE  LET left == [t EXCEPT !.mine = FALSE]
         IN  Slot(left) /\ left.phase = t.phase /\ ~left.mine /\ left.checks = t.checks
BY DEF Slot

(* cleanup() sets free or turns off, and keeps the checks. *)
LEMMA CleanedUpOff ==
  ASSUME NEW t, Slot(t)
  PROVE  /\ Slot(CleanedUp(t)) /\ CleanedUp(t).checks = t.checks
         /\ CleanedUp(t).phase /= "on" /\ (CleanedUp(t).mine => t.mine)
         /\ t.checks = 0 => ~CleanedUp(t).mine
BY DEF Slot, CleanedUp, Free

(* When a subscriber has closed, nothing is anybody's and nothing is on. *)
LEMMA ClosedIsGood ==
  ASSUME NEW ts, NEW at, NEW over, Good(ts, at, over), NEW to \in Nat
  PROVE  Good(Closed(ts), to, over) /\ Nobodys(Closed(ts))
<1>1. ASSUME NEW n \in Slots
      PROVE  /\ Slot(Closed(ts)[n]) /\ ~Closed(ts)[n].mine
             /\ Closed(ts)[n].phase /= "on" /\ Closed(ts)[n].checks = ts[n].checks
  <2>1. Slot(ts[n]) /\ (ts[n].phase = "on" => ts[n].mine)
    BY DEF Good, SlotsOK, Kept
  <2>2. CASE ~ts[n].mine
    BY <2>1, <2>2 DEF Closed
  <2>3. CASE ts[n].mine
    <3>. DEFINE left == [ts[n] EXCEPT !.mine = FALSE]
    <3>1. Slot(left) /\ left.phase = ts[n].phase /\ ~left.mine /\ left.checks = ts[n].checks
      BY <2>1, LeftAlone
    <3>2. Closed(ts)[n] = IF ts[n].phase \in {"on", "off"} THEN CleanedUp(left) ELSE left
      BY <2>3 DEF Closed, Left
    <3>. HIDE DEF left
    <3>3. /\ Slot(CleanedUp(left)) /\ CleanedUp(left).checks = left.checks
          /\ CleanedUp(left).phase /= "on" /\ (CleanedUp(left).mine => left.mine)
      BY <3>1, CleanedUpOff
    <3>. QED  BY <3>1, <3>2, <3>3
  <2>. QED  BY <2>1, <2>2, <2>3 DEF Slot
<1>2. Closed(ts) = [n \in Slots |-> Closed(ts)[n]]
  BY DEF Closed
<1>. QED  BY <1>1, <1>2 DEF Good, SlotsOK, Kept, Single, Nobodys

(* acquireTrack() changes one slot, which begins anew. *)
Begun(ts, us, mine) ==
  \E k : \A n \in Slots :
    \/ us[n] = ts[n]
    \/ n = k /\ us[n].phase = "asking" /\ (us[n].mine <=> mine) /\ us[n].checks = 0

LEMMA AskedIsOne ==
  ASSUME NEW ts, SlotsOK(ts), NEW device, NEW mine \in BOOLEAN
  PROVE  SlotsOK(Asked(ts, device, mine)) /\ Begun(ts, Asked(ts, device, mine), mine)
<1>. DEFINE k == CHOOSE n \in Slots : ts[n] = Free
            new == [phase |-> "asking", device |-> device, mine |-> mine, checks |-> 0]
            us == [ts EXCEPT ![k] = new]
<1>1. Asked(ts, device, mine) = us
  BY DEF Asked
<1>2. Slot(new) /\ new.phase = "asking" /\ (new.mine <=> mine) /\ new.checks = 0
  BY DEF Slot
<1>. HIDE DEF k, new
<1>3. us = [n \in Slots |-> IF n = k THEN new ELSE ts[n]]
  BY DEF SlotsOK
<1>. HIDE DEF us
<1>4. SlotsOK(us)
  BY <1>2, <1>3 DEF SlotsOK
<1>5. \A n \in Slots :
        \/ us[n] = ts[n]
        \/ n = k /\ us[n].phase = "asking" /\ (us[n].mine <=> mine) /\ us[n].checks = 0
  BY <1>2, <1>3
<1>6. Begun(ts, us, mine)
  BY <1>5 DEF Begun
<1>. QED  BY <1>1, <1>4, <1>6

(* So it is good for the open subscriber when nothing was its own, and for *)
(* nobody at any time.                                                     *)
LEMMA AskedIsGood ==
  ASSUME NEW ts, NEW at, NEW over, Good(ts, at, over), NEW device, NEW mine \in BOOLEAN,
         mine => at > 0, mine /\ ~over => Nobodys(ts)
  PROVE  Good(Asked(ts, device, mine), at, over)
<1>. DEFINE us == Asked(ts, device, mine)
<1>1. SlotsOK(us) /\ Begun(ts, us, mine)
  BY AskedIsOne DEF Good
<1>. HIDE DEF us
<1>2. PICK k : \A n \in Slots :
         \/ us[n] = ts[n]
         \/ n = k /\ us[n].phase = "asking" /\ (us[n].mine <=> mine) /\ us[n].checks = 0
  BY <1>1 DEF Begun
<1>3. Kept(us, at)
  BY <1>2 DEF Good, Kept
<1>4. Single(us, over)
  BY <1>2 DEF Good, Single, Nobodys
<1>5. Good(us, at, over)
  BY <1>1, <1>3, <1>4 DEF Good
<1>. QED  BY <1>5 DEF us

(* A new subscriber after one that has closed. *)
LEMMA NextIsGood ==
  ASSUME NEW ts, NEW at, NEW over, Good(ts, at, over), NEW device, NEW to \in Nat, to > 0
  PROVE  Good(Asked(Closed(ts), device, TRUE), to, over)
BY ClosedIsGood, AskedIsGood

(* concat and error *)
LEMMA CompleteIsGood ==
  ASSUME NEW ts, Good(ts, position, overlapped), Complete(ts) \/ Error(ts)
  PROVE  Good(tracks', position', overlapped)
<1>. position \in Nat
  BY DEF Good
<1>1. CASE position' = position + 1 /\ tracks' = Asked(Closed(ts), Order[position + 1], TRUE)
  <2>1. position + 1 \in Nat /\ position + 1 > 0
    OBVIOUS
  <2>. QED  BY <1>1, <2>1, NextIsGood
<1>2. CASE position' = 0 /\ tracks' = Closed(ts)
  BY <1>2, ClosedIsGood
<1>. QED  BY <1>1, <1>2 DEF Complete, Error

(* switchMap *)
LEMMA SwitchedIsGood ==
  ASSUME NEW ts, NEW at \in Nat, NEW from, NEW to, Good(ts, at, overlapped),
         position = 0 => at = 0, NEW next \in Nat,
         next = IF position = 0 \/ from = to THEN at ELSE 1
  PROVE  Good(Switched(ts, from, to), next, overlapped)
<1>1. CASE position = 0 \/ from = to
  BY <1>1 DEF Switched
<1>2. CASE ~(position = 0 \/ from = to)
  <2>1. next = 1 /\ next > 0 /\ Switched(ts, from, to) = Asked(Closed(ts), to[1], TRUE)
    BY <1>2 DEF Switched
  <2>. QED  BY <2>1, NextIsGood
<1>. QED  BY <1>1, <1>2
-----------------------------------------------------------------------------

LEMMA InitInv == TrackInit => IInv
<1>. SUFFICES ASSUME TrackInit PROVE IInv
  OBVIOUS
<1>1. Slot(Free) /\ ~Free.mine /\ Free.phase = "free" /\ Free.checks = 0
  BY DEF Free, Slot
<1>2. tracks = [n \in Slots |-> Free] /\ position = 0 /\ overlapped = FALSE
  BY DEF TrackInit
<1>3. SlotsOK(tracks) /\ Kept(tracks, position)
  BY <1>1, <1>2 DEF SlotsOK, Kept
<1>4. Single(tracks, overlapped)
  BY <1>1, <1>2 DEF Single
<1>. QED  BY <1>2, <1>3, <1>4 DEF IInv, Good

(* The program subscribes and unsubscribes. *)
LEMMA SubscriberKeeps ==
  ASSUME IInv, Subscribe \/ Unsubscribe
  PROVE  IInv'
<1>1. CASE Subscribe
  <2>1. position = 0 /\ position' = 1 /\ overlapped' = overlapped
    BY <1>1 DEF Subscribe
  <2>2. Nobodys(tracks)
    BY <2>1 DEF IInv, Good, Kept, Nobodys
  <2>3. Good(tracks, 1, overlapped)
    BY <2>2 DEF IInv, Good, Kept, Nobodys
  <2>4. Good(tracks', 1, overlapped)
    <3>1. tracks' = Asked(tracks, Order[1], TRUE)
      BY <1>1 DEF Subscribe
    <3>2. Good(Asked(tracks, Order[1], TRUE), 1, overlapped)
      <4>1. TRUE \in BOOLEAN /\ (TRUE => 1 > 0)
        OBVIOUS
      <4>. QED  BY <2>2, <2>3, <4>1, AskedIsGood
    <3>. QED  BY <3>1, <3>2
  <2>. QED  BY <2>1, <2>4 DEF IInv
<1>2. CASE Unsubscribe
  <2>1. position' = 0 /\ tracks' = Closed(tracks) /\ overlapped' = overlapped
    BY <1>2 DEF Unsubscribe
  <2>2. Good(tracks', 0, overlapped)
    BY <2>1, ClosedIsGood DEF IInv
  <2>. QED  BY <2>1, <2>2 DEF IInv
<1>. QED  BY <1>1, <1>2

(* What getUserMedia() and the test of health answer. *)
LEMMA AnswerKeeps ==
  ASSUME IInv, NEW n \in Slots, Rejected(n) \/ Resolved(n) \/ Unhealthy(n) \/ Ended(n)
  PROVE  IInv'
<1>. DEFINE rest == [tracks EXCEPT ![n] = Free]
<1>1. Good(rest, position, overlapped) /\ position \in Nat /\ Good(tracks, position, overlapped)
  BY FreeIsGood DEF IInv, Good
<1>2. CASE Rejected(n)
  <2>1. overlapped' = overlapped
        /\ \/ tracks' = rest /\ position' = position
           \/ Complete(rest)
           \/ Error(rest)
    BY <1>2 DEF Rejected
  <2>. HIDE DEF rest
  <2>2. Good(tracks', position', overlapped)
    BY <1>1, <2>1, CompleteIsGood
  <2>. QED  BY <2>1, <2>2 DEF IInv
<1>3. CASE Resolved(n)
  <2>1. overlapped' = overlapped /\ position' = position
    BY <1>3 DEF Resolved
  <2>2. \/ tracks' = rest
        \/ tracks' = [tracks EXCEPT ![n].phase = "testing"]
        \/ tracks[n].mine /\ tracks' = [tracks EXCEPT ![n].phase = "on"]
    BY <1>3 DEF Resolved, HandedOver
  <2>3. ASSUME NEW ph, ph = "testing" \/ (ph = "on" /\ tracks[n].mine),
               tracks' = [tracks EXCEPT ![n].phase = ph]
        PROVE  Good(tracks', position, overlapped)
    <3>1. tracks' = [m \in Slots |-> IF m = n THEN [tracks[n] EXCEPT !.phase = ph] ELSE tracks[m]]
      BY <1>1, <2>3 DEF Good, SlotsOK
    <3>2. LET t == [tracks[n] EXCEPT !.phase = ph]
          IN  /\ Slot(t) /\ t.phase = ph
              /\ (t.mine <=> tracks[n].mine) /\ t.checks = tracks[n].checks
      BY <1>1 DEF Good, SlotsOK, Slot
    <3>3. SlotsOK(tracks')
      BY <1>1, <3>1, <3>2 DEF Good, SlotsOK
    <3>4. Kept(tracks', position)
      BY <1>1, <2>3, <3>1, <3>2 DEF Good, Kept
    <3>5. Single(tracks', overlapped)
      BY <1>1, <3>1, <3>2 DEF Good, Single
    <3>. QED  BY <1>1, <3>3, <3>4, <3>5 DEF Good
  <2>4. Good(tracks', position, overlapped)
    BY <1>1, <2>2, <2>3
  <2>. QED  BY <2>1, <2>4 DEF IInv
<1>4. CASE Unhealthy(n)
  <2>. DEFINE to == Priority(devices, deprioritized', preferred)
  <2>1. /\ overlapped' = overlapped
        /\ \/ position > 0 /\ to /= Order /\ tracks' = Switched(rest, Order, to) /\ position' = 1
           \/ Complete(rest)
           \/ tracks' = rest /\ position' = position
    BY <1>4 DEF Unhealthy
  <2>. HIDE DEF rest, to
  <2>2. ASSUME position > 0, to /= Order, tracks' = Switched(rest, Order, to), position' = 1
        PROVE  Good(tracks', position', overlapped)
    <3>1. position /= 0 /\ Order /= to /\ 1 \in Nat /\ 1 > 0
      BY <1>1, <2>2
    <3>2. tracks' = Asked(Closed(rest), to[1], TRUE)
      BY <2>2, <3>1 DEF Switched
    <3>3. Good(Asked(Closed(rest), to[1], TRUE), 1, overlapped)
      BY <1>1, <3>1, NextIsGood
    <3>. QED  BY <2>2, <3>2, <3>3
  <2>3. Good(tracks', position', overlapped)
    BY <1>1, <2>1, <2>2, CompleteIsGood
  <2>. QED  BY <2>1, <2>3 DEF IInv
<1>5. CASE Ended(n)
  <2>1. Complete(tracks) /\ overlapped' = overlapped
    BY <1>5 DEF Ended
  <2>. QED  BY <1>1, <2>1, CompleteIsGood DEF IInv
<1>. QED  BY <1>2, <1>3, <1>4, <1>5

(* A check begins when the page becomes visible, *)
LEMMA VisibleKeeps ==
  ASSUME IInv, Visible
  PROVE  IInv'
<1>1. PICK found \in SUBSET Slots :
        /\ \A n \in found : tracks[n].phase = "on"
        /\ tracks' = [n \in Slots |-> IF n \in found THEN [tracks[n] EXCEPT !.checks = @ + 1]
                                                     ELSE tracks[n]]
        /\ overlapped' = (overlapped \/ \E n \in found : tracks[n].checks > 0)
        /\ position' = position
  BY DEF Visible
<1>2. Good(tracks, position, overlapped)
  BY DEF IInv
<1>3. ASSUME NEW n \in Slots
      PROVE  /\ Slot(tracks'[n]) /\ tracks'[n].phase = tracks[n].phase
             /\ tracks'[n].mine <=> tracks[n].mine
             /\ tracks'[n].checks = IF n \in found THEN tracks[n].checks + 1 ELSE tracks[n].checks
  BY <1>1, <1>2 DEF Good, SlotsOK, Slot
<1>4. SlotsOK(tracks')
  BY <1>1, <1>3 DEF SlotsOK
<1>5. Kept(tracks', position')
  BY <1>1, <1>2, <1>3 DEF Good, Kept
<1>6. Single(tracks', overlapped')
  <2>. SUFFICES ASSUME ~overlapped' PROVE Single(tracks', FALSE)
    BY DEF Single
  <2>1. ~overlapped /\ \A n \in found : ~(tracks[n].checks > 0)
    BY <1>1
  <2>2. \A n \in Slots : tracks[n].checks \in Nat /\ tracks[n].checks <= 1
    BY <1>2, <2>1 DEF Good, Single, SlotsOK, Slot
  <2>3. \A n \in Slots : tracks'[n].checks <= 1
    BY <1>3, <2>1, <2>2
  <2>4. \A m, n \in Slots : tracks'[m].mine /\ tracks'[n].mine => m = n
    BY <1>2, <1>3, <2>1 DEF Good, Single
  <2>. QED  BY <2>3, <2>4 DEF Single
<1>7. overlapped' \in BOOLEAN
  BY <1>1
<1>. QED  BY <1>1, <1>2, <1>4, <1>5, <1>6, <1>7 DEF IInv, Good

(* and ends with a track that takes the place of the one it was of: unless *)
(* another check is still under way, that one is not its subscriber's any  *)
(* more.                                                                   *)
LEMMA ReacquireKeeps ==
  ASSUME IInv, NEW n \in Slots, Reacquire(n)
  PROVE  IInv'
<1>. DEFINE checked == [tracks[n] EXCEPT !.checks = @ - 1]
            done == [tracks EXCEPT ![n] = CleanedUp(checked)]
<1>1. Good(tracks, position, overlapped) /\ tracks[n].checks > 0
  BY DEF IInv, Reacquire
<1>2. /\ tracks' = Asked(done, tracks[n].device, tracks[n].mine)
      /\ position' = position /\ overlapped' = overlapped
  BY DEF Reacquire
<1>3. /\ Slot(checked) /\ (checked.mine <=> tracks[n].mine)
      /\ checked.checks = tracks[n].checks - 1
  BY <1>1 DEF Good, SlotsOK, Slot
<1>. HIDE DEF checked
<1>4. /\ Slot(CleanedUp(checked)) /\ CleanedUp(checked).checks = checked.checks
      /\ CleanedUp(checked).phase /= "on" /\ (CleanedUp(checked).mine => tracks[n].mine)
      /\ checked.checks = 0 => ~CleanedUp(checked).mine
  BY <1>3, CleanedUpOff
<1>5. done = [m \in Slots |-> IF m = n THEN CleanedUp(checked) ELSE tracks[m]]
  BY <1>1 DEF Good, SlotsOK
<1>. HIDE DEF done
<1>6. Good(done, position, overlapped)
  <2>1. SlotsOK(done)
    BY <1>1, <1>4, <1>5 DEF Good, SlotsOK
  <2>2. Kept(done, position)
    BY <1>1, <1>4, <1>5 DEF Good, Kept
  <2>3. Single(done, overlapped)
    BY <1>1, <1>3, <1>4, <1>5 DEF Good, Single, SlotsOK, Slot
  <2>. QED  BY <1>1, <2>1, <2>2, <2>3 DEF Good
<1>7. tracks[n].mine /\ ~overlapped => Nobodys(done)
  <2>. SUFFICES ASSUME tracks[n].mine, ~overlapped PROVE Nobodys(done)
    OBVIOUS
  <2>1. checked.checks = 0
    BY <1>1, <1>3 DEF Good, Single, SlotsOK, Slot
  <2>. QED  BY <1>1, <1>4, <1>5, <2>1 DEF Good, Single, Nobodys
<1>8. tracks[n].mine \in BOOLEAN /\ (tracks[n].mine => position > 0)
  BY <1>1 DEF Good, SlotsOK, Slot, Kept
<1>9. Good(tracks', position, overlapped)
  BY <1>2, <1>6, <1>7, <1>8, AskedIsGood
<1>. QED  BY <1>2, <1>9 DEF IInv

(* The list of devices changes, once or twice in a step. *)
LEMMA ChangeKeeps ==
  ASSUME IInv, DevicesChange \/ SetPreferredDevice
  PROVE  IInv'
<1>1. Good(tracks, position, overlapped) /\ position \in Nat
  BY DEF IInv, Good
<1>2. CASE DevicesChange
  <2>1. PICK to : /\ tracks' = Switched(tracks, Order, to) /\ position' = SwitchedTo(Order, to)
                  /\ overlapped' = overlapped
    BY <1>2 DEF DevicesChange
  <2>2. position' \in Nat /\ position' = IF position = 0 \/ Order = to THEN position ELSE 1
    BY <1>1, <2>1 DEF SwitchedTo
  <2>3. Good(tracks', position', overlapped)
    BY <1>1, <2>1, <2>2, SwitchedIsGood
  <2>. QED  BY <2>1, <2>3 DEF IInv
<1>3. CASE SetPreferredDevice
  <2>1. PICK first, then :
          /\ tracks' = Switched(Switched(tracks, Order, first), first, then)
          /\ position' = IF position = 0 \/ (Order = first /\ first = then) THEN position ELSE 1
          /\ overlapped' = overlapped
    BY <1>3 DEF SetPreferredDevice
  <2>. DEFINE once == Switched(tracks, Order, first)
              at == IF position = 0 \/ Order = first THEN position ELSE 1
  <2>2. at \in Nat /\ (position = 0 => at = 0)
    BY <1>1
  <2>3. Good(once, at, overlapped)
    BY <1>1, <2>2, SwitchedIsGood
  <2>4. position' \in Nat /\ position' = IF position = 0 \/ first = then THEN at ELSE 1
    BY <1>1, <2>1
  <2>. HIDE DEF at, once
  <2>5. Good(Switched(once, first, then), position', overlapped)
    BY <2>2, <2>3, <2>4, SwitchedIsGood
  <2>. QED  BY <2>1, <2>5 DEF IInv, once
<1>. QED  BY <1>2, <1>3

(* The inductive invariant, for any devices, lists, health and bounds. *)
LEMMA Invariance == TrackSpec => []IInv
<1>1. IInv /\ [TrackNext]_trackVars => IInv'
  <2>. SUFFICES ASSUME IInv, [TrackNext]_trackVars PROVE IInv'
    OBVIOUS
  <2>1. CASE Subscribe \/ Unsubscribe
    BY <2>1, SubscriberKeeps
  <2>2. ASSUME NEW n \in Slots, Answer(n) \/ Ended(n) PROVE IInv'
    BY <2>2, AnswerKeeps, ReacquireKeeps DEF Answer
  <2>3. CASE Visible
    BY <2>3, VisibleKeeps
  <2>4. CASE DevicesChange \/ SetPreferredDevice
    BY <2>4, ChangeKeeps
  <2>5. CASE UNCHANGED trackVars
    BY <2>5 DEF trackVars, IInv, Good, SlotsOK, Kept, Single
  <2>. QED  BY <2>1, <2>2, <2>3, <2>4, <2>5 DEF TrackNext, TrackStep
<1>. QED  BY <1>1, InitInv, PTL DEF TrackSpec

-----------------------------------------------------------------------------

(* Whenever getUserMedia() and the tests of health answer, whoever has     *)
(* gone by then: a track that is on is the open subscriber's               *)
(* (acquireTrack's cleanup).                                               *)
THEOREM NoTrackIsLeftOn == TrackSpec => []NothingLeftOn
<1>1. IInv => NothingLeftOn
  BY DEF IInv, Good, Kept, NothingLeftOn, On
<1>. QED  BY <1>1, Invariance, PTL

(* As long as no two checks of one track overlap, a subscriber has one     *)
(* track at most, however devices fail, end and change                     *)
(* (resilientTrack$'s concat and switchMap).                               *)
THEOREM OneTrackAtATime == TrackSpec => []OneAtATime
<1>1. IInv => OneAtATime
  <2>. SUFFICES ASSUME IInv, ~overlapped PROVE Cardinality(On) <= 1
    BY DEF OneAtATime
  <2>1. \A m, n \in On : m = n
    BY DEF IInv, Good, Kept, Single, On
  <2>2. CASE On = {}
    BY <2>2, FS_EmptySet
  <2>3. CASE On /= {}
    <3>1. PICK n : On = {n}
      BY <2>1, <2>3
    <3>2. Cardinality({n}) = 1
      BY FS_Singleton
    <3>. QED  BY <3>1, <3>2
  <2>. QED  BY <2>2, <2>3
<1>. QED  BY <1>1, Invariance, PTL

-----------------------------------------------------------------------------
(***************************************************************************)
(* BroadcastTrack: what is sent was started, isBroadcasting$ tells it, and *)
(* the source is kept no longer than it is wanted.                         *)
(***************************************************************************)
Flags == [enabled : BOOLEAN, should : [Kinds -> BOOLEAN]]

(* Every function of the API leaves flags that are flags. *)
LEMMA FlagsType ==
  ASSUME TypeOK
  PROVE  /\ Tracks \subseteq Kinds
         /\ Enabled \in Flags /\ ScreenDisabled \in Flags
         /\ \A ks \in SUBSET Tracks : Started(ks) \in Flags /\ Stopped(ks) \in Flags
         /\ \A k \in Tracks : Disabled(k) \in Flags
<1>1. flags \in Flags /\ Tracks \subseteq Kinds
  BY BroadcastAssumption DEF TypeOK, Flags, Tracks
<1>2. \A ks \in SUBSET Tracks : Started(ks) \in Flags /\ Stopped(ks) \in Flags
  BY <1>1 DEF Started, Stopped, Flags
<1>3. Enabled \in Flags BY <1>1 DEF Enabled, Flags
<1>4. ScreenDisabled \in Flags BY <1>2 DEF ScreenDisabled, Flags
<1>5. ASSUME NEW k \in Tracks PROVE Disabled(k) \in Flags
  <2>1. Stopped({k}) \in Flags BY <1>2, <1>5
  <2>2. QED BY <1>1, <2>1 DEF Disabled, Flags
<1>6. QED BY <1>1, <1>2, <1>3, <1>4, <1>5

(* Every step lets the pipes emit, or changes nothing; what it does to the *)
(* flags, the subscribers and the source is of the right types.            *)
LEMMA StepEffect ==
  ASSUME TypeOK, Next
  PROVE  /\ Emit
         /\ flags' \in Flags
         /\ pushing' \in SUBSET Tracks /\ monitoring' \in SUBSET Tracks
         /\ source' \in {"idle", "asked", "given"}
         /\ meant' \in SUBSET Tracks
<1> DEFINE Effect == /\ Emit
                     /\ flags' \in Flags
                     /\ pushing' \in SUBSET Tracks /\ monitoring' \in SUBSET Tracks
                     /\ source' \in {"idle", "asked", "given"}
<1> USE DEF Flags
<1>1. /\ flags \in Flags /\ pushing \in SUBSET Tracks /\ monitoring \in SUBSET Tracks
      /\ source \in {"idle", "asked", "given"} /\ meant \in SUBSET Tracks
  BY DEF TypeOK
<1>2. \A f, ps, ms : SourceFor(f, ps, ms) \in {"idle", "asked", "given"}
  BY <1>1 DEF SourceFor
<1>3. ASSUME NEW f \in Flags, Set(f) PROVE Effect
  BY <1>1, <1>2, <1>3 DEF Set
<1>4. ASSUME NEW ks \in SUBSET Tracks, Start(ks) \/ Stop(ks)
      PROVE  Effect /\ meant' \in SUBSET Tracks
  BY <1>1, <1>3, <1>4, FlagsType DEF Start, Stop
<1>5. ASSUME NEW ps \in SUBSET Tracks, NEW ms \in SUBSET Tracks, Observe(ps, ms)
      PROVE  Effect /\ meant' \in SUBSET Tracks
  BY <1>1, <1>2, <1>5 DEF Observe
<1>6. ASSUME EnableSource PROVE Effect /\ meant' \in SUBSET Tracks
  BY <1>1, <1>3, <1>6, FlagsType DEF EnableSource
<1>7. ASSUME DisableSource PROVE Effect /\ meant' \in SUBSET Tracks
  BY <1>1, <1>3, <1>7, FlagsType DEF DisableSource
<1>8. CASE Give
  BY <1>1, <1>8 DEF Give
<1>9. ASSUME NEW k \in Tracks, Over(k) PROVE Effect /\ meant' \in SUBSET Tracks
  BY <1>1, <1>9, FlagsType DEF Over
<1>10. ASSUME NEW k \in Tracks,
              \/ StartBroadcasting(k) \/ StopBroadcasting(k) \/ ToggleBroadcasting(k)
              \/ Push(k) \/ Unpush(k) \/ Monitor(k) \/ Unmonitor(k)
       PROVE  Effect /\ meant' \in SUBSET Tracks
  <2>1. CASE Start({k}) \/ Stop({k})
    BY <1>4, <2>1
  <2>2. CASE Push(k) \/ Unpush(k) \/ Monitor(k) \/ Unmonitor(k)
    <3>1. /\ pushing \cup {k} \in SUBSET Tracks /\ pushing \ {k} \in SUBSET Tracks
          /\ monitoring \cup {k} \in SUBSET Tracks /\ monitoring \ {k} \in SUBSET Tracks
      BY <1>1
    <3>2. QED BY <1>1, <1>5, <2>2, <3>1 DEF Push, Unpush, Monitor, Unmonitor
  <2>3. QED
    BY <1>10, <2>1, <2>2 DEF StartBroadcasting, StopBroadcasting, ToggleBroadcasting
<1>11. CASE StartBroadcastingScreen \/ StopBroadcastingScreen \/ ToggleBroadcastingScreen
  BY <1>4, <1>11
     DEF StartBroadcastingScreen, StopBroadcastingScreen, ToggleBroadcastingScreen
<1>12. CASE EnableSource \/ DisableSource \/ ToggleIsSourceEnabled
  BY <1>6, <1>7, <1>12 DEF ToggleIsSourceEnabled
<1>13. QED
  BY <1>8, <1>9, <1>10, <1>11, <1>12 DEF Next, ByTheProgram

(* The types are kept. *)
LEMMA TypeStep == TypeOK /\ [Next]_vars => TypeOK'
<1>1. ASSUME TypeOK, Next PROVE TypeOK'
  <2>1. /\ Emit /\ flags' \in Flags /\ pushing' \in SUBSET Tracks
        /\ monitoring' \in SUBSET Tracks /\ source' \in {"idle", "asked", "given"}
        /\ meant' \in SUBSET Tracks
    BY <1>1, StepEffect
  <2>2. UNCHANGED options /\ Tracks' = Tracks
    BY <2>1 DEF Emit, Tracks
  <2>3. shown' = [k \in Kinds |-> ShownFor(k)]
    BY <2>1 DEF Emit
  <2>4. ASSUME NEW k \in Kinds PROVE ShownFor(k) \in {"none", "fallback", "content"}
    <3>1. shown[k] \in {"none", "fallback", "content"}
      BY <1>1 DEF TypeOK
    <3>2. QED BY <3>1 DEF ShownFor
  <2>5. shown' \in [Kinds -> {"none", "fallback", "content"}]
    BY <2>3, <2>4
  <2>6. isBroadcasting' \in SUBSET Tracks /\ heard' \in SUBSET Tracks
    BY <2>1 DEF Emit
  <2>7. QED BY <1>1, <2>1, <2>2, <2>5, <2>6 DEF TypeOK, Flags
<1>2. ASSUME TypeOK, UNCHANGED vars PROVE TypeOK'
  BY <1>2 DEF TypeOK, vars, Tracks
<1>3. QED BY <1>1, <1>2

(* Every reachable state is well typed. *)
THEOREM TypeCorrect == Spec => []TypeOK
<1>1. Init => TypeOK
  <2> SUFFICES ASSUME Init PROVE TypeOK
    OBVIOUS
  <2>1. options.active \in BOOLEAN /\ options.broadcasting \in BOOLEAN
    BY BroadcastAssumption DEF Init
  <2>2. flags \in [enabled : BOOLEAN, should : [Kinds -> BOOLEAN]]
    BY <2>1 DEF Init
  <2>3. QED BY <2>2 DEF Init, TypeOK, Tracks
<1>2. QED BY <1>1, TypeStep, PTL DEF Spec

-----------------------------------------------------------------------------
(***************************************************************************)
(* isBroadcasting$.  What broadcastTrack$ emitted last, and the flag that  *)
(* goes with it, change together or not at all.                            *)
(***************************************************************************)

SaysInv ==
  /\ \A k \in Kinds : k \notin pushing => shown[k] = "none"
  /\ \A k \in pushing : shown[k] /= "none" => (k \in isBroadcasting <=> shown[k] = "content")

LEMMA SaysStep == TypeOK /\ SaysInv /\ [Next]_vars => SaysInv'
<1>1. ASSUME TypeOK, SaysInv, Next PROVE SaysInv'
  <2>1. Emit /\ pushing' \in SUBSET Tracks /\ Tracks \subseteq Kinds
        /\ flags' \in Flags
    BY <1>1, StepEffect, FlagsType
  <2>2. shown' = [k \in Kinds |-> ShownFor(k)]
        /\ isBroadcasting' = {k \in Tracks : IsBroadcastingFor(k)}
    BY <2>1 DEF Emit
  <2>3. ASSUME NEW k \in Kinds, k \notin pushing' PROVE shown'[k] = "none"
    BY <2>2, <2>3 DEF ShownFor
  <2>4. ASSUME NEW k \in pushing', shown'[k] /= "none"
        PROVE  k \in isBroadcasting' <=> shown'[k] = "content"
    <3>1. k \in Tracks /\ k \in Kinds BY <2>1
    <3>2. shown'[k] = ShownFor(k) /\ (k \in isBroadcasting' <=> IsBroadcastingFor(k))
      BY <2>2, <3>1
    <3>3. CASE ~Sending(flags', k)
      <4>1. ShownFor(k) = "fallback" BY <3>3 DEF ShownFor
      <4>2. ~IsBroadcastingFor(k) BY <3>3 DEF IsBroadcastingFor
      <4>3. QED BY <3>2, <4>1, <4>2
    <3>4. CASE Sending(flags', k) /\ source' = "given"
      <4>1. ShownFor(k) = "content" BY <3>4 DEF ShownFor
      <4>2. IsBroadcastingFor(k) BY <3>4 DEF IsBroadcastingFor
      <4>3. QED BY <3>2, <4>1, <4>2
    <3>5. CASE Sending(flags', k) /\ source' /= "given"
      <4>1. ShownFor(k) = shown[k] BY <3>5 DEF ShownFor
      <4>2. IsBroadcastingFor(k) <=> k \in isBroadcasting BY <3>5 DEF IsBroadcastingFor
      <4>3. k \in pushing BY <1>1, <2>4, <3>1, <3>2, <4>1 DEF SaysInv
      <4>4. QED BY <1>1, <2>4, <3>2, <4>1, <4>2, <4>3 DEF SaysInv
    <3>6. QED BY <3>3, <3>4, <3>5
  <2>5. QED BY <2>3, <2>4 DEF SaysInv
<1>2. ASSUME SaysInv, UNCHANGED vars PROVE SaysInv'
  BY <1>2 DEF SaysInv, vars
<1>3. QED BY <1>1, <1>2

(* As soon as something is sent, isBroadcasting$ tells whether it is the   *)
(* content, for any order of subscribers, flags and answers.               *)
THEOREM SaysTheTruth == Spec => []SaysWhatItSends
<1>1. Init => SaysInv
  BY DEF Init, SaysInv
<1>2. SaysInv => SaysWhatItSends
  BY DEF SaysInv, SaysWhatItSends, Sent
<1>3. QED BY <1>1, <1>2, TypeCorrect, SaysStep, PTL DEF Spec

-----------------------------------------------------------------------------
(***************************************************************************)
(* What is sent was started.  A single track that is not to be broadcast   *)
(* has nothing that would let the content through.                         *)
(***************************************************************************)

MeantInv ==
  /\ ~IsScreen => \A k \in Tracks : flags.should[k] => k \in meant
  /\ \A k \in Kinds : shown[k] = "content" => Sending(flags, k)

LEMMA MeantStep == TypeOK /\ MeantInv /\ [Next]_vars => MeantInv'
<1>1. ASSUME TypeOK, MeantInv, Next PROVE MeantInv'
  <2>1. Emit /\ flags' \in Flags /\ Tracks \subseteq Kinds /\ flags \in Flags
    BY <1>1, StepEffect, FlagsType DEF TypeOK, Flags
  <2>2. Tracks' = Tracks /\ (IsScreen' <=> IsScreen)
    BY <2>1 DEF Emit, Tracks, IsScreen
  <2>3. ASSUME NEW k \in Kinds, shown'[k] = "content" PROVE Sending(flags', k)
    <3>1. shown'[k] = ShownFor(k)
      BY <2>1 DEF Emit
    <3>2. CASE k \notin pushing' \/ ~Sending(flags', k)
      BY <2>3, <3>1, <3>2 DEF ShownFor
    <3>3. QED BY <3>2
  <2>4. ASSUME ~IsScreen, NEW k \in Tracks, flags'.should[k] PROVE k \in meant'
    <3>1. Tracks = {k} BY <2>4 DEF IsScreen
    <3>2. flags.should[k] => k \in meant BY <1>1, <2>4 DEF MeantInv
    <3>3. k \in Kinds BY <2>1
    <3>4. ASSUME NEW ks \in SUBSET Tracks, Start(ks) \/ Stop(ks) PROVE k \in meant'
      <4>1. Started(ks).should[k] <=> flags.should[k] \/ k \in ks
        BY <3>3 DEF Started
      <4>2. Stopped(ks).should[k] <=> flags.should[k] /\ k \notin ks
        BY <2>1, <3>3 DEF Stopped, Flags
      <4>3. QED BY <2>4, <3>2, <3>4, <4>1, <4>2 DEF Start, Stop, Set
    <3>5. ASSUME flags'.should = flags.should, meant' = meant PROVE k \in meant'
      BY <2>4, <3>2, <3>5
    <3>6. ASSUME NEW j \in Tracks, flags' = Disabled(j), flags.enabled PROVE FALSE
      <4>1. j = k BY <3>1
      <4>2. Stopped({j}).should[k] = FALSE
        BY <2>1, <3>3, <4>1 DEF Stopped, Flags
      <4>3. flags'.should[k] = Stopped({j}).should[k]
        BY <3>6 DEF Disabled
      <4>4. QED BY <2>4, <4>2, <4>3
    <3>7. ASSUME EnableSource PROVE k \in meant'
      BY <2>1, <3>5, <3>7 DEF EnableSource, Set, Enabled, Flags
    <3>8. ASSUME DisableSource PROVE k \in meant'
      <4>1. PICK j \in Tracks : Set(Disabled(j)) /\ meant' = IF flags.enabled THEN {} ELSE meant
        BY <2>4, <3>8 DEF DisableSource
      <4>2. flags' = Disabled(j) BY <4>1 DEF Set
      <4>3. ~flags.enabled BY <3>6, <4>2
      <4>4. flags' = flags BY <4>2, <4>3 DEF Disabled
      <4>5. QED BY <3>5, <4>1, <4>3, <4>4
    <3>9. ASSUME NEW j \in Tracks, Over(j) PROVE k \in meant'
      <4>1. flags.enabled BY <3>9 DEF Over, Subscribers
      <4>2. QED BY <3>6, <3>9, <4>1 DEF Over
    <3>10. CASE Give
      BY <3>5, <3>10 DEF Give
    <3>11. ASSUME NEW j \in Tracks,
                  \/ StartBroadcasting(j) \/ StopBroadcasting(j) \/ ToggleBroadcasting(j)
                  \/ Push(j) \/ Unpush(j) \/ Monitor(j) \/ Unmonitor(j)
           PROVE  k \in meant'
      <4>1. CASE Start({j}) \/ Stop({j})
        BY <3>4, <4>1
      <4>2. CASE Push(j) \/ Unpush(j) \/ Monitor(j) \/ Unmonitor(j)
        BY <3>5, <4>2 DEF Push, Unpush, Monitor, Unmonitor, Observe
      <4>3. QED
        BY <3>11, <4>1, <4>2 DEF StartBroadcasting, StopBroadcasting, ToggleBroadcasting
    <3>12. CASE StartBroadcastingScreen \/ StopBroadcastingScreen \/ ToggleBroadcastingScreen
      BY <2>4, <3>12
         DEF StartBroadcastingScreen, StopBroadcastingScreen, ToggleBroadcastingScreen
    <3>13. CASE EnableSource \/ DisableSource \/ ToggleIsSourceEnabled
      BY <3>7, <3>8, <3>13 DEF ToggleIsSourceEnabled
    <3>14. QED
      BY <1>1, <3>9, <3>10, <3>11, <3>12, <3>13 DEF Next, ByTheProgram
  <2>5. QED BY <2>2, <2>3, <2>4 DEF MeantInv
<1>2. ASSUME MeantInv, UNCHANGED vars PROVE MeantInv'
  BY <1>2 DEF MeantInv, vars, Tracks, IsScreen, Sending
<1>3. QED BY <1>1, <1>2

(* The content of a microphone or a camera is sent only after the program  *)
(* started it, and not once it was stopped, disabled or over.              *)
THEOREM SentOnlyWhenStarted == Spec => []OnlyMeant
<1>1. Init => MeantInv
  BY DEF Init, MeantInv
<1>2. TypeOK /\ MeantInv => OnlyMeant
  <2> SUFFICES ASSUME TypeOK, MeantInv, ~IsScreen, NEW k \in Tracks, Sent(k) = "content"
               PROVE  k \in meant
    BY DEF OnlyMeant
  <2>1. shown[k] = "content" BY DEF Sent
  <2>2. k \in Kinds BY FlagsType
  <2>3. QED BY <2>1, <2>2 DEF MeantInv, Sending
<1>3. QED BY <1>1, <1>2, TypeCorrect, MeantStep, PTL DEF Spec

-----------------------------------------------------------------------------
(***************************************************************************)
(* The source.                                                             *)
(***************************************************************************)

LEMMA WantedStep == TypeOK /\ OnlyWanted /\ [Next]_vars => OnlyWanted'
<1> SUFFICES ASSUME TypeOK, OnlyWanted, [Next]_vars PROVE OnlyWanted'
  OBVIOUS
<1>1. CASE UNCHANGED vars
  BY <1>1 DEF vars, OnlyWanted, Subscribers, Tracks, WithMonitor
<1>2. CASE Next
  <2>1. UNCHANGED options /\ Tracks' = Tracks
    BY <1>2, StepEffect DEF Emit, Tracks
  <2>2. Subscribers(flags, pushing, monitoring)' = Subscribers(flags', pushing', monitoring')
    BY <2>1 DEF Subscribers, WithMonitor
  <2>3. ASSUME source' = SourceFor(flags', pushing', monitoring') PROVE OnlyWanted'
    BY <2>2, <2>3 DEF OnlyWanted, SourceFor
  <2>4. ASSUME NEW f, Set(f) PROVE OnlyWanted'
    BY <2>3, <2>4 DEF Set
  <2>5. ASSUME NEW ps, NEW ms, Observe(ps, ms) PROVE OnlyWanted'
    BY <2>3, <2>5 DEF Observe
  <2>6. ASSUME UNCHANGED <<flags, pushing, monitoring>>, source' /= "idle", source /= "idle"
        PROVE  OnlyWanted'
    BY <2>2, <2>6 DEF OnlyWanted
  <2>7. CASE EnableSource
    <3>1. CASE Set(Enabled) BY <2>4, <3>1
    <3>2. CASE Alone /\ source' = "asked" /\ UNCHANGED <<flags, pushing, monitoring>>
      BY <2>6, <3>2 DEF Alone, OnlyWanted
    <3>3. QED BY <2>7, <3>1, <3>2 DEF EnableSource
  <2>8. CASE DisableSource
    BY <2>4, <2>8 DEF DisableSource
  <2>9. CASE Give
    BY <2>6, <2>9 DEF Give
  <2>10. ASSUME NEW k \in Tracks, Over(k) PROVE OnlyWanted'
    <3>1. flags.enabled /\ source' = "idle" /\ flags' = Disabled(k)
      BY <2>10 DEF Over, Subscribers
    <3>2. ~flags'.enabled
      BY <3>1 DEF Disabled, Stopped
    <3>3. Subscribers(flags', pushing', monitoring') = {}
      BY <3>2 DEF Subscribers
    <3>4. QED BY <2>2, <3>1, <3>3 DEF OnlyWanted
  <2>11. ASSUME NEW k \in Tracks,
                \/ StartBroadcasting(k) \/ StopBroadcasting(k) \/ ToggleBroadcasting(k)
                \/ Push(k) \/ Unpush(k) \/ Monitor(k) \/ Unmonitor(k)
         PROVE  OnlyWanted'
    BY <2>4, <2>5, <2>11 DEF StartBroadcasting, StopBroadcasting, ToggleBroadcasting, Start,
       Stop, Push, Unpush, Monitor, Unmonitor
  <2>12. CASE StartBroadcastingScreen \/ StopBroadcastingScreen \/ ToggleBroadcastingScreen
    BY <2>4, <2>12 DEF StartBroadcastingScreen, StopBroadcastingScreen,
       ToggleBroadcastingScreen, Start, Stop
  <2>13. QED
    BY <1>2, <2>7, <2>8, <2>9, <2>10, <2>11, <2>12
       DEF Next, ByTheProgram, ToggleIsSourceEnabled
<1>3. QED BY <1>1, <1>2

(* A device or a screen is asked for when somebody wants its content, and  *)
(* let go of with the last of them.                                        *)
THEOREM KeptOnlyWhileWanted == Spec => []OnlyWanted
<1>1. Init => OnlyWanted
  BY DEF Init, OnlyWanted, Subscribers, WithMonitor
<1>2. QED BY <1>1, TypeCorrect, WantedStep, PTL DEF Spec
=============================================================================
