--------------------------- MODULE BroadcastTrack ---------------------------
(***************************************************************************)
(* makeBroadcastTrack of partytracks (packages/partytracks/src/client/     *)
(* makeBroadcastTrack.ts), as a microphone or a camera has it              *)
(* (getDevices.ts) and as the two tracks of a screen that is shared have   *)
(* it (getScreenshare.ts), which share their source and the flag that      *)
(* enables it.                                                             *)
(*                                                                         *)
(* Left out: a screen that is shared without sound, whose audio goes on    *)
(* with the inaudible track; transformations.                              *)
(*                                                                         *)
(* The source is what resilientTrack$ and screenshare$ have in common:     *)
(* share() with a ReplaySubject(1), which is asked when the first          *)
(* subscriber comes, is reset when the last one goes, and is over when it  *)
(* completes or fails.  An action of the program, or of the source, runs   *)
(* through the pipes of every track before anything else does.             *)
(***************************************************************************)
CONSTANTS
  Kinds,                \* "audio" and "video"
  Options              \* see options

ASSUME BroadcastAssumption ==
  Options \subseteq [kinds : SUBSET Kinds \ {{}}, retain : BOOLEAN, active : BOOLEAN,
                      broadcasting : BOOLEAN]

VARIABLES
  options,              \* the tracks of the source, retainIdleTrack(s), activateSource
                        \* and the option broadcasting
  flags,                \* isSourceEnabled$, and shouldBroadcast$ of each track
  pushing,              \* broadcastTrack$ of the track has a subscriber
  monitoring,           \* so has localMonitorTrack$, the program's
  source,               \* contentTrack$: "idle", "asked", or "given"
  shown,                \* what broadcastTrack$ emitted last, before retainIdleTrack
  heard,                \* localMonitorTrack$ has emitted to its subscribers
  isBroadcasting,       \* isBroadcasting$
  meant                 \* history: the program started it and nothing ended it since

vars == <<options, flags, pushing, monitoring, source, shown, heard, isBroadcasting, meant>>

Tracks == options.kinds
IsScreen == \E j, k \in Tracks : j /= k

TypeOK ==
  /\ options \in Options
  /\ flags \in [enabled : BOOLEAN, should : [Kinds -> BOOLEAN]]
  /\ pushing \in SUBSET Tracks /\ monitoring \in SUBSET Tracks
  /\ source \in {"idle", "asked", "given"}
  /\ shown \in [Kinds -> {"none", "fallback", "content"}]
  /\ heard \in SUBSET Tracks /\ isBroadcasting \in SUBSET Tracks /\ meant \in SUBSET Tracks

-----------------------------------------------------------------------------
(***************************************************************************)
(* The flags, after each function of the API.                              *)
(***************************************************************************)

Enabled == [flags EXCEPT !.enabled = TRUE]
Started(ks) ==
  [enabled |-> TRUE, should |-> [k \in Kinds |-> flags.should[k] \/ k \in ks]]
Stopped(ks) ==
  [flags EXCEPT !.should = [k \in Kinds |-> flags.should[k] /\ k \notin ks]]

(* disableSource of one track, which the end of its content calls *)
OnlyDisabled(k) == [flags EXCEPT !.enabled = FALSE]          \* mutant
Disabled(k) == IF flags.enabled THEN [Stopped({k}) EXCEPT !.enabled = FALSE] ELSE flags

(* disableSource of the screen *)
ScreenDisabled == [Stopped(Tracks) EXCEPT !.enabled = FALSE]

-----------------------------------------------------------------------------
(***************************************************************************)
(* The pipes.                                                              *)
(***************************************************************************)

Sending(f, k) == f.enabled /\ f.should[k]
WithMonitor(k, pushers, monitors) == k \in monitors \/ (options.retain /\ k \in pushers)

(* The subscribers of the source, by broadcastTrack$ and localMonitorTrack$ *)
Subscribers(f, pushers, monitors) ==
  {sub \in Tracks \X {"broadcast", "monitor"} :
     /\ f.enabled
     /\ \/ sub[2] = "broadcast" /\ sub[1] \in pushers /\ f.should[sub[1]]
        \/ sub[2] = "monitor" /\ WithMonitor(sub[1], pushers, monitors)}

(* share(): asked by the first subscriber, forgotten with the last *)
SourceFor(f, pushers, monitors) ==
  IF Subscribers(f, pushers, monitors) = {} THEN "idle"
  ELSE IF source = "idle" THEN "asked" ELSE source

(* broadcastTrack$ switches to the content when there is some, and to the  *)
(* fallback at once.                                                       *)
NotReplayed(k) ==                                            \* mutant
  CASE k \notin pushing' -> "none"
    [] k \in pushing' /\ ~Sending(flags', k) -> "fallback"
    [] k \in pushing' /\ Sending(flags', k) ->
         IF source = "asked" /\ source' = "given" THEN "content" ELSE shown[k]
ShownFor(k) ==
  CASE k \notin pushing' -> "none"
    [] k \in pushing' /\ ~Sending(flags', k) -> "fallback"
    [] k \in pushing' /\ Sending(flags', k) -> IF source' = "given" THEN "content" ELSE shown[k]

NeverFalse(k) ==                                             \* mutant
  k \in isBroadcasting \/ (k \in pushing' /\ Sending(flags', k) /\ source' = "given")
IsBroadcastingFor(k) ==
  IF k \in pushing' /\ (~Sending(flags', k) \/ source' = "given")
  THEN Sending(flags', k)
  ELSE k \in isBroadcasting

OnlyContentHeard(k) ==                                       \* mutant
  WithMonitor(k, pushing', monitoring') /\ (k \in heard \/ source' = "given")
HeardFor(k) ==
  /\ WithMonitor(k, pushing', monitoring')
  /\ k \in heard \/ ~flags'.enabled \/ source' = "given"

Emit ==
  /\ shown' = [k \in Kinds |-> ShownFor(k)]
  /\ isBroadcasting' = {k \in Tracks : IsBroadcastingFor(k)}
  /\ heard' = {k \in Tracks : HeardFor(k)}
  /\ UNCHANGED options

(* The program has set the flags. *)
Set(f) ==
  /\ flags' = f
  /\ source' = SourceFor(f, pushing, monitoring)
  /\ UNCHANGED <<pushing, monitoring>>
  /\ Emit

-----------------------------------------------------------------------------
(***************************************************************************)
(* The API of a track.                                                     *)
(***************************************************************************)

Start(ks) == Set(Started(ks)) /\ meant' = meant \cup ks
Stop(ks) == Set(Stopped(ks)) /\ meant' = meant \ ks

StartBroadcasting(k) == Start({k})
StopBroadcasting(k) == Stop({k})
ToggleBroadcasting(k) ==
  \/ flags.should[k] /\ StopBroadcasting(k)
  \/ ~flags.should[k] /\ StartBroadcasting(k)

(* The screen's own next(true) makes each track subscribe again; a single  *)
(* subscriber is the last to go, and the first to ask again.               *)
Alone == \E sub \in Tracks \X {"broadcast", "monitor"} : Subscribers(flags, pushing, monitoring) = {sub}
EnableSource ==
  /\ UNCHANGED meant
  /\ \/ ~(IsScreen /\ Alone) /\ Set(Enabled)
     \/ /\ IsScreen /\ Alone /\ source' = "asked"
        /\ UNCHANGED <<flags, pushing, monitoring>> /\ Emit
DisableSource ==
  \/ IsScreen /\ Set(ScreenDisabled) /\ meant' = {}
  \/ \E k \in Tracks :
       /\ Tracks = {k}
       /\ Set(Disabled(k)) /\ meant' = IF flags.enabled THEN {} ELSE meant
ToggleIsSourceEnabled ==
  \/ flags.enabled /\ DisableSource
  \/ ~flags.enabled /\ EnableSource

(* The API of the screen. *)
StartBroadcastingScreen == IsScreen /\ Start(Tracks)
StopBroadcastingScreen == IsScreen /\ Stop(Tracks)
ToggleBroadcastingScreen ==
  \/ (\E k \in Tracks : flags.should[k]) /\ StopBroadcastingScreen
  \/ (\A k \in Tracks : ~flags.should[k]) /\ StartBroadcastingScreen

(* Subscriptions, of PartyTracks.push() and of the program's own monitor. *)
Observe(pushers, monitors) ==
  /\ pushing' = pushers /\ monitoring' = monitors
  /\ source' = SourceFor(flags, pushers, monitors)
  /\ UNCHANGED <<flags, meant>>
  /\ Emit
Push(k) == k \notin pushing /\ Observe(pushing \cup {k}, monitoring)
Unpush(k) == k \in pushing /\ Observe(pushing \ {k}, monitoring)
Monitor(k) == k \notin monitoring /\ Observe(pushing, monitoring \cup {k})
Unmonitor(k) == k \in monitoring /\ Observe(pushing, monitoring \ {k})

-----------------------------------------------------------------------------
(***************************************************************************)
(* The source.                                                             *)
(***************************************************************************)

Give ==
  /\ source = "asked" /\ source' = "given"
  /\ UNCHANGED <<flags, pushing, monitoring, meant>>
  /\ Emit

(* It completes or fails, which the track that subscribed first is told:   *)
(* it disables the source, so that the others have gone when their turn    *)
(* comes.                                                                  *)
Over(k) ==
  /\ \E role \in {"broadcast", "monitor"} : <<k, role>> \in Subscribers(flags, pushing, monitoring)
  /\ flags' = Disabled(k) /\ meant' = {}
  /\ source' = "idle"
  /\ UNCHANGED <<pushing, monitoring>>
  /\ Emit

-----------------------------------------------------------------------------

Init ==
  /\ options \in Options
  /\ flags = [enabled |-> options.active,
              should |-> [k \in Kinds |-> options.broadcasting /\ k \in Tracks]]
  /\ pushing = {} /\ monitoring = {}
  /\ source = "idle" /\ shown = [k \in Kinds |-> "none"] /\ heard = {}
  /\ isBroadcasting = {}
  /\ meant = {k \in Tracks : flags.should[k]}

ByTheProgram ==
  \/ \E k \in Tracks :
       \/ StartBroadcasting(k) \/ StopBroadcasting(k) \/ ToggleBroadcasting(k)
       \/ Push(k) \/ Unpush(k) \/ Monitor(k) \/ Unmonitor(k)
  \/ EnableSource \/ DisableSource \/ ToggleIsSourceEnabled
  \/ StartBroadcastingScreen \/ StopBroadcastingScreen \/ ToggleBroadcastingScreen
Next == ByTheProgram \/ Give \/ \E k \in Tracks : Over(k)
Spec == Init /\ [][Next]_vars

(* Who is asked for a track or a screen answers. *)
Answers == source = "asked" /\ (Give \/ \E k \in Tracks : Over(k))
Fairness == WF_vars(Answers)
LiveSpec == Spec /\ Fairness

-----------------------------------------------------------------------------
(***************************************************************************)
(* Properties.                                                             *)
(***************************************************************************)

(* What the subscriber of broadcastTrack$ has: with retainIdleTrack, it    *)
(* waits for localMonitorTrack$ too (combineLatest).                       *)
Sent(k) == IF options.retain /\ k \notin heard THEN "none" ELSE shown[k]

(* isBroadcasting$ tells whether it is the content that is sent, as soon   *)
(* as something is (makeBroadcastTrack.ts:161).                            *)
SaysWhatItSends ==
  \A k \in pushing : Sent(k) /= "none" => (k \in isBroadcasting <=> Sent(k) = "content")

(* The content of a microphone or a camera is not sent once broadcasting   *)
(* was stopped, the source disabled or over, until the program starts it   *)
(* again: to enable the source is not enough (disableSource).              *)
OnlyMeant == ~IsScreen => \A k \in Tracks : Sent(k) = "content" => k \in meant

(* Not so when a screen is shared: of its two tracks one keeps its         *)
(* shouldBroadcast$ when the share ends.                                   *)
OnlyMeantScreen == \A k \in Tracks : Sent(k) = "content" => k \in meant

(* The source is asked for, and kept, just as long as somebody wants it:   *)
(* the light of the camera is off else (makeBroadcastTrack.ts:20).         *)
OnlyWanted == source /= "idle" <=> Subscribers(flags, pushing, monitoring) /= {}

(* Whoever pushes a track has one to send in the end, though the source is *)
(* not given (localMonitorTrack$ falls back).                              *)
PushedIsShown == \A k \in Kinds : k \in pushing ~> (k \notin pushing \/ Sent(k) /= "none")

(* What is started is sent, or its source is over or disabled.             *)
StartedIsSent ==
  \A k \in Kinds : (k \in pushing /\ Sending(flags, k)) ~>
                     (k \notin pushing \/ ~Sending(flags, k) \/ Sent(k) = "content")
=============================================================================
