------------------------- MODULE YAwareness_proofs -------------------------
(***************************************************************************)
(* Proofs about YProvider, for any number of calls, failures and timers,   *)
(* and about YAwareness, however far behind a message may come.            *)
(***************************************************************************)
EXTENDS YAwareness, TLAPS

-----------------------------------------------------------------------------
(***************************************************************************)
(* The provider.                                                           *)
(***************************************************************************)

(* The two kinds of variables, which are proved about one at a time.       *)
FlagsTyped ==
  /\ asyncParams \in BOOLEAN
  /\ shouldConnect \in BOOLEAN
  /\ ws \in {"none", "CONNECTING", "OPEN", "CLOSING"}
  /\ wsconnecting \in BOOLEAN /\ wsconnected \in BOOLEAN /\ synced \in BOOLEAN
  /\ bcconnected \in BOOLEAN /\ destroyed \in BOOLEAN

CountsTyped ==
  /\ failures \in 0 .. MaxBackoff
  /\ timers \in 0 .. MaxTimers
  /\ fetching \in 0 .. MaxCalls
  /\ calls \in 0 .. MaxCalls
  /\ fetching <= calls

LEMMA TypesOfBoth == FlagsTyped /\ CountsTyped => TypeOK
<1> SUFFICES ASSUME FlagsTyped, CountsTyped PROVE TypeOK
  OBVIOUS
<1>1. /\ failures \in 0 .. MaxBackoff /\ timers \in 0 .. MaxTimers
      /\ fetching \in 0 .. MaxCalls /\ calls \in 0 .. MaxCalls
  BY DEF CountsTyped
<1>2. QED BY <1>1 DEF FlagsTyped, TypeOK

LEMMA FlagsStep == FlagsTyped /\ [Next]_vars => FlagsTyped'
<1> SUFFICES ASSUME FlagsTyped, [Next]_vars PROVE FlagsTyped'
  OBVIOUS
<1>0. UNCHANGED asyncParams
  BY DEF Next, vars
<1> USE <1>0, ProviderAssumption DEF FlagsTyped, socketVars
<1>1. ASSUME ConnectNow, UNCHANGED destroyed PROVE FlagsTyped'
  BY <1>1 DEF ConnectNow, SetupWS
<1>2. ASSUME DisconnectNow, destroyed' \in BOOLEAN PROVE FlagsTyped'
  BY <1>2 DEF DisconnectNow, CloseSocket
<1>3. CASE Connect \/ ParamsResolve \/ ParamsReject
  BY <1>1, <1>3 DEF Connect, ParamsResolve, ParamsReject
<1>4. CASE Disconnect \/ Destroy
  BY <1>2, <1>4 DEF Disconnect, Destroy
<1>5. CASE TimerFires
  BY <1>5 DEF TimerFires, SetupWS
<1>6. CASE CheckInterval \/ WsOpen \/ SyncStep2 \/ PeerCloses
  BY <1>6 DEF CheckInterval, CloseSocket, WsOpen, SyncStep2, PeerCloses
<1>7. CASE WsClose
  BY <1>7 DEF WsClose, WasConnected, NeverConnected
<1>8. CASE UNCHANGED vars
  BY <1>8 DEF vars, runVars
<1>9. QED
  BY <1>3, <1>4, <1>5, <1>6, <1>7, <1>8 DEF Next, Program, Params, Network

(* A call that awaits its params was made. *)
LEMMA CountsStep == CountsTyped /\ [Next]_vars => CountsTyped'
<1> SUFFICES ASSUME CountsTyped, [Next]_vars PROVE CountsTyped'
  OBVIOUS
<1> USE ProviderAssumption DEF CountsTyped
<1>1. CASE Program
  <2>1. /\ calls < MaxCalls /\ calls' = calls + 1 /\ fetching' \in {fetching, fetching + 1}
        /\ UNCHANGED <<failures, timers>>
    BY <1>1 DEF Program, Called, Connect, Disconnect, Destroy
  <2>2. QED BY <2>1
<1>2. CASE Params
  <2>1. /\ fetching > 0 /\ fetching' = fetching - 1
        /\ UNCHANGED <<failures, timers, calls>>
    BY <1>2 DEF Params, ParamsResolve, ParamsReject
  <2>2. QED BY <2>1
<1>3. CASE TimerFires
  <2>1. timers > 0 /\ timers' = timers - 1 /\ UNCHANGED <<failures, fetching, calls>>
    BY <1>3 DEF TimerFires
  <2>2. QED BY <2>1
<1>4. CASE WsOpen
  <2>1. failures' = 0 /\ UNCHANGED <<timers, fetching, calls>>
    BY <1>4 DEF WsOpen
  <2>2. QED BY <2>1
<1>5. CASE WsClose
  <2>1. /\ failures' \in {failures, IF failures < MaxBackoff THEN failures + 1 ELSE failures}
        /\ timers' = IF timers < MaxTimers THEN timers + 1 ELSE timers
        /\ UNCHANGED <<fetching, calls>>
    BY <1>5 DEF WsClose, TimerSet, WasConnected, NeverConnected
  <2>2. QED BY <2>1
<1>6. CASE CheckInterval \/ SyncStep2 \/ PeerCloses \/ UNCHANGED vars
  <2>1. UNCHANGED <<failures, timers, fetching, calls>>
    BY <1>6 DEF CheckInterval, SyncStep2, PeerCloses, vars, runVars
  <2>2. QED BY <2>1
<1>7. QED BY <1>1, <1>2, <1>3, <1>4, <1>5, <1>6 DEF Next, Network

LEMMA TypesCorrect == Spec => [](FlagsTyped /\ CountsTyped)
<1>1. Init => FlagsTyped
  BY DEF Init, FlagsTyped
<1>2. ASSUME Init PROVE CountsTyped
  <2>1. failures = 0 /\ timers = 0 /\ fetching = 0 /\ calls = 0
    BY <1>2 DEF Init
  <2>2. QED BY <2>1, ProviderAssumption DEF CountsTyped
<1>3. QED BY <1>1, <1>2, FlagsStep, CountsStep, PTL DEF Spec

(* The type invariant, for any bounds. *)
THEOREM TypeCorrect == Spec => []TypeOK
BY TypesCorrect, TypesOfBoth, PTL

(* Flags, socket and timers agree: FlagsAgree needs nothing else, and the  *)
(* other two need it, for it says that no socket means not connected.      *)
ProviderInv == FlagsAgree /\ NeverIdle /\ OpenIsWanted

LEMMA InvStep == TypeOK /\ ProviderInv /\ [Next]_vars => ProviderInv'
<1> SUFFICES ASSUME TypeOK, ProviderInv, [Next]_vars PROVE ProviderInv'
  OBVIOUS
<1> USE ProviderAssumption DEF ProviderInv, FlagsAgree, NeverIdle, OpenIsWanted
<1>1. ASSUME ConnectNow, UNCHANGED timers PROVE ProviderInv'
  BY <1>1 DEF ConnectNow, SetupWS, Wanted, socketVars
<1>2. ASSUME DisconnectNow, UNCHANGED timers PROVE ProviderInv'
  BY <1>2 DEF DisconnectNow, CloseSocket, TypeOK
<1>3. CASE Connect
  BY <1>1, <1>3 DEF Connect, socketVars
<1>4. CASE ParamsResolve \/ ParamsReject
  BY <1>1, <1>4 DEF ParamsResolve, ParamsReject, socketVars
<1>5. CASE Disconnect \/ Destroy
  BY <1>2, <1>5 DEF Disconnect, Destroy
<1>6. CASE TimerFires
  BY <1>6 DEF TimerFires, SetupWS, Wanted, socketVars, TypeOK
<1>7. CASE CheckInterval
  BY <1>7 DEF CheckInterval, CloseSocket, TypeOK
<1>8. CASE WsOpen \/ SyncStep2 \/ PeerCloses
  BY <1>8 DEF WsOpen, SyncStep2, PeerCloses
<1>9. CASE WsClose
  <2>1. timers' > 0
    BY <1>9 DEF WsClose, TimerSet, TypeOK
  <2>2. QED BY <1>9, <2>1 DEF WsClose, WasConnected, NeverConnected
<1>10. CASE UNCHANGED vars
  BY <1>10 DEF vars, runVars, socketVars
<1>11. QED
  BY <1>3, <1>4, <1>5, <1>6, <1>7, <1>8, <1>9, <1>10 DEF Next, Program, Params, Network

LEMMA InvCorrect == Spec => []ProviderInv
<1>1. Init => ProviderInv
  BY DEF Init, ProviderInv, FlagsAgree, NeverIdle, OpenIsWanted
<1>2. QED BY <1>1, InvStep, TypeCorrect, PTL DEF Spec

(* The flags always say what the socket does; the assertion of the check   *)
(* interval never fails.                                                   *)
THEOREM FlagsAlwaysAgree == Spec => []FlagsAgree
<1>1. ProviderInv => FlagsAgree
  BY DEF ProviderInv
<1>2. QED BY <1>1, InvCorrect, PTL

(* A provider that should connect always has a socket or a timer.          *)
THEOREM NeverForgotten == Spec => []NeverIdle
<1>1. ProviderInv => NeverIdle
  BY DEF ProviderInv
<1>2. QED BY <1>1, InvCorrect, PTL

(* A socket that is connecting or open is always one that is wanted.       *)
THEOREM OnlyWantedOpens == Spec => []OpenIsWanted
<1>1. ProviderInv => OpenIsWanted
  BY DEF ProviderInv
<1>2. QED BY <1>1, InvCorrect, PTL

(* A provider never makes a socket while it has one.                       *)
THEOREM SocketsFollowEachOther == Spec => NoLeakedSocket
<1>1. [Next]_vars => [ws' = "CONNECTING" /\ ws /= "CONNECTING" => ws = "none"]_vars
  BY DEF Next, Program, Params, Network, Connect, ParamsResolve, ParamsReject, Disconnect,
     Destroy, ConnectNow, DisconnectNow, SetupWS, Wanted, CloseSocket, TimerFires,
     CheckInterval, WsOpen, SyncStep2, PeerCloses, WsClose, vars, socketVars
<1>2. QED BY <1>1, PTL DEF Spec, NoLeakedSocket

-----------------------------------------------------------------------------
(***************************************************************************)
(* The page's provider, which ends when the page does.                     *)
(***************************************************************************)
ProviderHolds == FlagsTyped /\ CountsTyped /\ ProviderInv

LEMMA PageSteps ==
  AwarenessNext => [Next]_vars \/ Vanish
<1> SUFFICES ASSUME AwarenessNext PROVE [Next]_vars \/ Vanish
  OBVIOUS
<1>1. CASE Page
  <2>1. CASE Provider
    BY <2>1 DEF Provider, Opens, Closes, Together, Next, Program, Params, Network
  <2>2. CASE Renew \/ Receive
    BY <2>2 DEF Renew, Receive
  <2>3. CASE Unload \/ Crash
    BY <2>3 DEF Unload, Crash
  <2>4. QED BY <1>1, <2>1, <2>2, <2>3 DEF Page
<1>2. CASE Server
  BY <1>2 DEF Server, OnConnect, OnMessage, OnOldMessage, OnClose, OnOldClose, Outdated
<1>3. CASE Others
  BY <1>3 DEF Others, TimePasses, PeerRenews
<1>4. QED BY <1>1, <1>2, <1>3 DEF AwarenessNext

LEMMA ProviderHoldsStep ==
  ProviderHolds /\ [AwarenessNext]_allVars => ProviderHolds'
<1> SUFFICES ASSUME ProviderHolds, [AwarenessNext]_allVars PROVE ProviderHolds'
  OBVIOUS
<1>1. CASE [Next]_vars
  BY <1>1, FlagsStep, CountsStep, InvStep, TypesOfBoth DEF ProviderHolds
<1>2. CASE Vanish
  <2>1. FlagsTyped' /\ ProviderInv'
    BY <1>2 DEF Vanish, ProviderHolds, FlagsTyped, ProviderInv, FlagsAgree, NeverIdle, OpenIsWanted
  <2>2. timers' = 0 /\ fetching' = 0 /\ UNCHANGED <<failures, calls>>
    BY <1>2 DEF Vanish
  <2>3. CountsTyped'
    BY <2>2, ProviderAssumption DEF ProviderHolds, CountsTyped
  <2>4. QED BY <2>1, <2>3 DEF ProviderHolds
<1>3. QED BY <1>1, <1>2, PageSteps DEF allVars

LEMMA ProviderOfAPage == AwarenessSpec => []ProviderHolds
<1>1. AwarenessInit => ProviderHolds
  <2> SUFFICES ASSUME Init PROVE ProviderHolds
    BY DEF AwarenessInit
  <2>1. FlagsTyped /\ ProviderInv
    BY DEF Init, FlagsTyped, ProviderInv, FlagsAgree, NeverIdle, OpenIsWanted
  <2>2. failures = 0 /\ timers = 0 /\ fetching = 0 /\ calls = 0
    BY DEF Init
  <2>3. CountsTyped
    BY <2>2, ProviderAssumption DEF CountsTyped
  <2>4. QED BY <2>1, <2>3 DEF ProviderHolds
<1>2. QED BY <1>1, ProviderHoldsStep, PTL DEF AwarenessSpec

-----------------------------------------------------------------------------
(***************************************************************************)
(* Messages.                                                               *)
(***************************************************************************)
LEMMA OlderIsAnAge == ASSUME NEW a \in Ages PROVE Older(a) \in Ages
BY AwarenessAssumption DEF Ages, Older

(* Time does not change what a message says, but for its age.              *)
LEMMA AgedKeeps ==
  ASSUME NEW q \in Seq(Entries), NEW id
  PROVE  /\ Aged(q, id) \in Seq(Entries) /\ Len(Aged(q, id)) = Len(q)
         /\ \A i \in 1 .. Len(q) : Aged(q, id)[i].state = q[i].state
<1>1. \A i \in 1 .. Len(q) : q[i] \in Entries
  OBVIOUS
<1>2. Aged(q, id) = [i \in 1 .. Len(q) |->
        IF q[i].id = id THEN [q[i] EXCEPT !.age = Older(@)] ELSE q[i]]
  BY DEF Aged
<1>3. \A i \in 1 .. Len(q) : /\ Aged(q, id)[i] \in Entries
                             /\ Aged(q, id)[i].state = q[i].state
  <2> SUFFICES ASSUME NEW i \in 1 .. Len(q)
               PROVE  Aged(q, id)[i] \in Entries /\ Aged(q, id)[i].state = q[i].state
    OBVIOUS
  <2>1. q[i] \in Entries /\ Older(q[i].age) \in Ages
    BY <1>1, OlderIsAnAge DEF Entries
  <2>2. Aged(q, id)[i] = IF q[i].id = id THEN [q[i] EXCEPT !.age = Older(q[i].age)] ELSE q[i]
    BY <1>2
  <2>3. QED BY <2>1, <2>2 DEF Entries
<1>4. Aged(q, id) \in [1 .. Len(q) -> Entries]
  BY <1>2, <1>3
<1>5. Len(q) \in Nat
  OBVIOUS
<1>6. Aged(q, id) \in Seq(Entries) /\ Len(Aged(q, id)) = Len(q)
  BY <1>4, <1>5
<1>7. QED BY <1>3, <1>6

LEMMA Appended ==
  ASSUME NEW S, NEW q \in Seq(S), NEW e \in S
  PROVE  Append(q, e) \in Seq(S)
OBVIOUS

LEMMA NothingInIt ==
  ASSUME NEW S, NEW q \in Seq(S), Len(q) = 0
  PROVE  q = <<>>
OBVIOUS

LEMMA QueuesKeepEntries ==
  ASSUME NEW q \in Seq(Entries), NEW e \in Entries, NEW what
  PROVE  /\ Sends(q, e) \in Seq(Entries) /\ Forwards(q, e, what) \in Seq(Entries)
         /\ Broadcasts(q, e) \in Seq(Entries)
<1>1. Append(q, e) \in Seq(Entries)
  BY Appended
<1>2. QED BY <1>1 DEF Sends, Forwards, Broadcasts

LEMMA EntriesOfClients ==
  /\ \A age \in Ages, state \in BOOLEAN : Mine(age, state) \in Entries
  /\ \A age \in Ages : Peer(age) \in Entries
  /\ 0 \in Ages /\ 1 \in Ages
BY AwarenessAssumption DEF Mine, Peer, Entries, Ages

LEMMA BumpedTypes ==
  ASSUME AwarenessTypeOK, NEW rest \in Seq(Entries), NEW state \in BOOLEAN, NEW what,
         Bumped(state, what, rest)
  PROVE  /\ serverAge' \in Ages /\ up' \in Seq(Entries) /\ late' \in Seq(Entries)
         /\ down' \in Seq(Entries)
<1>1. /\ Aged(up, "me") \in Seq(Entries) /\ Aged(late, "me") \in Seq(Entries)
      /\ Aged(rest, "me") \in Seq(Entries)
  BY AgedKeeps DEF AwarenessTypeOK
<1>2. Mine(0, state) \in Entries
  BY EntriesOfClients
<1>3. up' \in Seq(Entries)
  BY <1>1, <1>2, QueuesKeepEntries DEF Bumped
<1>4. serverAge' \in Ages
  BY OlderIsAnAge DEF Bumped, AwarenessTypeOK
<1>5. QED BY <1>1, <1>3, <1>4 DEF Bumped

LEMMA AwarenessTypeStep ==
  AwarenessTypeOK /\ [AwarenessNext]_allVars => AwarenessTypeOK'
<1> SUFFICES ASSUME AwarenessTypeOK, [AwarenessNext]_allVars PROVE AwarenessTypeOK'
  OBVIOUS
<1> USE DEF AwarenessTypeOK, pageVars, serverVars
<1>1. CASE Provider
  <2>1. CASE Silent
    BY <2>1 DEF Silent, awarenessVars
  <2>2. CASE SaysGone
    <3>1. Sends(up, Mine(0, FALSE)) \in Seq(Entries)
      BY EntriesOfClients, QueuesKeepEntries
    <3>2. QED BY <2>2, <3>1 DEF SaysGone
  <2>3. CASE Opens
    <3>1. Mine(0, TRUE) \in Entries
      BY EntriesOfClients
    <3>2. Append(up, Mine(0, TRUE)) \in Seq(Entries)
      BY <3>1, Appended
    <3>3. QED BY <2>3, <3>2 DEF Opens
  <2>4. CASE Closes
    <3>1. peerStates' \in BOOLEAN
      BY <2>4 DEF Closes, OthersLeft
    <3>2. old' \in {"none", "free", "controls"} /\ late' \in Seq(Entries)
      BY <2>4 DEF Closes
    <3>3. QED BY <2>4, <3>1, <3>2 DEF Closes
  <2>5. QED BY <1>1, <2>1, <2>2, <2>3, <2>4 DEF Provider
<1>2. CASE Renew
  <2>1. /\ serverAge' \in Ages /\ up' \in Seq(Entries) /\ late' \in Seq(Entries)
        /\ down' \in Seq(Entries)
    BY <1>2, BumpedTypes DEF Renew
  <2>2. QED BY <1>2, <2>1 DEF Renew
<1>3. CASE Receive
  <2>1. down \in Seq(Entries) /\ down /= <<>>
    BY <1>3 DEF Receive
  <2>2. Head(down) \in Entries /\ Tail(down) \in Seq(Entries)
    BY <2>1
  <2>3. CASE StillHere /\ UNCHANGED <<peerAge, peerStates>>
    <3>1. /\ serverAge' \in Ages /\ up' \in Seq(Entries) /\ late' \in Seq(Entries)
          /\ down' \in Seq(Entries)
      BY <2>2, <2>3, BumpedTypes DEF StillHere
    <3>2. QED BY <1>3, <2>3, <3>1 DEF Receive
  <2>4. CASE /\ down' = Tail(down) /\ UNCHANGED <<serverAge, up, late>>
             /\ \/ UNCHANGED <<peerAge, peerStates>>
                \/ peerAge' = Head(down).age /\ peerStates' = Head(down).state
    <3>1. peerAge' \in Ages /\ peerStates' \in BOOLEAN
      BY <2>2, <2>4 DEF Entries
    <3>2. QED BY <1>3, <2>2, <2>4, <3>1 DEF Receive
  <2>5. QED BY <1>3, <2>3, <2>4 DEF Receive
<1>4. CASE Unload
  <2>0. <<>> \in Seq(Entries)
    OBVIOUS
  <2>1. Bumped(FALSE, "removed", <<>>)
    BY <1>4 DEF Unload
  <2>2. /\ serverAge' \in Ages /\ up' \in Seq(Entries) /\ late' \in Seq(Entries)
        /\ down' \in Seq(Entries)
    BY <2>0, <2>1, BumpedTypes
  <2>3. alive' \in BOOLEAN /\ peerStates' \in BOOLEAN
        /\ UNCHANGED <<peerAge, known, serverStates, fresh, current, old, connects>>
    BY <1>4 DEF Unload, Vanish
  <2>4. QED BY <2>2, <2>3
<1>5. CASE Crash
  <2>1. <<>> \in Seq(Entries)
    OBVIOUS
  <2>2. alive' \in BOOLEAN /\ peerStates' \in BOOLEAN /\ down' = <<>>
        /\ UNCHANGED <<serverAge, up, late, peerAge, known, serverStates, fresh, current, old,
                       connects>>
    BY <1>5 DEF Crash, Vanish
  <2>3. QED BY <2>1, <2>2
<1>6. CASE OnConnect
  <2>1. <<Peer(0)>> \in Seq(Entries)
    BY EntriesOfClients
  <2>2. QED BY <1>6, <2>1 DEF OnConnect
<1>7. ASSUME NEW e \in Entries, Update(e), NEW conn \in {"none", "free", "controls"}
      PROVE  /\ known' \in BOOLEAN /\ serverAge' \in Ages /\ serverStates' \in BOOLEAN
             /\ fresh' \in BOOLEAN /\ down' \in Seq(Entries)
             /\ Controlled(conn, e) \in {"none", "free", "controls"}
  <2>1. Broadcasts(down, e) \in Seq(Entries)
    BY QueuesKeepEntries
  <2>2. QED BY <1>7, <2>1 DEF Update, Controlled, Entries
<1>8. CASE OnMessage
  <2>1. Head(up) \in Entries /\ Tail(up) \in Seq(Entries)
    BY <1>8 DEF OnMessage
  <2>2. QED BY <1>7, <1>8, <2>1 DEF OnMessage
<1>9. CASE OnOldMessage
  <2>1. Head(late) \in Entries /\ Tail(late) \in Seq(Entries)
    BY <1>9 DEF OnOldMessage
  <2>2. CASE Update(Head(late)) /\ old' = Controlled(old, Head(late))
    <3>1. /\ known' \in BOOLEAN /\ serverAge' \in Ages /\ serverStates' \in BOOLEAN
          /\ fresh' \in BOOLEAN /\ down' \in Seq(Entries)
          /\ old' \in {"none", "free", "controls"}
      BY <1>7, <2>1, <2>2
    <3>2. QED BY <1>9, <2>1, <3>1 DEF OnOldMessage
  <2>3. CASE UNCHANGED <<serverVars, old, down>>
    BY <1>9, <2>1, <2>3 DEF OnOldMessage
  <2>4. QED BY <1>9, <2>2, <2>3 DEF OnOldMessage
<1>10. Broadcasts(down, Mine(serverAge, FALSE)) \in Seq(Entries)
  BY EntriesOfClients, QueuesKeepEntries
<1>11. CASE OnClose
  <2>1. <<>> \in Seq(Entries)
    OBVIOUS
  <2>2. serverStates' \in BOOLEAN /\ up' = <<>> /\ current' = "none"
        /\ UNCHANGED <<pageVars, known, serverAge, fresh, old, late, down, connects>>
    BY <1>11 DEF OnClose, Removed
  <2>3. QED BY <2>1, <2>2
<1>12. CASE OnOldClose
  <2>1. <<>> \in Seq(Entries)
    OBVIOUS
  <2>2. serverStates' \in BOOLEAN /\ old' = "none" /\ late' = <<>>
        /\ UNCHANGED <<pageVars, known, serverAge, fresh, current, up, connects>>
    BY <1>12 DEF OnOldClose, Removed
  <2>3. down' \in Seq(Entries)
    BY <1>10, <1>12 DEF OnOldClose
  <2>4. QED BY <2>1, <2>2, <2>3
<1>13. CASE Outdated
  BY <1>10, <1>13 DEF Outdated
<1>14. CASE TimePasses
  BY <1>14 DEF TimePasses
<1>15. CASE PeerRenews
  <2>1. Aged(down, "peer") \in Seq(Entries) /\ Peer(0) \in Entries
    BY AgedKeeps, EntriesOfClients
  <2>2. Broadcasts(Aged(down, "peer"), Peer(0)) \in Seq(Entries)
    BY <2>1, QueuesKeepEntries
  <2>3. peerAge' \in Ages
    BY <1>15, OlderIsAnAge DEF PeerRenews
  <2>4. QED BY <1>15, <2>2, <2>3 DEF PeerRenews
<1>16. CASE UNCHANGED allVars
  BY <1>16 DEF allVars, awarenessVars
<1>17. QED
  BY <1>1, <1>2, <1>3, <1>4, <1>5, <1>6, <1>8, <1>9, <1>11, <1>12, <1>13, <1>14, <1>15, <1>16
     DEF AwarenessNext, Page, Server, Others

(* The types of the page's awareness and of the server's copy of it.       *)
THEOREM AwarenessTypeCorrect == AwarenessSpec => []AwarenessTypeOK
<1>1. AwarenessInit => AwarenessTypeOK
  <2> SUFFICES ASSUME AwarenessInit PROVE AwarenessTypeOK
    OBVIOUS
  <2>1. /\ alive \in BOOLEAN /\ known \in BOOLEAN /\ serverStates \in BOOLEAN
        /\ fresh \in BOOLEAN /\ peerStates \in BOOLEAN
    BY DEF AwarenessInit
  <2>2. <<>> \in Seq(Entries)
    OBVIOUS
  <2>3. connects = 0 /\ serverAge = 0 /\ peerAge = 1 /\ up = <<>> /\ late = <<>> /\ down = <<>>
        /\ current = "none" /\ old = "none"
    BY DEF AwarenessInit
  <2>4. QED BY <2>1, <2>2, <2>3, EntriesOfClients DEF AwarenessTypeOK
<1>2. QED BY <1>1, AwarenessTypeStep, PTL DEF AwarenessSpec

-----------------------------------------------------------------------------
(***************************************************************************)
(* Connections and what they control.                                      *)
(***************************************************************************)

(* Nobody controls a client the server never heard of, and what is         *)
(* controlled was added by one message, on one connection.                 *)
Controllers ==
  /\ OneController
  /\ ~known => current /= "controls" /\ old /= "controls"

HasNull(queue) == \E i \in 1 .. Len(queue) : ~ queue[i].state

(* A null is the last of its connection. *)
NullIsLast(queue) == \A i \in 1 .. Len(queue) : ~ queue[i].state => i = Len(queue)

(* The page sends over an open socket only, and has one socket at a time. *)
Ends ==
  /\ current = "none" => up = <<>>
  /\ alive /\ ws = "none" => current = "none"
  /\ ws = "CONNECTING" => up = <<>>

(* While no second connection was accepted, the one there is controls a    *)
(* client that is shown: it ceases to with a null, after which the page    *)
(* says no more on it.                                                     *)
FirstConnection ==
  /\ serverStates => current = "controls" \/ old = "controls"
  /\ connects = 0 => current = "none" /\ old = "none" /\ ~known
  /\ old /= "none" => current = "none"
  /\ known /\ current = "free" => up = <<>>
  /\ known /\ old = "free" => late = <<>>
  /\ NullIsLast(up) /\ NullIsLast(late)
  /\ (known /\ current = "free") \/ HasNull(up) => ws \in {"CLOSING", "none"}

ConnectionInv == Controllers /\ Ends /\ (connects < 2 => FirstConnection)

(* What queues say of nulls. *)
LEMMA NullsOfAged ==
  ASSUME NEW q \in Seq(Entries), NEW id
  PROVE  /\ HasNull(Aged(q, id)) => HasNull(q)
         /\ NullIsLast(q) => NullIsLast(Aged(q, id))
         /\ q = <<>> => Aged(q, id) = <<>>
<1>1. /\ Aged(q, id) \in Seq(Entries) /\ Len(Aged(q, id)) = Len(q)
      /\ \A i \in 1 .. Len(q) : Aged(q, id)[i].state = q[i].state
  BY AgedKeeps
<1>2. q = <<>> => Aged(q, id) = <<>>
  BY <1>1
<1>3. QED BY <1>1, <1>2 DEF HasNull, NullIsLast

LEMMA NullsOfAppended ==
  ASSUME NEW q \in Seq(Entries), NEW e \in Entries
  PROVE  /\ HasNull(Append(q, e)) => HasNull(q) \/ ~ e.state
         /\ ~ HasNull(q) => NullIsLast(Append(q, e))
<1>1. /\ Len(Append(q, e)) = Len(q) + 1 /\ Len(q) \in Nat
      /\ \A i \in 1 .. Len(q) : Append(q, e)[i] = q[i]
      /\ Append(q, e)[Len(q) + 1] = e
  OBVIOUS
<1>2. QED BY <1>1 DEF HasNull, NullIsLast

LEMMA NullsOfTail ==
  ASSUME NEW q \in Seq(Entries), q /= <<>>
  PROVE  /\ HasNull(Tail(q)) => HasNull(q)
         /\ NullIsLast(q) => NullIsLast(Tail(q)) /\ (~ Head(q).state => Tail(q) = <<>>)
         /\ ~ Head(q).state => HasNull(q)
<1>1. /\ Len(q) \in Nat \ {0} /\ Head(q) = q[1] /\ Len(Tail(q)) = Len(q) - 1
      /\ Tail(q) \in Seq(Entries)
      /\ \A i \in 1 .. Len(q) - 1 : Tail(q)[i] = q[i + 1]
  OBVIOUS
<1>2. Len(Tail(q)) = 0 => Tail(q) = <<>>
  BY <1>1, NothingInIt
<1>3. HasNull(Tail(q)) => HasNull(q)
  BY <1>1 DEF HasNull
<1>4. ~ Head(q).state => HasNull(q)
  BY <1>1 DEF HasNull
<1>5. ASSUME NullIsLast(q)
      PROVE  NullIsLast(Tail(q)) /\ (~ Head(q).state => Tail(q) = <<>>)
  <2>0. \A i \in 1 .. Len(q) : ~ q[i].state => i = Len(q)
    BY <1>5 DEF NullIsLast
  <2>1. ASSUME NEW i \in 1 .. Len(Tail(q)), ~ Tail(q)[i].state PROVE i = Len(Tail(q))
    <3> DEFINE j == i + 1
    <3>1. j \in 1 .. Len(q) /\ ~ q[j].state
      BY <1>1, <2>1
    <3>2. j = Len(q)
      <4> HIDE DEF j
      <4>1. QED BY <2>0, <3>1
    <3>3. Len(Tail(q)) = Len(q) - 1 /\ i \in Nat
      BY <1>1, <2>1
    <3>4. QED BY <3>2, <3>3
  <2>2. ASSUME ~ Head(q).state PROVE Len(Tail(q)) = 0
    <3>1. 1 \in 1 .. Len(q)
      BY <1>1
    <3>2. Len(q) = 1
      BY <1>1, <2>0, <2>2, <3>1
    <3>3. Len(Tail(q)) = Len(q) - 1
      BY <1>1
    <3>4. QED BY <3>2, <3>3
  <2>3. QED BY <1>2, <2>1, <2>2 DEF NullIsLast
<1>6. QED BY <1>3, <1>4, <1>5

LEMMA NullsOfEmpty == ~ HasNull(<<>>) /\ NullIsLast(<<>>)
BY DEF HasNull, NullIsLast

(* What the provider's own steps do to the socket, but for opening it and  *)
(* for its close event.                                                    *)
SocketMoves ==
  \/ ws' = ws
  \/ ws = "none" /\ ws' = "CONNECTING"
  \/ ws \in {"CONNECTING", "OPEN"} /\ ws' = "CLOSING"

LEMMA ProviderMovesSocket ==
  /\ Connect \/ Params \/ TimerFires \/ CheckInterval \/ SyncStep2 \/ PeerCloses => SocketMoves
  /\ Disconnect \/ Destroy => SocketMoves /\ ws' /= "OPEN"
BY DEF Connect, Params, ParamsResolve, ParamsReject, TimerFires, CheckInterval, SyncStep2,
       PeerCloses, Disconnect, Destroy, ConnectNow, DisconnectNow, SetupWS, Wanted, CloseSocket,
       socketVars, SocketMoves

LEMMA ControllersStep ==
  Controllers /\ [AwarenessNext]_allVars => Controllers'
<1> SUFFICES ASSUME Controllers, [AwarenessNext]_allVars PROVE Controllers'
  OBVIOUS
<1> USE DEF Controllers, OneController
<1>1. CASE UNCHANGED <<known, current, old>>
  BY <1>1
<1>2. CASE Closes
  BY <1>2 DEF Closes, serverVars
<1>3. CASE OnConnect
  BY <1>3 DEF OnConnect, serverVars
<1>4. CASE OnMessage
  BY <1>4 DEF OnMessage, Update, Controlled, serverVars
<1>5. CASE OnOldMessage
  BY <1>5 DEF OnOldMessage, Update, Controlled, serverVars
<1>6. CASE OnClose \/ OnOldClose
  BY <1>6 DEF OnClose, OnOldClose
<1>7. CASE Provider
  BY <1>1, <1>2, <1>7 DEF Provider, Silent, SaysGone, Opens, awarenessVars, serverVars
<1>8. CASE Renew \/ Receive \/ Unload \/ Crash
  BY <1>1, <1>8 DEF Renew, Receive, Unload, Crash, Vanish
<1>9. CASE Outdated \/ Others
  BY <1>1, <1>9 DEF Outdated, Others, TimePasses, PeerRenews, serverVars
<1>10. CASE UNCHANGED allVars
  BY <1>1, <1>10 DEF allVars, awarenessVars, serverVars
<1>11. QED
  BY <1>3, <1>4, <1>5, <1>6, <1>7, <1>8, <1>9, <1>10 DEF AwarenessNext, Page, Server

LEMMA EndsStep ==
  AwarenessTypeOK /\ ProviderHolds /\ Ends /\ [AwarenessNext]_allVars => Ends'
<1> SUFFICES ASSUME AwarenessTypeOK, ProviderHolds, Ends, [AwarenessNext]_allVars PROVE Ends'
  OBVIOUS
<1>0. up \in Seq(Entries) /\ ws \in {"none", "CONNECTING", "OPEN", "CLOSING"}
  BY DEF AwarenessTypeOK, ProviderHolds, FlagsTyped
<1> USE DEF Ends
<1>1. ASSUME SocketMoves, UNCHANGED <<alive, current, up>>, alive PROVE Ends'
  BY <1>1 DEF SocketMoves
<1>2. CASE Provider
  <2>1. CASE /\ Together(Connect \/ Params \/ TimerFires \/ CheckInterval \/ SyncStep2 \/ PeerCloses)
             /\ Silent
    <3>1. SocketMoves /\ alive /\ UNCHANGED <<alive, current, up>>
      BY <2>1, ProviderMovesSocket DEF Together, Silent, awarenessVars, pageVars
    <3>2. QED BY <1>1, <3>1
  <2>2. CASE SaysGone /\ Together(Disconnect \/ Destroy)
    <3>1. /\ SocketMoves /\ ws' /= "OPEN" /\ alive /\ alive' /\ current' = current
          /\ up' = Sends(up, Mine(0, FALSE))
      BY <2>2, ProviderMovesSocket DEF SaysGone, Together, pageVars
    <3>2. QED BY <3>1 DEF Sends, SocketMoves
  <2>3. CASE Opens
    BY <2>3 DEF Opens, Together, WsOpen, pageVars
  <2>4. CASE Closes
    BY <2>4 DEF Closes
  <2>5. QED BY <1>2, <2>1, <2>2, <2>3, <2>4 DEF Provider, Together
<1>3. ASSUME NEW state, NEW what, NEW rest, Bumped(state, what, rest)
      PROVE  up = <<>> /\ (current = "none" \/ ws /= "OPEN") => up' = <<>>
  BY <1>0, <1>3, NullsOfAged DEF Bumped, Forwards, Sends
<1>4. CASE Renew
  <2>1. ws' = ws /\ alive' = alive /\ current' = current /\ Bumped(TRUE, "same", down)
    BY <1>4 DEF Renew, vars, runVars, socketVars, pageVars
  <2>2. QED BY <1>3, <2>1
<1>5. CASE Receive
  <2>1. ws' = ws /\ alive' = alive /\ current' = current
        /\ (StillHere \/ up' = up)
    BY <1>5 DEF Receive, vars, runVars, socketVars
  <2>2. QED BY <1>3, <2>1 DEF StillHere
<1>6. CASE Unload
  <2>1. ws' = "none" /\ ~ alive' /\ current' = current /\ Bumped(FALSE, "removed", <<>>)
    BY <1>6 DEF Unload, Vanish
  <2>2. QED BY <1>3, <2>1
<1>7. CASE Crash
  BY <1>7 DEF Crash, Vanish
<1>8. CASE OnConnect
  BY <1>8 DEF OnConnect, vars, runVars, socketVars, pageVars
<1>9. CASE OnMessage
  <2>1. /\ ws' = ws /\ alive' = alive /\ current /= "none" /\ up /= <<>>
        /\ current' \in {current, "controls", "free"}
    BY <1>9 DEF OnMessage, Controlled, serverVars, vars, runVars, socketVars, pageVars
  <2>2. QED BY <2>1
<1>10. CASE OnOldMessage \/ OnOldClose \/ Outdated
  <2>1. UNCHANGED <<ws, alive, current, up>>
    BY <1>10 DEF OnOldMessage, OnOldClose, Outdated, vars, runVars, socketVars, pageVars
  <2>2. QED BY <2>1
<1>11. CASE OnClose
  BY <1>11 DEF OnClose, vars, runVars, socketVars, pageVars
<1>12. CASE Others
  BY <1>12 DEF Others, TimePasses, PeerRenews, vars, runVars, socketVars, pageVars
<1>13. CASE UNCHANGED allVars
  BY <1>13 DEF allVars, awarenessVars, vars, runVars, socketVars, pageVars
<1>14. QED
  BY <1>2, <1>4, <1>5, <1>6, <1>7, <1>8, <1>9, <1>10, <1>11, <1>12, <1>13
     DEF AwarenessNext, Page, Server

LEMMA FirstConnectionStep ==
  ASSUME AwarenessTypeOK, ProviderHolds, Controllers, Ends, connects < 2 => FirstConnection,
         [AwarenessNext]_allVars, connects' < 2
  PROVE  FirstConnection'
<1>1. /\ up \in Seq(Entries) /\ late \in Seq(Entries)
      /\ ws \in {"none", "CONNECTING", "OPEN", "CLOSING"}
  BY DEF AwarenessTypeOK, ProviderHolds, FlagsTyped
<1>2. \A state \in BOOLEAN : Mine(0, state) \in Entries /\ Mine(0, state).state = state
  BY EntriesOfClients DEF Mine
<1> USE DEF FirstConnection
<1>3. ASSUME UNCHANGED <<known, serverStates, current, old, up, late, connects>>,
             ws' = ws \/ (SocketMoves /\ alive)
      PROVE  FirstConnection'
  <2>1. FirstConnection
    BY <1>3
  <2>2. CASE ws' = ws
    BY <1>3, <2>1, <2>2 DEF HasNull, NullIsLast
  <2>3. CASE ws = "none" /\ ws' = "CONNECTING" /\ alive
    <3>1. current = "none" /\ up = <<>>
      BY <2>3 DEF Ends
    <3>2. ~ HasNull(up)
      BY <3>1, NullsOfEmpty
    <3>3. QED BY <1>3, <2>1, <3>1, <3>2 DEF HasNull, NullIsLast
  <2>4. CASE ws' = "CLOSING"
    BY <1>3, <2>1, <2>4 DEF HasNull, NullIsLast
  <2>5. QED BY <1>3, <2>2, <2>3, <2>4 DEF SocketMoves
<1>4. CASE Provider
  <2>1. CASE /\ Together(Connect \/ Params \/ TimerFires \/ CheckInterval \/ SyncStep2 \/ PeerCloses)
             /\ Silent
    <3>1. SocketMoves /\ alive
          /\ UNCHANGED <<known, serverStates, current, old, up, late, connects>>
      BY <2>1, ProviderMovesSocket DEF Together, Silent, awarenessVars, pageVars, serverVars
    <3>2. QED BY <1>3, <3>1
  <2>2. CASE SaysGone /\ Together(Disconnect \/ Destroy)
    <3>1. /\ SocketMoves /\ ws' /= "OPEN" /\ alive
          /\ UNCHANGED <<known, serverStates, current, old, late, connects>>
          /\ up' = Sends(up, Mine(0, FALSE))
      BY <2>2, ProviderMovesSocket DEF SaysGone, Together, pageVars, serverVars
    <3>2. CASE up' = up
      BY <1>3, <3>1, <3>2
    <3>3. CASE up' = Append(up, Mine(0, FALSE)) /\ ws = "OPEN"
      <4>1. FirstConnection /\ ws' = "CLOSING"
        BY <3>1, <3>3 DEF SocketMoves
      <4>2. ~ HasNull(up) /\ ~ (known /\ current = "free")
        BY <3>3, <4>1
      <4>3. NullIsLast(up')
        BY <1>1, <1>2, <3>3, <4>2, NullsOfAppended
      <4>4. NullIsLast(late)'
        BY <3>1, <4>1 DEF NullIsLast
      <4>5. QED BY <3>1, <4>1, <4>2, <4>3, <4>4 DEF NullIsLast
    <3>4. QED BY <3>1, <3>2, <3>3 DEF Sends
  <2>3. CASE Opens
    <3>1. /\ ws = "CONNECTING" /\ ws' = "OPEN" /\ current /= "none" /\ up = <<>>
          /\ up' = Append(up, Mine(0, TRUE))
          /\ UNCHANGED <<known, serverStates, current, old, late, connects>>
      BY <2>3 DEF Opens, Together, WsOpen, Ends, serverVars
    <3>2. FirstConnection /\ ~ (known /\ current = "free")
      BY <3>1
    <3>3. ~ HasNull(up') /\ NullIsLast(up')
      BY <1>1, <1>2, <3>1, NullsOfAppended, NullsOfEmpty
    <3>4. NullIsLast(late)' /\ ~ HasNull(up)'
      BY <3>1, <3>2, <3>3 DEF NullIsLast, HasNull
    <3>5. QED BY <3>1, <3>2, <3>3, <3>4 DEF NullIsLast
  <2>4. CASE Closes
    <3>1. /\ ws' = "none" /\ current' = "none" /\ up' = <<>>
          /\ UNCHANGED <<known, serverStates, connects>>
          /\ \/ current = "none" /\ UNCHANGED <<old, late>>
             \/ current /= "none" /\ old = "none" /\ old' = current /\ late' = up
      BY <2>4 DEF Closes, Together, WsClose, serverVars
    <3>2. FirstConnection
      BY <3>1
    <3>3. NullIsLast(up') /\ NullIsLast(late')
      BY <3>1, <3>2, NullsOfEmpty
    <3>4. NullIsLast(up)' /\ NullIsLast(late)'
      BY <3>3 DEF NullIsLast
    <3>5. QED BY <3>1, <3>2, <3>4
  <2>5. QED BY <1>4, <2>1, <2>2, <2>3, <2>4 DEF Provider, Together
<1>5. ASSUME NEW state \in BOOLEAN, NEW what, NEW rest, Bumped(state, what, rest), connects < 2
      PROVE  /\ NullIsLast(up') /\ NullIsLast(late')
             /\ HasNull(up') => HasNull(up) \/ (~ state /\ current /= "none")
             /\ up = <<>> /\ ws /= "OPEN" => up' = <<>>
             /\ late = <<>> => late' = <<>>
  <2>1. FirstConnection
    BY <1>5
  <2> DEFINE aged == Aged(up, "me")
  <2>2. /\ aged \in Seq(Entries) /\ NullIsLast(aged) /\ (HasNull(aged) => HasNull(up))
        /\ (up = <<>> => aged = <<>>)
    BY <1>1, <2>1, NullsOfAged, AgedKeeps
  <2>3. late' = Aged(late, "me")
    BY <1>5 DEF Bumped
  <2>4. NullIsLast(late') /\ (late = <<>> => late' = <<>>)
    BY <1>1, <2>1, <2>3, NullsOfAged
  <2>5. up' = aged \/ (up' = Append(aged, Mine(0, state)) /\ ws = "OPEN" /\ current /= "none")
    BY <1>5 DEF Bumped, Forwards, Sends
  <2> HIDE DEF aged
  <2>6. CASE up' = aged
    BY <2>2, <2>4, <2>6
  <2>7. CASE up' = Append(aged, Mine(0, state)) /\ ws = "OPEN" /\ current /= "none"
    <3>1. ~ HasNull(aged)
      BY <2>1, <2>2, <2>7
    <3>2. NullIsLast(up') /\ (HasNull(up') => ~ state)
      BY <1>2, <2>2, <2>7, <3>1, NullsOfAppended
    <3>3. QED BY <2>4, <2>7, <3>2
  <2>8. QED BY <2>5, <2>6, <2>7
<1>6. ASSUME Bumped(TRUE, "same", down) \/ StillHere, ws' = ws,
             UNCHANGED <<known, serverStates, current, old, connects>>
      PROVE  FirstConnection'
  <2>1. /\ NullIsLast(up') /\ NullIsLast(late') /\ (HasNull(up') => HasNull(up))
        /\ (up = <<>> /\ ws /= "OPEN" => up' = <<>>) /\ (late = <<>> => late' = <<>>)
    BY <1>5, <1>6 DEF StillHere
  <2>2. /\ NullIsLast(up)' /\ NullIsLast(late)' /\ (HasNull(up)' => HasNull(up))
    BY <2>1 DEF NullIsLast, HasNull
  <2>3. FirstConnection
    BY <1>6
  <2>4. QED BY <1>6, <2>1, <2>2, <2>3
<1>7. CASE Renew \/ Receive
  <2>1. UNCHANGED <<ws, known, serverStates, current, old, connects>>
    BY <1>7 DEF Renew, Receive, vars, runVars, socketVars
  <2>2. \/ Bumped(TRUE, "same", down) \/ StillHere
        \/ UNCHANGED <<up, late>>
    BY <1>7 DEF Renew, Receive
  <2>3. QED BY <1>3, <1>6, <2>1, <2>2
<1>8. CASE Unload \/ Crash
  <2>1. ws' = "none" /\ UNCHANGED <<known, serverStates, current, old, connects>>
    BY <1>8 DEF Unload, Crash, Vanish
  <2>2. FirstConnection
    BY <2>1
  <2>3. CASE Unload
    <3>1. /\ NullIsLast(up') /\ NullIsLast(late')
          /\ (up = <<>> /\ ws /= "OPEN" => up' = <<>>) /\ (late = <<>> => late' = <<>>)
      BY <1>5, <2>1, <2>3 DEF Unload
    <3>2. NullIsLast(up)' /\ NullIsLast(late)'
      BY <3>1 DEF NullIsLast
    <3>3. QED BY <2>1, <2>2, <3>1, <3>2
  <2>4. CASE Crash
    <3>1. UNCHANGED <<up, late>>
      BY <2>4 DEF Crash
    <3>2. QED BY <2>1, <2>2, <3>1 DEF NullIsLast
  <2>5. QED BY <1>8, <2>3, <2>4
<1>9. CASE OnConnect
  <2>1. /\ ws' = ws /\ current = "none" /\ current' = "free"
        /\ UNCHANGED <<known, serverStates, old, up, late>>
        /\ connects' = IF connects < 2 THEN connects + 1 ELSE connects
    BY <1>9 DEF OnConnect, serverVars, vars, runVars, socketVars
  <2>2. connects = 0 /\ connects' = 1
    BY <2>1 DEF AwarenessTypeOK
  <2>3. FirstConnection /\ old = "none" /\ ~ known
    BY <2>2
  <2>4. QED BY <2>1, <2>2, <2>3 DEF NullIsLast, HasNull
<1>10. CASE OnMessage
  <2>1. /\ current /= "none" /\ up /= <<>> /\ up' = Tail(up)
        /\ UNCHANGED <<ws, old, late, connects>>
    BY <1>10 DEF OnMessage, vars, runVars, socketVars
  <2>2. FirstConnection /\ old = "none"
    BY <2>1
  <2>3. /\ NullIsLast(up') /\ (HasNull(up') => HasNull(up))
        /\ (~ Head(up).state => up' = <<>> /\ HasNull(up))
    BY <1>1, <2>1, <2>2, NullsOfTail
  <2>4. /\ NullIsLast(up)' /\ (HasNull(up)' => HasNull(up)) /\ NullIsLast(late)'
    BY <2>1, <2>2, <2>3 DEF NullIsLast, HasNull
  <2>5. ~ (known /\ current = "free")
    BY <2>1, <2>2
  <2>6. CASE UNCHANGED <<serverVars, current>>
    BY <2>1, <2>2, <2>3, <2>4, <2>5, <2>6 DEF serverVars
  <2>7. CASE Update(Head(up)) /\ current' = Controlled(current, Head(up))
    <3>1. current = "controls" \/ ~ known
      BY <2>1, <2>5 DEF AwarenessTypeOK
    <3>2. /\ known' /\ serverStates' = Head(up).state
          /\ current' = IF Head(up).state THEN "controls" ELSE "free"
      BY <2>7, <3>1 DEF Update, Controlled
    <3>3. connects /= 0
      BY <2>1, <2>2
    <3>4. QED BY <2>1, <2>2, <2>3, <2>4, <3>2, <3>3
  <2>8. QED BY <1>10, <2>6, <2>7 DEF OnMessage
<1>11. CASE OnOldMessage
  <2>1. /\ old /= "none" /\ late /= <<>> /\ late' = Tail(late)
        /\ UNCHANGED <<ws, current, up, connects>>
    BY <1>11 DEF OnOldMessage, vars, runVars, socketVars
  <2>2. FirstConnection /\ current = "none"
    BY <2>1
  <2>3. NullIsLast(late') /\ (~ Head(late).state => late' = <<>>)
    BY <1>1, <2>1, <2>2, NullsOfTail
  <2>4. NullIsLast(late)' /\ (HasNull(up)' <=> HasNull(up)) /\ NullIsLast(up)'
    BY <2>1, <2>2, <2>3 DEF NullIsLast, HasNull
  <2>5. ~ (known /\ old = "free")
    BY <2>1, <2>2
  <2>6. CASE UNCHANGED <<serverVars, old>>
    BY <2>1, <2>2, <2>3, <2>4, <2>5, <2>6 DEF serverVars
  <2>7. CASE Update(Head(late)) /\ old' = Controlled(old, Head(late))
    <3>1. old = "controls" \/ ~ known
      BY <2>1, <2>5 DEF AwarenessTypeOK
    <3>2. /\ known' /\ serverStates' = Head(late).state
          /\ old' = IF Head(late).state THEN "controls" ELSE "free"
      BY <2>7, <3>1 DEF Update, Controlled
    <3>3. connects /= 0
      BY <2>1, <2>2
    <3>4. QED BY <2>1, <2>2, <2>3, <2>4, <3>2, <3>3
  <2>8. QED BY <1>11, <2>6, <2>7 DEF OnOldMessage
<1>12. CASE OnClose
  <2>1. /\ current /= "none" /\ current' = "none" /\ up' = <<>>
        /\ UNCHANGED <<ws, known, old, late, connects>>
        /\ serverStates' => serverStates /\ current /= "controls"
    BY <1>12 DEF OnClose, Removed, vars, runVars, socketVars
  <2>2. FirstConnection
    BY <2>1
  <2>3. NullIsLast(up') /\ ~ HasNull(up') /\ NullIsLast(late)'
    BY <2>1, <2>2, NullsOfEmpty DEF NullIsLast
  <2>4. NullIsLast(up)' /\ ~ HasNull(up)'
    BY <2>3 DEF NullIsLast, HasNull
  <2>5. QED BY <2>1, <2>2, <2>3, <2>4
<1>13. CASE OnOldClose
  <2>1. /\ old /= "none" /\ old' = "none" /\ late' = <<>>
        /\ UNCHANGED <<ws, known, current, up, connects>>
        /\ serverStates' => serverStates /\ old /= "controls"
    BY <1>13 DEF OnOldClose, Removed, vars, runVars, socketVars
  <2>2. FirstConnection
    BY <2>1
  <2>3. NullIsLast(late') /\ NullIsLast(up)' /\ (HasNull(up)' <=> HasNull(up))
    BY <2>1, <2>2, NullsOfEmpty DEF NullIsLast, HasNull
  <2>4. NullIsLast(late)'
    BY <2>3 DEF NullIsLast
  <2>5. QED BY <2>1, <2>2, <2>3, <2>4
<1>14. CASE Outdated
  <2>1. ~ serverStates' /\ UNCHANGED <<ws, known, current, old, up, late, connects>>
    BY <1>14 DEF Outdated, vars, runVars, socketVars
  <2>2. FirstConnection
    BY <2>1
  <2>3. QED BY <2>1, <2>2 DEF NullIsLast, HasNull
<1>15. CASE Others \/ UNCHANGED allVars
  BY <1>3, <1>15
     DEF Others, TimePasses, PeerRenews, allVars, awarenessVars, serverVars, vars, runVars,
         socketVars
<1>16. QED
  BY <1>4, <1>7, <1>8, <1>9, <1>10, <1>11, <1>12, <1>13, <1>14, <1>15
     DEF AwarenessNext, Page, Server

LEMMA ConnectionsCorrect == AwarenessSpec => []ConnectionInv
<1>1. ASSUME AwarenessInit PROVE ConnectionInv
  <2>1. /\ ~ known /\ ~ serverStates /\ current = "none" /\ old = "none"
        /\ up = <<>> /\ late = <<>>
    BY <1>1 DEF AwarenessInit
  <2>2. QED
    BY <2>1, NullsOfEmpty DEF ConnectionInv, Controllers, OneController, Ends, FirstConnection
<1>2. AwarenessTypeOK /\ ProviderHolds /\ ConnectionInv /\ [AwarenessNext]_allVars
        => ConnectionInv'
  BY ControllersStep, EndsStep, FirstConnectionStep DEF ConnectionInv
<1>3. QED BY <1>1, <1>2, AwarenessTypeCorrect, ProviderOfAPage, PTL DEF AwarenessSpec

-----------------------------------------------------------------------------
(***************************************************************************)
(* Theorems.                                                               *)
(***************************************************************************)

(* The flags of the provider say what its socket does until the page goes, *)
(* and after.                                                              *)
THEOREM FlagsAgreeOnThePage == AwarenessSpec => []FlagsAgree
<1>1. ProviderHolds => FlagsAgree
  BY DEF ProviderHolds, ProviderInv
<1>2. QED BY <1>1, ProviderOfAPage, PTL

(* No two connections of a client control its id, however they overlap and *)
(* whatever order their messages come in.                                  *)
THEOREM OneConnectionControls == AwarenessSpec => []OneController
<1>1. ConnectionInv => OneController
  BY DEF ConnectionInv, Controllers
<1>2. QED BY <1>1, ConnectionsCorrect, PTL

(* A client that connected once is not shown once its connection is        *)
(* closed: until then the connection controls it while it is shown.        *)
THEOREM OnceClosedIsRemoved == AwarenessSpec => []ClosedIsRemoved
<1>1. ConnectionInv => ClosedIsRemoved
  BY DEF ConnectionInv, FirstConnection, ClosedIsRemoved
<1>2. QED BY <1>1, ConnectionsCorrect, PTL
=============================================================================
