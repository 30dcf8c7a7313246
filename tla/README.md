# PartyServer, verified

TLA+ models of the packages of this repository that keep state: the two reconnecting clients, the
Durable Object server and its connections, the task scheduler, Yjs document sync, table sync,
presence, publish/subscribe, and WebRTC tracks: their devices, their broadcasting and their batching. TLC
checks each model on small instances; TLAPS proves, for every value of their constants, the
safety properties of all of them.

Every definition is translated from the TypeScript under `src/packages`; the `map` of `PROJECT.json`
names the lines. What the code uses and does not contain (Durable Objects, Yjs, WebSockets, IndexedDB,
the SFU) is modelled from how it is used and is listed under [Assumptions](#assumptions).

Contents: [the system](#the-system) · [models](#the-models) · [runs](#runs-and-bounds) ·
[fairness](#fairness) · [assumptions](#assumptions) · [proofs](#proofs) ·
[where code and documentation differ](#where-code-and-documentation-differ) ·
[not modelled](#not-modelled) · [plan](#plan)

## The system

| Component | State | Operations | Talks to | Hard because |
|---|---|---|---|---|
| **partysocket** `ws.ts` | one WebSocket, a retry count, a lock, two timers, a queue of messages, flags | `close`, `reconnect`, `send`; open, message, close, error events; url and protocols providers | any WebSocket server | listeners call back into it in mid-handler; a promise chain outlives `close()`; timers race events |
| **partyserver** `index.ts` | `#status`, name, what is stored | `fetch`, `setName`, `webSocketMessage/Close/Error`, `alarm`, `broadcast` | connection managers, the platform | events interleave at every await; the object starts lazily, hibernates, resets |
| **partyserver** `connection.ts` | a Map by connection id, or the platform's list and attachments | `accept`, `getConnection(s)`, removal | Server | ids are the client's, and clients come back before they have gone |
| **partywhen** | an SQL table of tasks, one alarm | `scheduleTask`, `cancelTask`, `alarm`, constructor | platform's alarm | `alarm()` awaits callbacks, and calls change the table meanwhile; crashes and repeated alarms |
| **y-partyserver** chunking | a batch of chunks and its marker | `sendChunked`, `handleChunked` | YServer, provider | one closure serves all connections; connections break |
| **y-partyserver** provider | a WebSocket, four flags, timers, a failure count | `connect`, `disconnect`, `destroy`, events, check interval | YServer, BroadcastChannel | `connect` awaits params; timers of an older life |
| **y-partyserver** sync | a Yjs document at each end and in storage | step 1, step 2, update, `onLoad`, `onSave`, debounce | provider and server | edits at any moment, breaks, crashes of an in-memory document |
| **y-partyserver** awareness | states by client id, ids by connection | update, `closeConn` | provider and server | a client's old and new connections overlap |
| **partysync** | a table of records; for each page its view and IndexedDB | sync, action, broadcast | partyfn, partysocket | syncs, broadcasts, answers and the store's reads arrive in any order |
| **partyfn** | promises by id | `call`, `resolve`, timeout | partysocket | answers that come after the timeout |
| **partysub** | each connection's topics | subscribe, publish by message or request, call of all nodes | many Servers | several objects, calls that fail, names that are cut apart |
| **partytracks** dispatchers | arrays, responses, a task queue | push, pull, close | SFU over HTTP | timers, tasks and unsubscription in any order; arrays that overflow |
| **partytracks** devices | an order of devices, one track, its subscribers | subscribe, `getUserMedia`, health tests, `setPreferredDevice` | browser | what was asked cannot be cancelled, and failures change the order that is being tried |
| **partytracks** broadcast tracks | two flags, a shared source, subscribers | enable, disable, start, stop, toggle, push, monitor | `resilientTrack$`, `screenshare$`, `push` | one call runs through pipes that share a source and disable each other |

`hono-party` and the React hooks are thin layers over these; `partyagent`, `partybase`, `partyflow`,
`partyhard`, `partysession` and `partysmart` hold no code.

What makes each one correct, in a sentence:

* *socket*: while it is wanted it is never idle, there is one connection at most, every accepted message
  is handed over once and in order, and open, message and close events alternate as a program expects;
* *server*: nothing of the program runs before `onStart()` has resolved, which runs once in each life;
  an id leads to its client's newest connection, and `broadcast()` reaches just the open ones;
* *scheduler*: the alarm covers what is to come, and no task runs early, twice or never;
* *chunking*: it cannot be seen from outside;
* *provider*: flags, socket and timers agree, and it is never idle while it should connect;
* *document sync*: two connected copies lack nothing of each other that is not under way or asked for,
  and end up equal; what the server has is written;
* *partysync*: a page that has lost nothing shows just the table;
* *partysub*: who is subscribed when a message is published has it, from one node and in one go;
* *awareness*: who is there is shown in the end, who has gone is not, whichever connection says so;
* *tracks*: every entry is sent, within the limit, and its caller hears of the request it was sent in;
* *devices*: a track is on for the subscriber that is there, one at a time, and each subscriber is given
  one or an error;
* *broadcast tracks*: content is sent just when it was started, `isBroadcasting$` tells so, and the device
  is in use no longer than somebody wants it.

## The models

| Module | Code | How they correspond |
|---|---|---|
| `ReconnectingSocket` | `partysocket/src/ws.ts` | A handler runs to its end except where it calls listeners, which may call the class again. The rest of an interrupted handler is on `stack`: events to dispatch and `_connect()` calls to make. `attempt` is how far the promise chain of `_connect()` has come. |
| `Outbox` | (abstract) `send()` | What `send()` promises: messages are handed over directly when none waits, buffered up to a limit or discarded, and flushed in order. `ReconnectingSocket` implements it (`ImplementsOutbox`), with `messageQueue` as `pending`. |
| `ConnectionManager` | `partyserver/src/connection.ts` | Both managers: `byId` is the in-memory Map, `PlatformSockets` the platform's list. `removers` are the sockets whose own close listener removes them. Nothing keeps a client from coming back before its last socket has gone; `overlapped` remembers the sockets to which that happened. |
| `PartyServer` | `partyserver/src/index.ts` | Extends `ConnectionManager`. A *task* is one event in flight; `pc` is the await it stands at; An event arrives, and is delivered when no callback of `blockConcurrencyWhile` runs. `gate` is the task in such a callback and `depth` how many it has entered, as `setName()` awaits `#initialize()` in one and that asks for another. `Reset` is a throw inside them, `Evict` hibernation or a crash. |
| `Scheduler` | `partywhen/src/index.ts` | Rows with `id`, type and time; the number of the call that made a row stands for its callback. `running`, `due` and `current` are the local state of `alarm()` across its awaits; `ended` says that the callback is through and its answer still on the way, when a crash cuts the run short before the DELETE (`CutShort`). |
| `Chunking` | `y-partyserver/src/shared/chunking.ts` | Slices name the bytes they hold; markers carry id, size and count. One `batch` for all connections, as in the code. |
| `YProvider` | `y-partyserver/src/provider/index.ts` | `WebsocketProvider` and `YProvider`: flags, the timers set by close events (`timers`), and the calls of `connect()` that await params (`fetching`). |
| `YSync` | `y-partyserver` server and provider | A document is a set of updates. Each connection is two queues; step 1 carries what the sender has, step 2 and updates carry updates. `dirty` is the debounce. |
| `YAwareness` | the same two files | Extends `YProvider`: the server's `meta` and `states` for one page, the entries of `doc.conns` of its connection (`current`) and of an earlier one (`old`), and the queues between. Clocks are modelled by how far they are behind their owner's. |
| `PartySync` | `partysync` server, `useSync`, `Persist`; `partyfn` | A table with tombstones, the pages' life from `getAll()` to the sync, stores that survive pages, `pending` calls and timeouts. `overlooked` collects the changes that each browser can miss because of how syncs go by the time of the latest record. |
| `PubSub` | `partysub/src/server` | Nodes by location from `generateIdsGroupedByLocation`, chosen once in `Init`, with the rounding of its floating point; `Location` are the locations that count, so that weights which are all zero are the case of its nine defaults with a weight of one each; names of rooms as sequences of the parts between hyphens, so that `broadcastPubSubMessage` cuts them the way the code does. |
| `RoomFeed` | (abstract) a room | What a room promises its subscribers, as if it were in one place: a message is given only to those who want its topic in its room at that moment, and is over only when nobody misses it. `PubSub` implements it (`ImplementsFeed`): what a client wants is what its patterns match, and a message is under way while a call of `publish()` with it is. |
| `PartyTracks` | `partytracks/src/client/Peer.utils.ts`, `PartyTracks.ts` | Arrays of a dispatcher have an identity, as the closures of timers keep them. A bulk request, its timer, task and promise share a number, in the order of their timers. `live` are the mids that the SFU keeps open: a mid is a track and, if it is pulled, the request that pulled it. The connection comes up when it likes and may go down; a close that is due meanwhile is dropped, and a pull whose transceiver is late is tried again, without a close; `unclosed` remembers both. |
| `ResilientTrack` | `partytracks/src/client/resilientTrack$.ts`, `deviceManager.ts`, `trackIsHealthy.ts` | A slot is a call of `acquireTrack()` and the track that comes of it; `mine` says whether its subscriber is the one that is open. `position` is how far `concat` has come in the list of devices. |
| `BroadcastTrack` | `partytracks/src/client/makeBroadcastTrack.ts`, `getScreenshare.ts`, `screenshare$.ts` | `flags` are the BehaviorSubjects; each action of the program or the source runs through the pipes of every track (`Emit`). The source is what `resilientTrack$` and `screenshare$` have in common. |

`MC*` modules give the constants values for TLC; `*_proofs` modules hold the theorems.
Definitions marked `mutant` are plausible errors in the code, for the check that a property can fail; no
specification uses them.

## Runs and bounds

Counters that would grow for ever are bounded in guards (`Max...`, `Horizon`) or saturate (`RetryCap`,
`MaxBackoff`, `MaxTimers`): a saturated counter stands for every larger value, and the code only compares
with it. Bounds are chosen so that everything a component can be in the middle of can happen twice:
a call that interrupts one that interrupts another, two events in flight during a start, a
connection that breaks after it was made again.

| Run | Shows | Bounds and why they are enough |
|---|---|---|
| `socket` | `NeverIdle`, `NoLeakedSocket`, `EventsAlternate`, `Reopens`, and that the socket implements `Outbox` | three calls of `close`/`reconnect`, from listeners and outside, three sends and a queue of two: a call in each of two nested handlers, and one message more than fits; one retry, or any number |
| `server` | `onStart` first, events answered, `broadcast` complete, the in-memory Map exact | both kinds of server; two clients, one with two sockets one after the other or at once; two events in flight; two lives |
| `scheduler` | the alarm covers what is to come; no task runs again but one whose answer was on the way; the constructor's `alarm()` ends | two ids, three calls (one replaces, one comes during a callback), times 0 to 3 and past ones, one crash |
| `chunking` | what is put together is one whole message; chunking cannot be seen while batches take turns | two connections, two messages each; sizes of one chunk, one and a half, and two (chunks of 2); a loss and an eviction |
| `presence` | the provider's flags and socket agree and it connects; one connection at most controls a client's state; a close removes it; who is there is shown, who has gone is not | three calls, with params that are there at once or come late; a connection that overlaps the one before it; messages that come late, while a client's clock goes on only when its earlier messages have come (`MaxBehind = 0`); any number of renewals and timeouts |
| `ysync` | nothing is missed, `synced` is true, what is not written will be, copies converge | two clients, an edit each, two breaks, a crash, saves that fail |
| `sync` | a first page agrees with the table; a page that comes back misses nothing | two browsers, two records, two calls; either one page each with a break and late answers, in one second, or two pages each and two seconds |
| `tracks` | entries are sent in time, callers get their own request, nothing leaks but what was left while the connection was not up or came late | three pushes and a pull with a limit of two: an array overflows; four pushes, pulls or retries; one task that throws; the connection up or down at any moment |
| `devices` | no track is left on, one at a time, a subscriber is given a track or an error | two devices, of each kind of health; three slots, with one kept for each check under way; one change of the list or the preference, any number of subscribers, failures and checks |
| `broadcast` | `isBroadcasting$` is true, only what was started is sent, something is sent in the end | one track, or a screen's two; each option; no bound on calls, as the state is finite |
| `pubsub` | nobody misses a message, one node sends it and in one go, and the nodes implement `RoomFeed`: rooms do not mix, a message is over when nobody misses it | two subscribers, rooms `x` and `x-y`, two locations with up to three nodes (two in one place and one in another), calls that fail, lists of patterns that overlap and that do not |
| `scheduler_replaced` | TLC finds what [is below](#where-code-and-documentation-differ) | the smallest that shows it |

Each module states a type invariant. They are theorems but for those of `Chunking`, whose proof has types
of its own (`ChunksTyped`), and of `ResilientTrack`, which needs the length of what `SelectSeq` returns. No
run lists any, for they say little that the properties do not need, and each can be added to its module's
configuration.

Four conditions restrict properties to the situations in which they are meant to hold, so that one
difference does not hide the rest:

* options are chosen once, in `Init`, and do not change: `maxRetries` of the socket, `hibernate` of the
  server, `asyncParams` of the provider, `turns` of chunking (nobody begins a batch while another's is
  open), `setting` of partysync, of the devices and of broadcast tracks. One run checks all choices;
* `ChunkingUnseen` speaks of behaviours that take turns and lose nothing, `OwnRequest` and `NoLeak` of
  dispatchers whose array never overflowed, `OneAtATime` of tracks no two checks of which overlapped,
  `SettlesInOrder` of devices whose order does not change with failures, `OnlyMeant` of one track;
* five properties name what the code does not do for some, and claim the rest of them: `BroadcastReachesAll`
  and `MapIsExact` leave out, in memory, the sockets that `overlapped` with another of their client;
  `NothingMissing` the records that a browser has `overlooked`; `NoLeak` the mids that were left `unclosed`;
  `NotRunAgain` a task whose answer was on the way when `alarm()` was cut short. That each of these should be
  empty is stated as well, and is [refuted](#where-code-and-documentation-differ) where the repository says so;
* a client's `Id` is its own. `PastTimes` allows tasks for a time that has passed.

`failed` (YSync), `whole`, `fresh` and `overlooked` (PartySync), `got`, `owed` (PubSub), `overlapped`
(ConnectionManager and ResilientTrack), `done` and `promised` (Scheduler), `unclosed` (PartyTracks), `meant`
(BroadcastTrack), `connects` (YAwareness) and `handed` (socket) are history variables: they
record what properties speak of, and no guard of the code's reads them.

Symmetry is used in the runs `sync`, `tracks` and `pubsub`, whose constants are treated alike and whose
properties are invariants, an action property or a refinement, without fairness. Runs of systems that stop when bounds are used
up do not check deadlock; those of `server`, `scheduler`, `ysync` and `pubsub` do.

## Fairness

Fairness is given to what the platform does by itself and never to the program or user:

* `socket`, `presence`: timers fire and settled promises run (weak); a handshake (and a url provider) that
  is tried again and again succeeds at last, and a closing socket closes (strong, as each attempt may
  fail first). Without it a network that is down for ever refutes `Reopens` and `Connects`;
* `server`: each event in flight goes on (weak), which the platform grants unless a callback of
  `blockConcurrencyWhile` holds it back: from delivery, or from entering a callback of its own.
  `EveryEventAnswered` says that these, one inside the other in `setName()`, do not lock each other or the
  events that wait, and that every way through a handler ends;
* `scheduler`: the clock ticks, a due alarm fires, and a callback that is tried again and again returns
  at last (strong);
* `ysync`: messages arrive, and a client whose connection broke connects again (that is what `Reopens`
  and `Connects` show of the sockets); `onSave()` is called but may fail, which `Converges` allows for.
* `presence`: messages arrive, connections that are closed are closed at last, and the check intervals of
  y-protocols run, in the page and at the server, which outdates what is not renewed;
* `devices`, `broadcast`: the browser answers what it is asked (`getUserMedia`, `getDisplayMedia`, the
  list of devices, a test of health), in one way or another.

`chunking`, `sync`, `tracks` and `pubsub` check safety only. `FairSpec` of `PartyTracks` (timers, tasks, promise
handlers, tracks that come or are given up) is for `PullSettles`, below.

## Assumptions

About what is not in `src/packages`:

* *Durable Objects.* No event is delivered while a callback of `blockConcurrencyWhile` runs, but a call of it
  inside that callback is let in, as `setName()` needs; if a callback throws the object is reset. A write before
  an await is durable. One alarm; one that fails is run again.
  `send()` to a connection that has gone does not throw. An eviction happens between events.
* *WebSockets* are queues, one each way, lost together; nothing overtakes.
* *Calls between Durable Objects* arrive once or fail, in any order.
* *Yjs*: a document is the set of updates applied to it; a state vector tells which.
* *y-protocols' awareness*: `applyAwarenessUpdate` accepts what has a greater clock, or takes away a state of
  the same clock; a client renews its own state, and removes those that were not renewed.
* *Browser*: `setTimeout(0)` callbacks run in the order set, microtasks before them; an IndexedDB `put`
  is seen by later reads. Listeners of the program return, and may call the modelled class.
* *partytracks*: one session; `tracks/new` is answered whether or not the connection is up yet, and opens what
  it names or fails as a whole, or says which of its tracks it lacks; the `track` event of a pull comes
  later, or not within the five seconds that the code waits for it.
* *Media*: `getUserMedia` resolves or rejects as the device's health says; a track may end at any time; a
  shared source (`share()` with a `ReplaySubject`) is reset with its last subscriber and replays its value.
* *partysync's* `onAction()` is the program's; the one of `fixtures/todo-sync` is modelled, and it may
  throw.

## Proofs

Each proof module extends its component. Constants are any values that satisfy the module's named
`ASSUME`, which TLC evaluates in every run. The bounds are constants too, so the theorems hold for any
number of calls, clients, tasks, crashes and breaks.

* **`ReconnectingSocket_proofs`.** `IInv` is inductive. `NeverIdle` and `OneConnection` speak of the
  moments between handlers; `IInv` says what is owed inside one: `GoesOn` (the socket lives, or an
  attempt does, or the stack still has the `connect` that will begin one, or retries are used up),
  `LockHeld` (an attempt holds the lock), `StackShape` (which stacks a handler can leave), `TimersInv`
  and `SeenInv`. From it follow the invariants of the run `socket`, `NoSocketIsLeaked` and
  `EventsAreOrdered` (action properties), and `OutboxImplemented`, a refinement by step simulation.
* **`PartyServer_proofs`.** `LifeInv`: a task is in `onStart` exactly when it holds the gate, exactly
  when the status is *starting*, and every task beyond it is in a started, named object. `ConnInv` couples
  the Map with the sockets that overlapped with none, and with the removals still to come: a socket that
  comes takes the entry of its id from those that have it (`AcceptEffect`), and one that goes takes away the
  entry whoever has it, which is then one that overlapped with it. It gives `MapStaysExact` and
  `BroadcastComplete`, with no assumption about how clients come back.
* **`Scheduler_proofs`.** `AlarmInv`: outside `alarm()` the alarm is no later than any upcoming task; inside
  it, the rows read are due. `DoneInv`: a task that has run is in no row at that time, or is the one
  whose answer is on the way (`AnswerComing`); and as `CutShort` forgets just that one, a crash at any other
  moment makes nothing run again.
* **`YAwareness_proofs`.** First the provider by itself: `FlagsAgree` is what makes `NeverIdle` inductive
  (no socket means not connecting and not connected). Awareness interleaves with it and leaves its
  variables alone, so that each theorem about `YProvider` is one about `YAwareness`. `ConnectionInv` then is
  about the client's connections: `Controllers` (two never control its state), `Ends` (the page sends over
  an open socket only) and, until a second connection has been accepted, `FirstConnection`: the state that
  is shown is controlled by that one, and a null is the last that is said on it. `ClosedIsRemoved` needs it,
  as a close takes away what its connection controls and nothing else.
* **`YMessages_proofs`** holds both layers of a Yjs connection. *Documents* (`YSync`): `Coupled(c)` for each
  client is what is `Linked` (which queues may hold messages), `Questioned` (a step 1 is on its way until it
  has been answered), `Missed` (the two inclusions of `NothingMissed` from the moment the server has accepted
  the connection, before the client knows), `Honest` (no message carries what its sender lacks) and
  `Answered` (a step 2 and what follows it cover the document). `NothingMissed` alone is not inductive: what
  a step 1 asks for must be answered with the document as it is when it arrives. *Chunks* (`Chunking`): for
  `AssembledIntact` it is enough that a message whose start marker is on the wire is whole behind it
  (`OnWire`), and that of the message being read the first `k` slices were collected, *perhaps with
  others among them*, while the rest is next on its wire or was lost (`Reading`): the count in the end marker
  tells the two apart. Adding up the slices' lengths is what `handleChunked` does with its total, and
  `SlicesSumUp` shows that it comes to the size. `UnseenInv` says for undisturbed turns that wires are in order
  and the batch holds the next message and nothing else.
* **`PartyTracks_proofs`.** `Dispatcher` (an array with entries has its timer; `Pending`: a response that
  can be shared has a timer that holds the *current* array) and `Owed`: for every caller that waits, its
  entry was sent in its request or an earlier one, or is still in the array of its request's timer.
  `SentByThen` needs the last because an array may be taken by a timer other than its own. Until an
  array overflows, `Alone` (the only timer is that of the response to share) and `OwnEntry` give `OwnRequest`.
  `NoLeak` is about `live`, which no handler reads: `LeakInv` accounts for every mid that is open
  (`Accounted`: its subscriber has it, waits to see it, is about to be told, has asked to close it, or left it
  `unclosed`), for every entry that has not been sent (`Owned`: somebody waits for it) and for mids of
  earlier pulls (`Remains`); `Past` says that what was left is of answers that have come, so that no later
  request takes its mid.
* **`MediaTracks_proofs`.** *Devices* (`ResilientTrack`): a slot that is on, or still asked for, in the name
  of the subscriber implies that the subscriber is open (`Kept`), and while no two checks of one track
  overlapped it has one slot at most (`Single`). Both are about who owns a slot, so neither the order of the
  devices nor which slot `acquireTrack()` is given matters, and no bound does. *Broadcast tracks*: every step
  ends in `Emit`, so one lemma gives what any step does to the pipes (`StepEffect`). `SaysInv` adds to
  `SaysWhatItSends` that a track without a subscriber shows nothing; `MeantInv` couples what was started with
  `shouldBroadcast$`, which `OnlyMeant` does not mention.
* **`Rooms_proofs`** is about the two servers that pass on what one page does to others. *partysub*: the
  names of a room's nodes are the room and two parts more, so that cutting two parts off gives it back
  (`BaseNames`) and no hyphen in a room's name can lead a call astray; `AllocationIs` proves for any
  weights, and however the floating products round, that each location has a node at least and no more than
  `NodeIDs` counts on. `Owed` says what
  `NothingLost` does for the whole of a subscription, and `Once` that who was sent a message is not called
  for it any more, from which `OneNodeSends` follows for any lists of patterns. `FeedImplemented` is a
  refinement by step simulation, one lemma per action (`BroadcastAnnounces`, `ArrivalDelivers`,
  `FailureCutsOff`, `ConnectWants`, `SetTopicsWants`, `DisconnectLeaves`): whom a call reaches is subscribed in
  the message's room because names of nodes give their room back (`SentToSubscribed`), and the last call ends
  a message that nobody misses because of `Owed` (`OverWhenNoCalls`). *partysync*: `SyncInv` has
  the types and, for each page, six parts. `PageAt` and `AwaitingAt` say when a page may hear nothing: only
  when it has no connection, and then it has lost nothing if it has yet to ask for its sync; a call is
  at one place and its answer awaited, so that no answer is dropped. `AgreesAt` is the heart: *of every
  record, what is told last is what the table has*. That stays true when the table changes only because
  whoever is connected hears of the change, by answer or broadcast, behind all else. `FirstAt` adds what
  the page shows and is not told of any more; `SomeLast` (whatever is told is told last by some message) then
  makes the two `FirstPageAgrees`. `LaterAt` is about later pages and the records that they
  do not overlook (`Sure`): each stays where it is or is told (`Steady`), nothing as late as it comes before it
  (`Reached`), and the page shows it, is told of it or asks for it (`SureAt`), which is why a sync from
  `LastRecordTime` brings all that is missing. A change makes a record unsure only when it is of a second that
  has others, or is told to a page whose sync is still to be answered. `DatedAt` (the table has
  the same or newer) is what keeps older versions from coming back.
* `RetriesAreBounded` (socket) and `TypeCorrect` (server) stand on smaller invariants of their own:
  `CountInv`, on where the retry count can be raised, and `RestTypeOK`, which leaves the connection manager
  to `ManagerType`.

The theorems' names and what each says are in `PROJECT.json`. Some state invariants no run lists, as a
run would show nothing the theorem does not: `OneConnection`, `TimersBelongToSocket`,
`QueueEmptyWhenOpen`, `CloseIsNoticed`, `RetriesBounded` (socket), `StartsOnce`, `HooksAreNamed` (server),
`NeverEarly` (scheduler), `NeverIdle`, `OpenIsWanted`, `NoLeakedSocket` (provider), `QuietAgrees` (sync),
`NothingStranded`, `WithinLimit` (tracks), `OnlyWanted` (broadcast tracks), `RoomsApart` (partysub), which
`ImplementsFeed` says more than, and the type invariants.

The library's induction theorems take an operator as a parameter and cannot be used. Where a sum or the
last of a sequence matters, the proofs take the least element of a set of numbers instead (`Smallest`,
from the well-foundedness of `<`), and the sums of `PubSub` and `Chunking` are recursive functions, of which it
has to be shown that they exist (`SomethingAdds`, `SumBytesIs`).

Every safety property that a run checks is a theorem. Only model-checked are the liveness properties
(`Reopens`, `EveryEventAnswered`, `ConstructorEnds`, `Connects`, `PresentIsShown`, `GoneIsRemoved`,
`OthersAreShown`, `Converges`, `SettlesInOrder`, `PushedIsShown`, `StartedIsSent`), as fairness and `ENABLED` are
out of the prover's reach. What `Priority` does to a list of devices is not proved, either: the proofs about
`ResilientTrack` hold for any order.

## Where code and documentation differ

The run `scheduler_replaced` ends with a counterexample to `TasksAreKept`: a task that is scheduled again
while its callback is awaited is deleted, unrun, when the callback returns. `PROJECT.json` quotes the lines.

The others are stated at the end of their modules, each with the line it quotes, and have no run of
their own. To see one, put the property alone, as an invariant, into the configuration of the module's run, with the
changes named here, and TLC gives the counterexample.

| Module | Property | What happens | Configuration |
|---|---|---|---|
| `ReconnectingSocket` | `ReconnectConnects` | when retries are used up `_connect()` keeps its lock, and `reconnect()` does nothing from then on | as it is |
| `ReconnectingSocket` | `OneCloseEventPerSocket` | a url provider that fails during a retry gives listeners a second close event for the same socket | as it is |
| `ConnectionManager` | `TaggedAreOpen` | the in-memory `getConnections(tag)` yields closing connections | as it is |
| `ConnectionManager` | `SoleConnectionReached` | the close of a client's old socket removes its new one from the in-memory Map, and `broadcast()` leaves it out | as it is |
| `PartyServer` | `NameInOnStart` | an object woken by an alarm runs `onStart()` without a name | as it is |
| `Scheduler` | `EveryTaskRuns` | a task that is scheduled for this second or the past, or falls due during another's callback, may never run | under `PROPERTIES` |
| `Scheduler` | `NoScheduleNeverRuns` | a no-schedule task that replaces a cron task during its callback is run | as it is |
| `Scheduler` | `DelayedHasTime` | a delay of zero makes a task that never runs | as it is |
| `Chunking` | `OnlyItsChunksPooled` | messages of other connections fall into an open batch, and both are lost | as it is |
| `Chunking` | `ArrivedIsForwarded` | after a break in mid-batch, messages are swallowed until the next batch | as it is |
| `Chunking` | `OnlyMessagesForwarded` | after an eviction in mid-batch, chunks are handed over as messages | as it is |
| `YProvider` | `DestroyedStaysDown` | params that come after `destroy()` open a connection | as it is |
| `YProvider` | `BcFollows` | `disconnect(); connect()` reconnects without the BroadcastChannel | `UseBc = TRUE` |
| `YSync` | `SavedWhenEmpty` | `onSave()` is not called when the room empties | under `PROPERTIES` |
| `YAwareness` | `UserIdsDeleted` | the ids of a client that came back before it had gone are not deleted when it closes, but by the timeout | as it is |
| `PartySync` | `InitialSyncIsAll` | a broadcast stored before `getAll()` makes the sync start too late | as it is |
| `PartySync` | `UpdatesAreSynced` | an update in the same second as the latest record is not synced | as it is |
| `PartySync` | `DeletesAreSynced` | records deleted while a page was away are shown again | as it is |
| `PartySync` | `InSync` | a page whose connection broke is not synced again | as it is |
| `PartyTracks` | `ResponseHasEntry` | after an overflow a caller may be given the response of an empty request | as it is |
| `PartyTracks` | `LeftIsClosed` | a track that is left while the connection is not up, or whose transceiver came late, is never closed | as it is |
| `PartyTracks` | `PullSettles` | a pull whose task throws is neither failed nor retried | `FairSpec`, `Pushed = {p1}`, no symmetry, under `PROPERTIES` |
| `ResilientTrack` | `Settles` | `deprioritizeDevice` keeps the devices that match and drops the others (`filter`), so two broken devices take turns for ever and no error comes | under `PROPERTIES` |
| `BroadcastTrack` | `OnlyMeantScreen` | when a shared screen ends, one of its two tracks stays started: it is sent again when the next screen is only enabled, and `toggleBroadcasting()` stops instead of starting | as it is |
| `PubSub` | `AtMostOnce` | overlapping patterns give two copies | as it is |
| `PubSub` | `NodesAsAsked` | more nodes than `options.nodes` | as it is |

Some were met while reading what the models leave out, and are by analysis only. `PartySocket`'s
`updateProperties()` with a `path` throws, as `this.path` already has the slash that it rejects
(`partysocket/src/index.ts`). `localStorageValue$` starts again from the value it was created with when nobody
is subscribed, so a preference may be forgotten (the model has `activeDevice$` subscribed all along).
`enableSource()` of a screen that has one subscriber stops the share and asks for another; that one the
model has, in `EnableSource`.

## Not modelled

* *Routing* (`routePartykitRequest`, `hono-party`) parses a URL and calls a stub.
* *`PartySocket`* computes a URL and has no state but its options; between two connections
  `updateProperties()` changes what the next url provider returns, which the socket's model allows anyway.
* *React hooks* (`useStableSocket`, `useYProvider`, `useSync`'s optimistic values, `rxjsHooks`): the calls
  they make are made by the models in every order; who owns a socket across renders is not modelled.
* *`Agent`* of partysync, a server that is a client of another, is exported and used nowhere.
* *Sessions* of partytracks: a peer connection that fails is replaced by a new one, and each push and pull
  subscribes again. The model has one session. A push of an old session and one of the new may share a bulk
  request only when the first is made between the failure and the new session, within one turn of the event
  loop; the bulk request then fails as a whole and its pushes are retried.
* *Attachments and further tags* of connections, and `partytracks`' server and history, keep no state that
  could go wrong in an order the others do not show.
* Of the devices: labels ("virtual"), permission states, values set in other tabs, lists without a device. Of
  broadcast tracks: transformations, a screen without sound. Of awareness: the BroadcastChannel, a program
  that sets its state to null, more than two clients.
* The contents of messages, SDP, SQL errors, logging and the size of delays are left out everywhere.
  Placeholder packages, fixtures and scripts are not part of the system.

## Plan

What remains, most important first:

1. `Agent`: a `SyncServer` that is a client of another; composed with `PartySync`'s server.
2. partytracks' sessions: peer connections that are replaced while requests are batched.
3. `useStableSocket` over sockets with `close` and `reconnect`, options that change at any render, and
   remounts. Property: every socket but the current one is closed in the end.
4. Attachments and tags in `ConnectionManager`.
5. Abstract specifications: one queue for each request of `PartyTracks`, and a replicated set for `YSync`, each
   as a refinement with its theorem.
