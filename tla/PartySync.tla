----------------------------- MODULE PartySync -----------------------------
(***************************************************************************)
(* partysync: one channel of a SyncServer (packages/partysync/src/server/  *)
(* index.ts), that is a table whose rows are marked when they are deleted, *)
(* and the pages that show it with useSync() (src/react/index.tsx), which  *)
(* keep what they were told in IndexedDB (src/client/persist.ts) and call  *)
(* actions through partyfn's RPCClient.                                    *)
(*                                                                         *)
(* A page has a socket that reconnects and keeps what it could not send.   *)
(* Times are those of CURRENT_TIMESTAMP, whole seconds; 0 is null.  The    *)
(* program's onAction() is that of fixtures/todo-sync: it awaits first and *)
(* changes the table then.                                                 *)
(***************************************************************************)
EXTENDS Integers, Sequences, Functions, FiniteSetsExt

CONSTANTS
  Browser,              \* browsers, each with its own IndexedDB
  Id,                   \* ids of records
  MaxCalls,             \* bound: actions called
  Settings              \* the conditions behaviours are considered under

ASSUME SyncServerAssumption ==
  /\ MaxCalls \in Nat
  /\ Settings \subseteq
       [maxTime  : Nat \ {0},   \* bound: the clock stops here
        maxPages : Nat,         \* bound: pages each client opens
        breaks   : Nat,         \* bound: connections that break
        timeouts : BOOLEAN]     \* may a call time out before its answer comes

VARIABLES
  setting,              \* the one of Settings this behaviour has
  now,                  \* the server's clock
  table,                \* the channel's table
  running,              \* actions that onAction() has begun
  phase,                \* each page: "away" (there is none), "loading", "read"
                        \* (getAll() has its records), "asked" (for a sync)
  store,                \* each browser's IndexedDB
  copy,                 \* what getAll() has read
  view,                 \* the records a page shows
  connected,            \* its socket is open
  up, down,             \* messages to the server, and to the page
  pending,              \* calls whose promise the page awaits
  pages, called, breaks,\* how many so far
  whole,                \* a page has lost no message, and no answer, since its
                        \* store was empty (history)
  fresh,                \* its store was empty when it was read (history)
  overlooked            \* versions a page may miss: each was made in the second of
                        \* an earlier one, or was there when the page was told
                        \* of another before its sync (history)

serverVars == <<setting, now, table, running>>
pageVars   == <<phase, store, copy, view, fresh>>
wireVars   == <<connected, up, down>>
countVars  == <<pages, called, breaks>>
syncVars == <<serverVars, pageVars, wireVars, countVars, pending, whole, overlooked>>

(* A record; version is the call that made or changed it, and stands for   *)
(* what the record says.                                                   *)
Record == [id : Id, version : 1 .. MaxCalls, updated : Nat, deleted : Nat]
Call   == [kind : {"create", "update", "delete"}, id : Id, n : 1 .. MaxCalls, client : Browser]

Live(records) == {r \in records : r.deleted = 0}

ToServer ==
  [type : {"sync"}, from : Nat] \cup [type : {"action"}, call : Call]
ToPage ==
  [type : {"sync"}, records : SUBSET Live(Record)]
    \cup [type : {"update"}, records : SUBSET Record]
    \cup [type : {"success"}, n : 1 .. MaxCalls, records : SUBSET Record]
    \cup [type : {"error"}, n : 1 .. MaxCalls]

SyncTypeOK ==
  /\ setting \in Settings
  /\ now \in 1 .. setting.maxTime
  /\ table \subseteq Record /\ \A r, s \in table : r.id = s.id => r = s
  /\ running \subseteq [call : Call, page : {"connected", "reconnected", "gone"}]
  /\ phase \in [Browser -> {"away", "loading", "read", "asked"}]
  /\ \A c \in Browser :
       /\ store[c] \subseteq Record /\ copy[c] \subseteq Record
       /\ \A r, s \in store[c] : r.id = s.id => r = s
       /\ view[c] \subseteq Live(Record) /\ \A r, s \in view[c] : r.id = s.id => r = s
       /\ up[c] \in Seq(ToServer) /\ down[c] \in Seq(ToPage)
       /\ pending[c] \subseteq 1 .. called
       /\ phase[c] = "away" => ~connected[c] /\ view[c] = {} /\ up[c] = <<>>
       /\ ~connected[c] => down[c] = <<>>
  /\ connected \in [Browser -> BOOLEAN]
  /\ pages \in [Browser -> 0 .. setting.maxPages]
  /\ called \in 0 .. MaxCalls /\ breaks \in 0 .. setting.breaks
  /\ whole \in [Browser -> BOOLEAN] /\ fresh \in [Browser -> BOOLEAN]
  /\ overlooked \in [Browser -> SUBSET (1 .. MaxCalls)]

-----------------------------------------------------------------------------
(***************************************************************************)
(* What changed records do to others.                                      *)
(***************************************************************************)

Others(records, changed) == {r \in records : \A s \in changed : r.id /= s.id}

(* persist.set(), and UPDATE: a record replaces the one with its id. *)
Put(records, changed) == Others(records, changed) \cup changed

(* What is shown: a record that has been deleted is taken away. *)
DeletesIgnored(records, changed) ==                         \* mutant
  Others(records, Live(changed)) \cup Live(changed)
Shown(records, changed) == Others(records, changed) \cup Live(changed)

-----------------------------------------------------------------------------
(***************************************************************************)
(* Pages.                                                                  *)
(***************************************************************************)

Mount(c) ==
  /\ phase[c] = "away" /\ pages[c] < setting.maxPages
  /\ phase' = [phase EXCEPT ![c] = "loading"]
  /\ pages' = [pages EXCEPT ![c] = @ + 1]
  /\ whole' = [whole EXCEPT ![c] = @ \/ store[c] = {}]
  /\ UNCHANGED <<serverVars, store, copy, view, fresh, wireVars, called, breaks, pending, overlooked>>

(* getAll() reads the records; it takes its time to hand them over. *)
GetAll(c) ==
  /\ phase[c] = "loading"
  /\ phase' = [phase EXCEPT ![c] = "read"]
  /\ copy' = [copy EXCEPT ![c] = store[c]]
  /\ UNCHANGED <<serverVars, store, view, fresh, wireVars, countVars, pending, whole, overlooked>>

(* They are shown in place of what there was, and the time of the latest   *)
(* one is what the sync starts from.                                       *)
ServerTime(records) == now                                  \* mutant
LastRecordTime(records) ==
  Max({0} \cup {r.updated : r \in records} \cup {r.deleted : r \in records})

Loaded(c) ==
  /\ phase[c] = "read"
  /\ phase' = [phase EXCEPT ![c] = "asked"]
  /\ view' = [view EXCEPT ![c] = Live(copy[c])]
  /\ up' = [up EXCEPT ![c] = Append(@, [type |-> "sync", from |-> LastRecordTime(copy[c])])]
  /\ fresh' = [fresh EXCEPT ![c] = copy[c] = {}]
  /\ copy' = [copy EXCEPT ![c] = {}]
  /\ UNCHANGED <<serverVars, store, connected, down, countVars, pending, whole, overlooked>>

(* rpc.call(): the action is sent and its answer awaited. *)
CallAction(c) ==
  /\ phase[c] /= "away" /\ called < MaxCalls
  /\ called' = called + 1
  /\ \E kind \in {"create", "update", "delete"}, id \in Id :
       up' = [up EXCEPT ![c] = Append(@, [type |-> "action",
               call |-> [kind |-> kind, id |-> id, n |-> called + 1, client |-> c]])]
  /\ pending' = [pending EXCEPT ![c] = @ \cup {called + 1}]
  /\ UNCHANGED <<serverVars, pageVars, connected, down, pages, breaks, whole, overlooked>>

(* The timer of rpc() rejects the promise and forgets it. *)
CallTimesOut(c) ==
  /\ setting.timeouts
  /\ \E n \in pending[c] : pending' = [pending EXCEPT ![c] = @ \ {n}]
  /\ whole' = [whole EXCEPT ![c] = FALSE]
  /\ UNCHANGED <<serverVars, pageVars, wireVars, countVars, overlooked>>

(* What is told is shown and stored. *)
Learns(c, records) ==
  /\ view' = [view EXCEPT ![c] = Shown(@, records)]
  /\ store' = [store EXCEPT ![c] = Put(@, records)]

(* resolve(): an answer that nobody awaits any more is dropped. *)
Awaited(c, m) == m.type \in {"success", "error"} /\ m.n \in pending[c]
Forgotten(c, m) == m.type \in {"success", "error"} /\ m.n \notin pending[c]

PageReceives(c) ==
  /\ down[c] /= <<>>
  /\ down' = [down EXCEPT ![c] = Tail(@)]
  /\ LET m == Head(down[c]) IN
     \/ /\ m.type = "sync"
        /\ view' = [view EXCEPT ![c] = Put(@, m.records)]
        /\ store' = [store EXCEPT ![c] = Put(@, m.records)]
        /\ UNCHANGED pending
     \/ /\ m.type = "update"
        /\ Learns(c, m.records)
        /\ UNCHANGED pending
     \/ /\ Awaited(c, m)
        /\ pending' = [pending EXCEPT ![c] = @ \ {m.n}]
        /\ IF m.type = "success" THEN Learns(c, m.records) ELSE UNCHANGED <<view, store>>
     \/ /\ Forgotten(c, m)
        /\ UNCHANGED <<view, store, pending>>
  /\ UNCHANGED <<serverVars, phase, copy, fresh, connected, up, countVars, whole, overlooked>>

-----------------------------------------------------------------------------
(***************************************************************************)
(* The server's onMessage().                                               *)
(***************************************************************************)

(* A sync: the records that are not deleted, the later ones. *)
AnswerSync(from) ==
  [type |-> "sync", records |-> {r \in Live(table) : r.updated > from}]

ServerReceives(c) ==
  /\ connected[c] /\ up[c] /= <<>>
  /\ up' = [up EXCEPT ![c] = Tail(@)]
  /\ LET m == Head(up[c]) IN
     \/ /\ m.type = "sync"
        /\ down' = [down EXCEPT ![c] = Append(@, AnswerSync(m.from))]
        /\ UNCHANGED running
     \/ /\ m.type = "action"
        /\ running' = running \cup {[call |-> m.call, page |-> "connected"]}
        /\ UNCHANGED down
  /\ UNCHANGED <<setting, now, table, pageVars, connected, countVars, pending, whole, overlooked>>

(* The statements of onAction(), each with RETURNING. *)
Inserted(a) == {[id |-> a.id, version |-> a.n, updated |-> now, deleted |-> 0]}
Returned(a) ==
  LET rows == {r \in table : r.id = a.id} IN
  CASE a.kind = "create" -> Inserted(a)
    [] a.kind = "update" -> {[r EXCEPT !.version = a.n, !.updated = now] : r \in rows}
    [] a.kind = "delete" -> {[r EXCEPT !.deleted = now] : r \in rows}

(* connection.send() and broadcast() without [connection.id]: a page that  *)
(* has reconnected has the id of the connection that it lost.              *)
BroadcastTo(a) ==
  {c \in Browser : connected[c] /\ (c = a.call.client => a.page = "gone")}
Answered(a) == {c \in Browser : c = a.call.client /\ a.page = "connected"}

(* The page's sync has been answered. *)
Synced(c) == phase[c] = "asked" /\ \A m \in Range(up[c]) : m.type /= "sync"

(* What a page may overlook from now on. *)
Versions(records) == {r.version : r \in records}
Crowded == \E r \in table : r.updated = now \/ r.deleted = now
Overlooks(c, result) ==
  (IF Crowded THEN Versions(result) ELSE {})
    \cup (IF connected[c] /\ ~Synced(c) THEN Versions(Live(table)) ELSE {})

ActionDone ==
  \E a \in running :
    /\ running' = running \ {a}
    /\ a.call.kind = "create" => \A r \in table : r.id /= a.call.id
    /\ LET result == Returned(a.call) IN
       /\ table' = Put(table, result)
       /\ down' = [c \in Browser |->
            IF c \in Answered(a)
            THEN Append(down[c], [type |-> "success", n |-> a.call.n, records |-> result])
            ELSE IF c \in BroadcastTo(a)
            THEN Append(down[c], [type |-> "update", records |-> result])
            ELSE down[c]]
       /\ overlooked' = [c \in Browser |-> overlooked[c] \cup Overlooks(c, result)]
    /\ UNCHANGED <<setting, now, pageVars, connected, up, countVars, pending, whole>>

(* INSERT of an id that exists: only the caller is told. *)
ActionThrows ==
  \E a \in running :
    /\ running' = running \ {a}
    /\ a.call.kind = "create" /\ \E r \in table : r.id = a.call.id
    /\ down' = [c \in Browser |->
         IF c \in Answered(a)
         THEN Append(down[c], [type |-> "error", n |-> a.call.n]) ELSE down[c]]
    /\ UNCHANGED <<setting, now, table, pageVars, connected, up, countVars, pending, whole, overlooked>>

Tick ==
  /\ now < setting.maxTime
  /\ now' = now + 1
  /\ UNCHANGED <<setting, table, running, pageVars, wireVars, countVars, pending, whole, overlooked>>

-----------------------------------------------------------------------------
(***************************************************************************)
(* Connections.                                                            *)
(***************************************************************************)

Connects(c) ==
  /\ phase[c] /= "away" /\ ~connected[c]
  /\ connected' = [connected EXCEPT ![c] = TRUE]
  /\ UNCHANGED <<serverVars, pageVars, up, down, countVars, pending, whole, overlooked>>

Lost(c) ==
  /\ connected' = [connected EXCEPT ![c] = FALSE]
  /\ up' = [up EXCEPT ![c] = <<>>] /\ down' = [down EXCEPT ![c] = <<>>]

Orphaned(c, page) ==
  running' = {IF a.call.client = c /\ a.page /= "gone" THEN [a EXCEPT !.page = page] ELSE a : a \in running}

(* The connection breaks; the socket will connect again, and useSync()     *)
(* does not ask for another sync.                                          *)
Break(c) ==
  /\ connected[c] /\ breaks < setting.breaks
  /\ breaks' = breaks + 1
  /\ Lost(c) /\ Orphaned(c, "reconnected")
  /\ whole' = [whole EXCEPT ![c] = FALSE]
  /\ UNCHANGED <<setting, now, table, pageVars, pages, called, pending, overlooked>>

(* The page is closed; what it has stored stays. *)
Leave(c) ==
  /\ phase[c] /= "away"
  /\ phase' = [phase EXCEPT ![c] = "away"]
  /\ view' = [view EXCEPT ![c] = {}] /\ copy' = [copy EXCEPT ![c] = {}]
  /\ pending' = [pending EXCEPT ![c] = {}]
  /\ Lost(c) /\ Orphaned(c, "gone")
  /\ UNCHANGED <<setting, now, table, store, fresh, countVars, whole, overlooked>>

-----------------------------------------------------------------------------

SyncInit ==
  /\ setting \in Settings
  /\ now = 1 /\ table = {} /\ running = {}
  /\ phase = [c \in Browser |-> "away"]
  /\ store = [c \in Browser |-> {}] /\ copy = [c \in Browser |-> {}]
  /\ view = [c \in Browser |-> {}]
  /\ connected = [c \in Browser |-> FALSE]
  /\ up = [c \in Browser |-> <<>>] /\ down = [c \in Browser |-> <<>>]
  /\ pending = [c \in Browser |-> {}]
  /\ pages = [c \in Browser |-> 0] /\ called = 0 /\ breaks = 0
  /\ whole = [c \in Browser |-> TRUE] /\ fresh = [c \in Browser |-> FALSE]
  /\ overlooked = [c \in Browser |-> {}]

SyncNext ==
  \/ \E c \in Browser :
       \/ Mount(c) \/ GetAll(c) \/ Loaded(c) \/ Leave(c)
       \/ CallAction(c) \/ CallTimesOut(c)
       \/ PageReceives(c) \/ ServerReceives(c)
       \/ Connects(c) \/ Break(c)
  \/ ActionDone \/ ActionThrows \/ Tick

SyncSpec == SyncInit /\ [][SyncNext]_syncVars

-----------------------------------------------------------------------------
(***************************************************************************)
(* Properties.                                                             *)
(***************************************************************************)

(* What a page will show when everything under way to it has arrived: of   *)
(* each record what it is told last, or what it shows.                     *)
Told(m) == IF m.type = "error" THEN {} ELSE m.records
Tells(m, id) == \E r \in Told(m) : r.id = id
Untold(q, id) == \A i \in 1 .. Len(q) : ~Tells(q[i], id)
ToldLast(q, i, id) ==
  Tells(q[i], id) /\ \A j \in i + 1 .. Len(q) : ~Tells(q[j], id)
WillShow(c) ==
  {r \in view[c] : Untold(down[c], r.id)}
    \cup UNION {{r \in Live(Told(down[c][i])) : ToldLast(down[c], i, r.id)} : i \in 1 .. Len(down[c])}

(* A browser's first page that keeps its connection shows the records of   *)
(* the table and nothing else, as soon as what is under way has arrived,   *)
(* whatever order syncs, broadcasts and answers were sent in, those that   *)
(* come before getAll() has handed over included (useSync, onMessage).     *)
FirstPageAgrees ==
  \A c \in Browser : Synced(c) /\ fresh[c] /\ whole[c] => WillShow(c) = Live(table)

(* A page that comes back with records in its store misses none of the     *)
(* table, and shows none as it was, but for the changes that hide behind   *)
(* the time of another (server/index.ts:75): one of the same second that   *)
(* came earlier, or one that the page was told of before its sync, when it *)
(* had not yet asked for those in between.                                 *)
NothingMissing ==
  \A c \in Browser : Synced(c) /\ whole[c] =>
    \A r \in Live(table) : r \in WillShow(c) \/ r.version \in overlooked[c]

-----------------------------------------------------------------------------
(***************************************************************************)
(* What comments and README say and the code does not do.                  *)
(***************************************************************************)

(* react/index.tsx:89 "this is all the data for initial sync": with what   *)
(* the page has, that is every record of the table.                        *)
InitialSyncIsAll ==
  \A c \in Browser : Synced(c) /\ whole[c] =>
    \A r \in Live(table) : \E s \in WillShow(c) : s.id = r.id

(* react/index.tsx:67 "if the record is updated, we want to sync up to the *)
(* updated time": a record that is shown is not an older version of it.    *)
UpdatesAreSynced ==
  \A c \in Browser : Synced(c) /\ whole[c] =>
    \A r \in Live(table), s \in WillShow(c) : s.id = r.id => s = r

(* react/index.tsx:60 "if the record is deleted, we want to sync up to the *)
(* deleted time": a record that was deleted before the sync is not shown.  *)
DeletesAreSynced ==
  \A c \in Browser : Synced(c) /\ whole[c] =>
    \A s \in WillShow(c) : \E r \in Live(table) : s.id = r.id

(* README.md:3 "synchronize state between a Durable Object and client": a  *)
(* page that is connected gets to show the table's records.                *)
InSync ==
  \A c \in Browser :
    Synced(c) /\ connected[c] /\ up[c] = <<>> /\ down[c] = <<>> /\ running = {} =>
      Live(table) \subseteq view[c]
=============================================================================
