------------------------------ MODULE Scheduler ------------------------------
(***************************************************************************)
(* partywhen's Scheduler (packages/partywhen/src/index.ts): a Durable      *)
(* Object with a table of tasks and the one alarm the platform gives it.   *)
(*                                                                         *)
(* The clock counts whole seconds, as the table does.  It stands still,    *)
(* and no event is delivered, while the object's code runs: other calls    *)
(* come in only while alarm() awaits a task's callback, and not even then  *)
(* in the constructor, which runs alarm() inside blockConcurrencyWhile.    *)
(***************************************************************************)
EXTENDS Integers, FiniteSets

CONSTANTS
  Id,                   \* task ids
  Nothing,              \* no alarm, no task
  Horizon,              \* bound: the clock stops here
  Never,                \* the time of a task of type no-schedule
  MaxCalls,             \* bound: calls of scheduleTask()
  MaxCrashes,           \* bound: how often the object is lost from memory
  PastTimes             \* may a task be scheduled for a time that has passed

ASSUME SchedulerAssumption ==
  /\ Horizon \in Nat /\ Never \in Nat /\ Never > Horizon + 1
  /\ Nothing \notin Nat
  /\ MaxCalls \in Nat /\ MaxCrashes \in Nat
  /\ PastTimes \in BOOLEAN

VARIABLES
  now,                  \* Date.now() / 1000, rounded down
  tasks,                \* the table
  alarmAt,              \* the alarm the platform holds, or Nothing
  alive,                \* the object is in memory
  running,              \* who runs alarm(): "none", the "platform", or the
                        \* "constructor"
  due,                  \* the rows alarm() has read and not yet looked at
  current,              \* the row whose callback is awaited, or Nothing
  ended,                \* it has run to its end; its answer is on the way
  calls,                \* calls of scheduleTask() so far
  crashes,              \* losses of memory so far
  promised,             \* the calls whose task is still to run (history)
  delayed,              \* the calls that asked for a delay (history)
  done                  \* the calls and times whose task has run, no crash
                        \* having come before alarm() knew (history)

tableVars   == <<tasks, promised, delayed, done>>
handlerVars == <<running, due, current, ended>>
vars == <<now, tableVars, alarmAt, alive, handlerVars, calls, crashes>>

(* A row; call is the number of the call of scheduleTask() that made it,   *)
(* which stands for its callback and payload.                              *)
Times == 0 .. Horizon + 1
Row ==
  {r \in [id : Id, type : {"once", "cron", "no-schedule"}, time : Times \cup {Never},
          call : 1 .. MaxCalls] : r.type /= "no-schedule" => r.time /= Never}

TypeOK ==
  /\ now \in 0 .. Horizon
  /\ tasks \subseteq Row
  /\ \A r, s \in tasks : r.id = s.id => r = s
  /\ alarmAt \in Times \cup {Nothing}
  /\ alive \in BOOLEAN
  /\ running \in {"none", "platform", "constructor"}
  /\ due \subseteq Row
  /\ current \in Row \cup {Nothing}
  /\ ended \in BOOLEAN
  /\ calls \in 0 .. MaxCalls
  /\ crashes \in 0 .. MaxCrashes
  /\ promised \subseteq 1 .. MaxCalls
  /\ delayed \subseteq 1 .. MaxCalls
  /\ done \subseteq (1 .. MaxCalls) \X (Times \cup {Never})

-----------------------------------------------------------------------------
(***************************************************************************)
(* The table and the alarm.                                                *)
(***************************************************************************)

Without(id) == {r \in tasks : r.id /= id}                     \* DELETE
WithTime(id, time) ==                                         \* UPDATE
  Without(id) \cup {[r EXCEPT !.time = time] : r \in tasks \ Without(id)}

CallsOf(rows) == {r.call : r \in rows}

(* scheduleNextAlarm(), which every change of the table ends with: the     *)
(* alarm moves to the earliest time that is still to come, wherever it     *)
(* was, and stays where it was when there is no such time.                 *)
Upcoming(rows) == {r.time : r \in {s \in rows : s.time > now /\ s.type /= "no-schedule"}}
AnyUpcoming(rows) ==                                        \* mutant
  \/ Upcoming(rows) = {} /\ UNCHANGED alarmAt
  \/ alarmAt' \in Upcoming(rows)
ScheduleNextAlarm(rows) ==
  \/ Upcoming(rows) = {} /\ UNCHANGED alarmAt
  \/ alarmAt' \in Upcoming(rows) /\ \A t \in Upcoming(rows) : alarmAt' <= t

(* What alarm() reads first. *)
Due == {r \in tasks : r.time <= now}

-----------------------------------------------------------------------------
(***************************************************************************)
(* Calls from outside.                                                     *)
(***************************************************************************)

(* Another event can be delivered. *)
Waiting == running = "none" \/ (running = "platform" /\ current /= Nothing)

(* INSERT OR REPLACE *)
Insert(id, type, time) ==
  /\ alive /\ Waiting /\ calls < MaxCalls
  /\ calls' = calls + 1
  /\ tasks' = Without(id) \cup {[id |-> id, type |-> type, time |-> time, call |-> calls + 1]}
  /\ promised' = (promised \ CallsOf(tasks \ Without(id))) \cup {calls + 1}
  /\ UNCHANGED <<now, alive, handlerVars, crashes, done>>

(* scheduleTask(), by the kind of task; a delay of zero is taken for no    *)
(* schedule at all.                                                        *)
ScheduleAt(id, time) ==
  /\ PastTimes \/ time > now
  /\ Insert(id, "once", time)
  /\ ScheduleNextAlarm(tasks')
  /\ UNCHANGED delayed

ScheduleNever(id) ==
  /\ Insert(id, "no-schedule", Never)
  /\ UNCHANGED <<alarmAt, delayed>>

ScheduleIn(id, delay) ==
  /\ delayed' = delayed \cup {calls + 1}
  /\ \/ delay /= 0 /\ Insert(id, "once", now + delay) /\ ScheduleNextAlarm(tasks')
     \/ delay = 0 /\ Insert(id, "no-schedule", Never) /\ UNCHANGED alarmAt

(* getNextCronTime(): some time that is still to come. *)
CronTimes == now + 1 .. Horizon + 1
ScheduleCron(id) ==
  /\ \E time \in CronTimes : Insert(id, "cron", time)
  /\ ScheduleNextAlarm(tasks')
  /\ UNCHANGED delayed

CancelTask(id) ==
  /\ alive /\ Waiting
  /\ tasks' = Without(id)
  /\ promised' = promised \ CallsOf(tasks \ Without(id))
  /\ ScheduleNextAlarm(tasks')
  /\ UNCHANGED <<now, alive, handlerVars, calls, crashes, delayed, done>>

-----------------------------------------------------------------------------
(***************************************************************************)
(* alarm(), called by the platform or by the constructor.                  *)
(***************************************************************************)

StartAlarm(caller) ==
  /\ running = "none"
  /\ running' = caller
  /\ due' = Due
  /\ UNCHANGED <<now, tableVars, current, ended, calls, crashes>>

(* The constructor: any event brings the object to life. *)
Construct ==
  /\ ~alive
  /\ alive' = TRUE
  /\ StartAlarm("constructor")
  /\ UNCHANGED alarmAt

AlarmFires ==
  /\ alive /\ alarmAt /= Nothing /\ alarmAt <= now
  /\ alarmAt' = Nothing
  /\ StartAlarm("platform")
  /\ UNCHANGED alive

(* The callback of the next row is called. *)
ExecuteTask ==
  /\ running /= "none" /\ current = Nothing
  /\ current' \in due
  /\ due' = due \ {current'}
  /\ UNCHANGED <<now, tableVars, alarmAt, alive, running, ended, calls, crashes>>

(* It runs to its end, where it was sent to; alarm() does not know yet.    *)
CallbackEnds ==
  /\ current /= Nothing /\ ~ended
  /\ ended' = TRUE
  /\ done' = done \cup {<<current.call, current.time>>}
  /\ UNCHANGED <<now, tasks, promised, delayed, alarmAt, alive, running, due, current>>
  /\ UNCHANGED <<calls, crashes>>

(* alarm() goes on: what the row's id stands for by now is put off or      *)
(* deleted.                                                                *)
KeptAsItWas ==                                              \* mutant
  UNCHANGED <<tasks, promised>>
PutOff ==
  \/ /\ current.type = "cron"
     /\ \E time \in CronTimes : tasks' = WithTime(current.id, time)
     /\ UNCHANGED promised
  \/ /\ current.type /= "cron"
     /\ tasks' = Without(current.id)
     /\ promised' = promised \ {current.call}

RowsReadAgain ==                                            \* mutant
  /\ current /= Nothing /\ ended
  /\ current' = Nothing /\ ended' = FALSE /\ due' = Due
  /\ UNCHANGED <<now, tableVars, alarmAt, alive, running, calls, crashes>>
CallbackReturns ==
  /\ current /= Nothing /\ ended
  /\ PutOff
  /\ current' = Nothing /\ ended' = FALSE
  /\ UNCHANGED <<now, alarmAt, alive, running, due, calls, crashes, delayed, done>>

(* All rows are done. *)
FinishAlarm ==
  /\ running /= "none" /\ current = Nothing /\ due = {}
  /\ ScheduleNextAlarm(tasks)
  /\ running' = "none"
  /\ UNCHANGED <<now, tableVars, alive, due, current, ended, calls, crashes>>

(* The platform runs an alarm that was cut short again, at once here. *)
Retry == alarmAt' = IF running = "platform" THEN now ELSE alarmAt

(* alarm() is cut short, and nothing of it is left: it will not know of a  *)
(* callback that had run to its end.                                       *)
CutShort ==
  /\ running' = "none" /\ due' = {} /\ current' = Nothing /\ ended' = FALSE
  /\ done' = IF ended THEN done \ {<<current.call, current.time>>} ELSE done
  /\ UNCHANGED <<tasks, promised, delayed>>

(* The callback throws or its answer is lost, and with it alarm(): the     *)
(* rows after it are not looked at.  In the constructor this resets the    *)
(* object.                                                                 *)
CallbackThrows ==
  /\ current /= Nothing
  /\ Retry
  /\ CutShort
  /\ alive' = (running = "platform")
  /\ UNCHANGED <<now, calls, crashes>>

(* The object is evicted or crashes, before or after the callback has run  *)
(* to its end; the table, as far as it was written, and the alarm stay.    *)
Crash ==
  /\ alive /\ crashes < MaxCrashes
  /\ running = "none" \/ current /= Nothing
  /\ crashes' = crashes + 1
  /\ alive' = FALSE
  /\ Retry
  /\ CutShort
  /\ UNCHANGED <<now, calls>>

Tick ==
  /\ now < Horizon /\ (running = "none" \/ current /= Nothing)
  /\ now' = now + 1
  /\ UNCHANGED <<tableVars, alarmAt, alive, handlerVars, calls, crashes>>

-----------------------------------------------------------------------------

Init ==
  /\ now = 0 /\ tasks = {} /\ alarmAt = Nothing
  /\ alive = FALSE
  /\ running = "none" /\ due = {} /\ current = Nothing /\ ended = FALSE
  /\ calls = 0 /\ crashes = 0
  /\ promised = {} /\ delayed = {} /\ done = {}

Calls ==
  \E id \in Id :
    \/ \E time \in Times : ScheduleAt(id, time)
    \/ \E delay \in 0 .. Horizon + 1 - now : ScheduleIn(id, delay)
    \/ ScheduleCron(id)
    \/ ScheduleNever(id)
    \/ CancelTask(id)

Alarms ==
  \/ AlarmFires \/ ExecuteTask \/ CallbackEnds
  \/ CallbackReturns \/ CallbackThrows \/ FinishAlarm

Next == Calls \/ Construct \/ Alarms \/ Crash \/ Tick

Spec == Init /\ [][Next]_vars

-----------------------------------------------------------------------------
(***************************************************************************)
(* Properties.                                                             *)
(***************************************************************************)

(* While alarm() is not running, the alarm is set for every task that is   *)
(* still to come, or earlier, through failures, crashes and everything     *)
(* that was scheduled or cancelled while a callback was awaited.  The one  *)
(* exception is an object whose constructor has failed: it has a task that *)
(* is overdue, and no more than it had before.                             *)
UpcomingCovered ==
  running = "none" =>
    \/ \A t \in Upcoming(tasks) : alarmAt /= Nothing /\ alarmAt <= t
    \/ ~alive /\ Due /= {}

(* No task is run before the time its row had when alarm() read the table, *)
(* whatever was rescheduled since.                                         *)
NeverEarly == current /= Nothing => current.time <= now

(* A task that was run to its end is run again for the same time only if   *)
(* alarm() was cut short, by a crash or a lost answer, while that task's   *)
(* own answer was on the way, and once for each such time: not because the *)
(* callback of another task failed, nor because the object crashed later   *)
(* in the same run of alarm().                                             *)
Begins == current' /= current /\ current' /= Nothing
NotRunAgain == [][Begins => <<current'.call, current'.time>> \notin done]_vars

(* Constructing the object runs the tasks that are due, and no event is    *)
(* delivered before: it ends as long as no callback fails for ever.        *)
Fairness ==
  /\ WF_vars(Construct /\ alarmAt /= Nothing /\ alarmAt <= now)
  /\ WF_vars(AlarmFires) /\ WF_vars(ExecuteTask) /\ WF_vars(FinishAlarm)
  /\ SF_vars(CallbackEnds) /\ SF_vars(CallbackReturns)
  /\ WF_vars(Tick)
LiveSpec == Spec /\ Fairness

ConstructorEnds == running = "constructor" ~> running = "none"

-----------------------------------------------------------------------------
(***************************************************************************)
(* What the README says and the code does not do.                          *)
(***************************************************************************)

(* README.md:40 "the task will be run at a specific date": at last at      *)
(* least, unless it is replaced or cancelled, or the clock of the model    *)
(* stops before the alarm.                                                 *)
Scheduled(call) == \E r \in tasks : r.call = call /\ r.type = "once" /\ r.time <= Horizon
ClockStops == alarmAt /= Nothing /\ alarmAt > Horizon
EveryTaskRuns ==
  \A call \in 1 .. MaxCalls : Scheduled(call) ~> (~Scheduled(call) \/ ClockStops)

(* The same line: until it has run it stays in the table, unless it is     *)
(* replaced or cancelled.                                                  *)
TasksAreKept == promised \subseteq CallsOf(tasks)

(* README.md:38 "the task will be run after a delay": a task that was      *)
(* scheduled with a delay has a time.                                      *)
DelayedHasTime == \A r \in tasks : r.call \in delayed => r.type /= "no-schedule"

(* README.md:41 "the task will never be run": a task of type no-schedule.  *)
NoScheduleNeverRuns == current /= Nothing => current.type /= "no-schedule"
=============================================================================
