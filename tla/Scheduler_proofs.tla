-------------------------- MODULE Scheduler_proofs --------------------------
(***************************************************************************)
(* Proofs about Scheduler, for any number of tasks, calls and crashes and  *)
(* however long the clock runs.                                            *)
(***************************************************************************)
EXTENDS Scheduler, TLAPS

(* A call of scheduleTask(), whichever kind of task it is for.             *)
Scheduling(id, type, time) ==
  /\ Insert(id, type, time)
  /\ \/ type /= "no-schedule" /\ time \in Times /\ ScheduleNextAlarm(tasks')
     \/ type = "no-schedule" /\ time = Never /\ UNCHANGED alarmAt

Types == {"once", "cron", "no-schedule"}

(* Each of scheduleTask()'s branches is such a call. *)
LEMMA SchedulingCovers ==
  ASSUME now \in 0 .. Horizon, NEW id \in Id,
         \/ \E time \in Times : ScheduleAt(id, time)
         \/ \E delay \in 0 .. Horizon + 1 - now : ScheduleIn(id, delay)
         \/ ScheduleCron(id) \/ ScheduleNever(id)
  PROVE  /\ \E type \in Types, time \in Times \cup {Never} : Scheduling(id, type, time)
         /\ delayed' \in {delayed, delayed \cup {calls + 1}}
<1>1. ASSUME NEW time \in Times, ScheduleAt(id, time)
      PROVE  Scheduling(id, "once", time) /\ UNCHANGED delayed
  BY <1>1 DEF ScheduleAt, Scheduling
<1>2. ASSUME NEW delay \in 0 .. Horizon + 1 - now, ScheduleIn(id, delay)
      PROVE  /\ Scheduling(id, "once", now + delay) \/ Scheduling(id, "no-schedule", Never)
             /\ now + delay \in Times
             /\ delayed' = delayed \cup {calls + 1}
  <2>1. now + delay \in Times
    BY <1>2, SchedulerAssumption DEF Times
  <2>2. QED BY <1>2, <2>1 DEF ScheduleIn, Scheduling
<1>3. ASSUME ScheduleCron(id)
      PROVE  (\E time \in Times : Scheduling(id, "cron", time)) /\ UNCHANGED delayed
  <2>1. CronTimes \subseteq Times
    BY SchedulerAssumption DEF CronTimes, Times
  <2>2. QED BY <1>3, <2>1 DEF ScheduleCron, Scheduling
<1>4. ASSUME ScheduleNever(id)
      PROVE  Scheduling(id, "no-schedule", Never) /\ UNCHANGED delayed
  BY <1>4 DEF ScheduleNever, Scheduling
<1>5. QED BY <1>1, <1>2, <1>3, <1>4 DEF Types

-----------------------------------------------------------------------------
(***************************************************************************)
(* The type invariant.                                                     *)
(***************************************************************************)

(* The alarm that scheduleNextAlarm() leaves. *)
LEMMA NextAlarmType ==
  ASSUME NEW rows \in SUBSET Row, alarmAt \in Times \cup {Nothing}, ScheduleNextAlarm(rows)
  PROVE  alarmAt' \in Times \cup {Nothing}
BY DEF ScheduleNextAlarm, Upcoming, Row

(* A scheduled row replaces the row with its id. *)
LEMMA InsertType ==
  ASSUME TypeOK, NEW id \in Id, NEW type \in Types, NEW time \in Times \cup {Never},
         Scheduling(id, type, time)
  PROVE  /\ tasks' \subseteq Row
         /\ \A r, s \in tasks' : r.id = s.id => r = s
         /\ alarmAt' \in Times \cup {Nothing}
         /\ calls' \in 1 .. MaxCalls /\ calls' = calls + 1
         /\ promised' \subseteq 1 .. MaxCalls
<1> DEFINE new == [id |-> id, type |-> type, time |-> time, call |-> calls + 1]
<1>1. /\ tasks' = Without(id) \cup {new} /\ calls' = calls + 1 /\ calls < MaxCalls
      /\ promised' = (promised \ CallsOf(tasks \ Without(id))) \cup {calls + 1}
  BY DEF Scheduling, Insert
<1>2. calls' \in 1 .. MaxCalls /\ calls' = calls + 1
  BY <1>1, SchedulerAssumption DEF TypeOK
<1>3. type /= "no-schedule" => time /= Never
  BY SchedulerAssumption DEF Scheduling, Times
<1>4. new \in Row /\ new.id = id
  BY <1>1, <1>2, <1>3 DEF Row, Types
<1>5. Without(id) \subseteq tasks /\ \A r \in Without(id) : r.id /= id
  BY DEF Without
<1> HIDE DEF new
<1>6. tasks' \subseteq Row /\ \A r, s \in tasks' : r.id = s.id => r = s
  BY <1>1, <1>4, <1>5 DEF TypeOK
<1>7. alarmAt' \in Times \cup {Nothing}
  BY <1>6, NextAlarmType DEF Scheduling, TypeOK
<1>8. promised' \subseteq 1 .. MaxCalls
  BY <1>1, <1>2 DEF TypeOK
<1>9. QED BY <1>2, <1>6, <1>7, <1>8

(* The table after a callback has returned. *)
LEMMA PutOffType ==
  ASSUME TypeOK, PutOff, current /= Nothing
  PROVE  /\ tasks' \subseteq Row
         /\ \A r, s \in tasks' : r.id = s.id => r = s
         /\ promised' \subseteq 1 .. MaxCalls
<1>1. Without(current.id) \subseteq tasks /\ \A r \in Without(current.id) : r.id /= current.id
  BY DEF Without
<1>2. CASE current.type /= "cron"
  BY <1>1, <1>2 DEF PutOff, TypeOK
<1>3. CASE current.type = "cron"
  <2>1. PICK time \in CronTimes :
          tasks' = Without(current.id)
                   \cup {[r EXCEPT !.time = time] : r \in tasks \ Without(current.id)}
    BY <1>3 DEF PutOff, WithTime
  <2>2. time \in Times /\ time /= Never
    BY <2>1, SchedulerAssumption DEF CronTimes, Times, TypeOK
  <2>3. \A r \in tasks \ Without(current.id) : r \in Row /\ r.id = current.id
    BY DEF Without, TypeOK
  <2>4. \A r \in tasks \ Without(current.id) :
          [r EXCEPT !.time = time] \in Row /\ [r EXCEPT !.time = time].id = current.id
    BY <2>2, <2>3 DEF Row
  <2>5. \A r, s \in tasks \ Without(current.id) : r = s
    BY <2>3 DEF TypeOK
  <2>6. tasks' \subseteq Row
    BY <1>1, <2>1, <2>4 DEF TypeOK
  <2>7. \A r, s \in tasks' : r.id = s.id => r = s
    <3> DEFINE put == {[r EXCEPT !.time = time] : r \in tasks \ Without(current.id)}
    <3>1. ASSUME NEW x \in put PROVE x.id = current.id
      <4>1. PICK r \in tasks \ Without(current.id) : x = [r EXCEPT !.time = time]
        OBVIOUS
      <4>2. QED BY <2>4, <4>1
    <3>2. \A x, y \in put : x = y
      BY <2>5
    <3>3. tasks' = Without(current.id) \cup put
      BY <2>1
    <3> HIDE DEF put
    <3>4. \A r, s \in Without(current.id) : r.id = s.id => r = s
      BY <1>1 DEF TypeOK
    <3>5. QED BY <1>1, <3>1, <3>2, <3>3, <3>4
  <2>8. QED BY <1>3, <2>6, <2>7 DEF PutOff, TypeOK
<1>4. QED BY <1>2, <1>3

(* Every step preserves the type invariant. *)
LEMMA TypeStep == TypeOK /\ [Next]_vars => TypeOK'
<1> SUFFICES ASSUME TypeOK, [Next]_vars PROVE TypeOK'
  OBVIOUS
<1> USE SchedulerAssumption
<1>1. ASSUME NEW id \in Id,
             \/ \E time \in Times : ScheduleAt(id, time)
             \/ \E delay \in 0 .. Horizon + 1 - now : ScheduleIn(id, delay)
             \/ ScheduleCron(id) \/ ScheduleNever(id)
      PROVE  TypeOK'
  <2>1. PICK type \in Types, time \in Times \cup {Never} : Scheduling(id, type, time)
    BY <1>1, SchedulingCovers DEF TypeOK
  <2>2. delayed' \in {delayed, delayed \cup {calls + 1}}
    BY <1>1, SchedulingCovers DEF TypeOK
  <2>3. /\ tasks' \subseteq Row /\ \A r, s \in tasks' : r.id = s.id => r = s
        /\ alarmAt' \in Times \cup {Nothing}
        /\ calls' \in 1 .. MaxCalls /\ calls' = calls + 1
        /\ promised' \subseteq 1 .. MaxCalls
    BY <2>1, InsertType
  <2>4. UNCHANGED <<now, alive, running, due, current, ended, crashes, done>>
    BY <2>1 DEF Scheduling, Insert, handlerVars
  <2>5. QED BY <2>2, <2>3, <2>4 DEF TypeOK
<1>2. ASSUME NEW id \in Id, CancelTask(id) PROVE TypeOK'
  <2>1. tasks' \subseteq tasks /\ promised' \subseteq promised
    BY <1>2 DEF CancelTask, Without
  <2>2. alarmAt' \in Times \cup {Nothing}
    BY <1>2, <2>1, NextAlarmType DEF CancelTask, TypeOK
  <2>3. UNCHANGED <<now, alive, running, due, current, ended, calls, crashes, delayed, done>>
    BY <1>2 DEF CancelTask, handlerVars
  <2>4. QED BY <2>1, <2>2, <2>3 DEF TypeOK
<1>3. CASE Construct
  BY <1>3 DEF Construct, StartAlarm, Due, TypeOK, tableVars
<1>4. CASE AlarmFires
  BY <1>4 DEF AlarmFires, StartAlarm, Due, TypeOK, tableVars
<1>5. CASE ExecuteTask
  BY <1>5 DEF ExecuteTask, TypeOK, tableVars
<1>6. CASE CallbackReturns
  <2>1. /\ tasks' \subseteq Row /\ \A r, s \in tasks' : r.id = s.id => r = s
        /\ promised' \subseteq 1 .. MaxCalls
    BY <1>6, PutOffType DEF CallbackReturns
  <2>2. /\ current' = Nothing /\ ended' = FALSE
        /\ UNCHANGED <<now, alarmAt, alive, running, due, calls, crashes, delayed, done>>
    BY <1>6 DEF CallbackReturns
  <2>3. QED BY <2>1, <2>2 DEF TypeOK
<1>13. CASE CallbackEnds
  <2>1. current \in Row
    BY <1>13 DEF CallbackEnds, TypeOK
  <2>2. done' \subseteq (1 .. MaxCalls) \X (Times \cup {Never})
    BY <1>13, <2>1 DEF CallbackEnds, TypeOK, Row
  <2>3. QED BY <1>13, <2>2 DEF CallbackEnds, TypeOK
<1>7. CASE CallbackThrows
  <2>1. alarmAt' \in {now, alarmAt} /\ now \in Times
    BY <1>7 DEF CallbackThrows, Retry, TypeOK, Times
  <2>2. done' \subseteq done
    BY <1>7 DEF CallbackThrows, CutShort
  <2>3. QED BY <1>7, <2>1, <2>2 DEF CallbackThrows, CutShort, TypeOK
<1>8. CASE FinishAlarm
  <2>1. alarmAt' \in Times \cup {Nothing}
    BY <1>8, NextAlarmType DEF FinishAlarm, TypeOK
  <2>2. QED BY <1>8, <2>1 DEF FinishAlarm, TypeOK, tableVars
<1>9. CASE Crash
  <2>1. alarmAt' \in {now, alarmAt} /\ now \in Times
    BY <1>9 DEF Crash, Retry, TypeOK, Times
  <2>2. crashes' \in 0 .. MaxCrashes
    BY <1>9 DEF Crash, TypeOK
  <2>3. done' \subseteq done
    BY <1>9 DEF Crash, CutShort
  <2>4. QED BY <1>9, <2>1, <2>2, <2>3 DEF Crash, CutShort, TypeOK
<1>10. CASE Tick
  BY <1>10 DEF Tick, TypeOK, tableVars, handlerVars
<1>11. CASE UNCHANGED vars
  BY <1>11 DEF vars, TypeOK, tableVars, handlerVars
<1>12. QED
  BY <1>1, <1>2, <1>3, <1>4, <1>5, <1>6, <1>7, <1>8, <1>9, <1>10, <1>11, <1>13
  DEF Next, Calls, Alarms

(* The type invariant, for any bounds. *)
THEOREM TypeCorrect == Spec => []TypeOK
<1>1. ASSUME Init PROVE TypeOK
  <2>1. now \in 0 .. Horizon /\ calls \in 0 .. MaxCalls /\ crashes \in 0 .. MaxCrashes
    BY <1>1, SchedulerAssumption DEF Init
  <2>2. alive \in BOOLEAN
    BY <1>1 DEF Init
  <2>3. QED BY <1>1, <2>1, <2>2 DEF Init, TypeOK
<1>2. QED BY <1>1, TypeStep, PTL DEF Spec

-----------------------------------------------------------------------------
(***************************************************************************)
(* The alarm.                                                              *)
(***************************************************************************)

(* What alarm() has read was due; while it does not run it has read        *)
(* nothing; and in the constructor nothing changes what it has read.       *)
AlarmInv ==
  /\ \A r \in due : r.time <= now
  /\ NeverEarly
  /\ current /= Nothing => current \notin due
  /\ ended => current /= Nothing
  /\ running = "none" => due = {} /\ current = Nothing
  /\ ~alive => running = "none"
  /\ running = "constructor" => due \subseteq tasks /\ current \in tasks \cup {Nothing}
  /\ UpcomingCovered

(* After scheduleNextAlarm() everything is covered. *)
LEMMA NextAlarmCovers ==
  ASSUME NEW rows \in SUBSET Row, ScheduleNextAlarm(rows)
  PROVE  \A t \in Upcoming(rows) : alarmAt' /= Nothing /\ alarmAt' <= t
<1>1. Upcoming(rows) \subseteq Nat
  BY SchedulerAssumption DEF Upcoming, Row, Times
<1>2. QED BY <1>1, SchedulerAssumption DEF ScheduleNextAlarm

(* An event that comes in finds the object alive, so everything is covered. *)
LEMMA AliveCovered ==
  ASSUME UpcomingCovered, alive, running = "none"
  PROVE  \A t \in Upcoming(tasks) : alarmAt /= Nothing /\ alarmAt <= t
BY DEF UpcomingCovered

(* An alarm() that is cut short is run again, or leaves a task overdue.    *)
LEMMA CutOffCovers ==
  ASSUME TypeOK, AlarmInv, running \in {"platform", "constructor"}, current /= Nothing,
         Retry, CutShort, running = "constructor" => ~alive', UNCHANGED <<now, tasks>>
  PROVE  UpcomingCovered'
<1>1. CASE running = "platform"
  <2>1. alarmAt' = now /\ now \in Nat
    BY <1>1, SchedulerAssumption DEF Retry, TypeOK
  <2>2. \A t \in Upcoming(tasks)' : now <= t
    BY <2>1, SchedulerAssumption DEF Upcoming, TypeOK, Row, Times
  <2>3. QED BY <2>1, <2>2, SchedulerAssumption DEF UpcomingCovered
<1>2. CASE running = "constructor"
  <2>1. current \in tasks /\ current.time <= now
    BY <1>2 DEF AlarmInv, NeverEarly
  <2>2. current \in Due'
    BY <2>1 DEF Due
  <2>3. QED BY <1>2, <2>2 DEF UpcomingCovered
<1>3. QED BY <1>1, <1>2

(* Every step preserves what is said of the alarm. *)
LEMMA AlarmStep == TypeOK /\ AlarmInv /\ [Next]_vars => AlarmInv'
<1> SUFFICES ASSUME TypeOK, AlarmInv, [Next]_vars PROVE AlarmInv'
  OBVIOUS
<1> USE SchedulerAssumption
<1>0. TypeOK'
  BY TypeStep
<1>1. ASSUME NEW id \in Id,
             \/ \E time \in Times : ScheduleAt(id, time)
             \/ \E delay \in 0 .. Horizon + 1 - now : ScheduleIn(id, delay)
             \/ ScheduleCron(id) \/ ScheduleNever(id)
      PROVE  AlarmInv'
  <2>1. PICK type \in Types, time \in Times \cup {Never} : Scheduling(id, type, time)
    BY <1>1, SchedulingCovers DEF TypeOK
  <2>2. /\ UNCHANGED <<now, alive, running, due, current, ended>> /\ alive
        /\ running \in {"none", "platform"}
        /\ tasks' = Without(id) \cup
             {[id |-> id, type |-> type, time |-> time, call |-> calls + 1]}
    BY <2>1 DEF Scheduling, Insert, handlerVars, Waiting
  <2>3. UpcomingCovered'
    <3>1. CASE ScheduleNextAlarm(tasks')
      <4>1. \A t \in Upcoming(tasks') : alarmAt' /= Nothing /\ alarmAt' <= t
        BY <1>0, <3>1, NextAlarmCovers DEF TypeOK
      <4>2. Upcoming(tasks)' = Upcoming(tasks')
        BY <2>2 DEF Upcoming
      <4>3. QED BY <4>1, <4>2 DEF UpcomingCovered
    <3>2. CASE type = "no-schedule" /\ UNCHANGED alarmAt
      <4>1. Upcoming(tasks)' \subseteq Upcoming(tasks)
        BY <2>2, <3>2 DEF Upcoming, Without
      <4>2. QED BY <2>2, <3>2, <4>1 DEF AlarmInv, UpcomingCovered
    <3>3. QED BY <2>1, <3>1, <3>2 DEF Scheduling
  <2>4. QED BY <2>2, <2>3 DEF AlarmInv, NeverEarly
<1>2. ASSUME NEW id \in Id, CancelTask(id) PROVE AlarmInv'
  <2>1. /\ UNCHANGED <<now, alive, running, due, current, ended>> /\ alive
        /\ running \in {"none", "platform"} /\ ScheduleNextAlarm(tasks')
    BY <1>2 DEF CancelTask, handlerVars, Waiting
  <2>2. \A t \in Upcoming(tasks') : alarmAt' /= Nothing /\ alarmAt' <= t
    BY <1>0, <2>1, NextAlarmCovers DEF TypeOK
  <2>3. Upcoming(tasks)' = Upcoming(tasks')
    BY <2>1 DEF Upcoming
  <2>4. QED BY <2>1, <2>2, <2>3 DEF AlarmInv, UpcomingCovered, NeverEarly
<1>3. ASSUME NEW caller \in {"platform", "constructor"}, StartAlarm(caller),
             alive'
      PROVE  AlarmInv'
  <2>1. /\ running = "none" /\ running' = caller /\ due' = Due
        /\ UNCHANGED <<now, tasks, current, ended>>
    BY <1>3 DEF StartAlarm, tableVars
  <2>2. current' = Nothing /\ due' \subseteq tasks' /\ \A r \in due' : r.time <= now'
    BY <2>1 DEF AlarmInv, Due
  <2>3. QED BY <1>3, <2>1, <2>2 DEF AlarmInv, NeverEarly, UpcomingCovered
<1>4. CASE Construct \/ AlarmFires
  BY <1>3, <1>4 DEF Construct, AlarmFires
<1>5. CASE ExecuteTask
  <2>1. /\ running /= "none" /\ current' \in due /\ due' = due \ {current'}
        /\ current = Nothing /\ UNCHANGED <<now, tasks, alive, running, ended>>
    BY <1>5 DEF ExecuteTask, tableVars
  <2>2. QED BY <2>1 DEF AlarmInv, NeverEarly, UpcomingCovered
<1>6. CASE CallbackReturns
  <2>1. /\ current /= Nothing /\ current' = Nothing /\ ended' = FALSE /\ PutOff
        /\ UNCHANGED <<now, alarmAt, alive, running, due>>
    BY <1>6 DEF CallbackReturns, AlarmInv
  <2>2. running /= "none"
    BY <2>1 DEF AlarmInv
  <2>3. ASSUME running = "constructor" PROVE due \subseteq tasks'
    <3>1. due \subseteq tasks /\ current \in tasks /\ current \notin due
      BY <2>1, <2>3 DEF AlarmInv
    <3>2. \A r \in due : r.id /= current.id
      BY <3>1 DEF TypeOK
    <3>3. due \subseteq Without(current.id)
      BY <3>1, <3>2 DEF Without
    <3>4. QED BY <2>1, <3>3 DEF PutOff, WithTime
  <2>4. QED BY <2>1, <2>2, <2>3 DEF AlarmInv, NeverEarly, UpcomingCovered
<1>13. CASE CallbackEnds
  BY <1>13 DEF CallbackEnds, AlarmInv, NeverEarly, UpcomingCovered, Upcoming, Due
<1>7. CASE CallbackThrows
  <2>1. /\ current /= Nothing /\ Retry /\ CutShort /\ alive' = (running = "platform")
        /\ UNCHANGED <<now, tasks>>
    BY <1>7 DEF CallbackThrows, CutShort
  <2>2. running \in {"platform", "constructor"}
    BY <2>1 DEF AlarmInv, TypeOK
  <2>3. UpcomingCovered'
    BY <2>1, <2>2, CutOffCovers
  <2>4. QED BY <2>1, <2>3 DEF AlarmInv, CutShort, NeverEarly
<1>8. CASE FinishAlarm
  <2>1. /\ ScheduleNextAlarm(tasks) /\ running' = "none" /\ due = {} /\ current = Nothing
        /\ UNCHANGED <<now, tasks, alive, due, current, ended>>
    BY <1>8 DEF FinishAlarm, tableVars
  <2>2. \A t \in Upcoming(tasks) : alarmAt' /= Nothing /\ alarmAt' <= t
    BY <2>1, NextAlarmCovers DEF TypeOK
  <2>3. Upcoming(tasks)' = Upcoming(tasks)
    BY <2>1 DEF Upcoming
  <2>4. QED BY <2>1, <2>2, <2>3 DEF AlarmInv, NeverEarly, UpcomingCovered
<1>9. CASE Crash
  <2>1. /\ running = "none" \/ current /= Nothing
        /\ alive /\ ~alive' /\ Retry /\ CutShort /\ UNCHANGED <<now, tasks>>
    BY <1>9 DEF Crash, CutShort
  <2>2. CASE running = "none"
    <3>1. \A t \in Upcoming(tasks) : alarmAt /= Nothing /\ alarmAt <= t
      BY <2>1, <2>2, AliveCovered DEF AlarmInv
    <3>2. UNCHANGED alarmAt /\ Upcoming(tasks)' = Upcoming(tasks)
      BY <2>1, <2>2 DEF Retry, Upcoming
    <3>3. UpcomingCovered'
      BY <3>1, <3>2 DEF UpcomingCovered
    <3>4. QED BY <2>1, <3>3 DEF AlarmInv, CutShort, NeverEarly
  <2>3. CASE running /= "none"
    <3>1. running \in {"platform", "constructor"}
      BY <2>3 DEF TypeOK
    <3>2. UpcomingCovered'
      BY <2>1, <2>3, <3>1, CutOffCovers
    <3>3. QED BY <2>1, <3>2 DEF AlarmInv, CutShort, NeverEarly
  <2>4. QED BY <2>2, <2>3
<1>10. CASE Tick
  <2>1. /\ now' = now + 1 /\ UNCHANGED <<tasks, alarmAt, alive, running, due, current, ended>>
    BY <1>10 DEF Tick, tableVars, handlerVars
  <2>2. \A r \in tasks \cup due : r.time \in Nat
    BY DEF TypeOK, Row, Times
  <2>3. Upcoming(tasks)' \subseteq Upcoming(tasks) /\ Due \subseteq Due'
    BY <2>1, <2>2 DEF Upcoming, Due, TypeOK
  <2>4. UpcomingCovered'
    BY <2>1, <2>3 DEF AlarmInv, UpcomingCovered
  <2>5. current /= Nothing => current.time \in Nat
    BY DEF TypeOK, Row, Times
  <2>6. /\ \A r \in due' : r.time <= now' 
        /\ NeverEarly'
    BY <2>1, <2>2, <2>5 DEF AlarmInv, NeverEarly, TypeOK
  <2>7. QED BY <2>1, <2>4, <2>6 DEF AlarmInv
<1>11. CASE UNCHANGED vars
  BY <1>11 DEF vars, AlarmInv, tableVars, handlerVars, NeverEarly, UpcomingCovered,
     Upcoming, Due
<1>12. QED
  BY <1>1, <1>2, <1>4, <1>5, <1>6, <1>7, <1>8, <1>9, <1>10, <1>11, <1>13
  DEF Next, Calls, Alarms

(* What is said of the alarm is inductive, given the types. *)
LEMMA AlarmInvCorrect == Spec => []AlarmInv
<1>1. Init => AlarmInv
  BY DEF Init, AlarmInv, NeverEarly, UpcomingCovered, Upcoming
<1>2. QED BY <1>1, TypeCorrect, AlarmStep, PTL DEF Spec

(* While alarm() does not run, the alarm covers every task that is still   *)
(* to come, whatever was scheduled, cancelled, run, or failed.             *)
THEOREM AlarmCovers == Spec => []UpcomingCovered
<1>1. AlarmInv => UpcomingCovered
  BY DEF AlarmInv
<1>2. QED BY <1>1, AlarmInvCorrect, PTL

(* No task is run before the time in its row. *)
THEOREM NothingEarly == Spec => []NeverEarly
<1>1. AlarmInv => NeverEarly
  BY DEF AlarmInv
<1>2. QED BY <1>1, AlarmInvCorrect, PTL

-----------------------------------------------------------------------------
(***************************************************************************)
(* Tasks that have run.                                                    *)
(***************************************************************************)

(* The rows alarm() has read and not done with. *)
Reading == due \cup ({current} \ {Nothing})

(* What has run, ran by now, and no row is left of it but the one whose    *)
(* answer is on the way: a row is known by its call, and a call by its id. *)
AnswerComing(r) == ended /\ r.call = current.call /\ r.time = current.time
DoneInv ==
  /\ \A p \in done : p[1] <= calls /\ p[2] <= now
  /\ \A r \in tasks \cup Reading :
       r.call <= calls /\ (<<r.call, r.time>> \in done => AnswerComing(r))
  /\ \A r, s \in tasks \cup Reading : r.call = s.call => r.id = s.id
  /\ \A r, s \in Reading : r.id = s.id => r = s

(* A new row is of a call that nothing is known of yet. *)
LEMMA InsertDone ==
  ASSUME TypeOK, DoneInv, NEW id \in Id, NEW type \in Types, NEW time \in Times \cup {Never},
         Scheduling(id, type, time)
  PROVE  DoneInv'
<1> USE SchedulerAssumption
<1> DEFINE new == [id |-> id, type |-> type, time |-> time, call |-> calls + 1]
<1>1. /\ tasks' = Without(id) \cup {new} /\ calls' = calls + 1
      /\ UNCHANGED <<now, due, current, ended, done>>
  BY DEF Scheduling, Insert, handlerVars
<1>2. new.call = calls + 1 /\ new.id = id /\ calls \in Nat
  BY DEF TypeOK
<1> HIDE DEF new
<1>3. Reading' = Reading /\ tasks' \cup Reading' \subseteq tasks \cup Reading \cup {new}
  BY <1>1 DEF Reading, Without
<1>4. \A r \in tasks \cup Reading : r.call \in Nat /\ r.call <= calls /\ r.call /= new.call
  <2>1. tasks \cup Reading \subseteq Row
    BY DEF TypeOK, Reading
  <2>2. \A r \in Row : r.call \in Nat
    BY DEF Row
  <2>3. \A r \in tasks \cup Reading : r.call \in Nat /\ r.call <= calls
    BY <2>1, <2>2 DEF DoneInv
  <2>4. QED BY <1>2, <2>3
<1>5. \A p \in done : p[1] \in Nat /\ p[1] <= calls
  BY DEF DoneInv, TypeOK
<1>6. <<new.call, new.time>> \notin done
  BY <1>2, <1>5
<1>7. \A p \in done' : p[1] <= calls' /\ p[2] <= now'
  BY <1>1, <1>2, <1>5 DEF DoneInv
<1>8. \A r \in tasks' \cup Reading' :
        r.call <= calls' /\ (<<r.call, r.time>> \in done' => AnswerComing(r)')
  <2>1. ASSUME NEW r \in tasks \cup Reading
        PROVE  r.call <= calls' /\ (<<r.call, r.time>> \in done' => AnswerComing(r)')
    BY <1>1, <1>2, <1>4 DEF DoneInv, AnswerComing
  <2>2. new.call <= calls' /\ <<new.call, new.time>> \notin done'
    BY <1>1, <1>2, <1>6
  <2>3. QED BY <1>3, <2>1, <2>2
<1>9. \A r, s \in tasks' \cup Reading' : r.call = s.call => r.id = s.id
  BY <1>3, <1>4 DEF DoneInv
<1>10. QED BY <1>1, <1>3, <1>7, <1>8, <1>9 DEF DoneInv

(* A row that is put off keeps its call and its id, and gets a time that   *)
(* is still to come.                                                       *)
LEMMA PutOffRows ==
  ASSUME TypeOK, PutOff
  PROVE  \A r \in tasks' :
           \/ r \in tasks /\ r.id /= current.id
           \/ /\ r.time > now /\ r.id = current.id
              /\ \E s \in tasks : s.id = r.id /\ s.call = r.call
<1>1. CASE current.type /= "cron"
  BY <1>1 DEF PutOff, Without
<1>2. CASE current.type = "cron"
  <2>1. PICK time \in CronTimes :
          tasks' = Without(current.id)
                   \cup {[r EXCEPT !.time = time] : r \in tasks \ Without(current.id)}
    BY <1>2 DEF PutOff, WithTime
  <2>2. time > now
    BY <2>1, SchedulerAssumption DEF CronTimes, TypeOK
  <2>3. ASSUME NEW s \in tasks \ Without(current.id)
        PROVE  /\ s.id = current.id
               /\ [s EXCEPT !.time = time].time = time
               /\ [s EXCEPT !.time = time].id = s.id
               /\ [s EXCEPT !.time = time].call = s.call
    BY <2>3 DEF TypeOK, Row, Without
  <2>4. ASSUME NEW r \in tasks', r \notin Without(current.id)
        PROVE  \E s \in tasks \ Without(current.id) : r = [s EXCEPT !.time = time]
    BY <2>1, <2>4
  <2>5. QED
    <3> TAKE r \in tasks'
    <3>1. CASE r \in Without(current.id)
      BY <3>1 DEF Without
    <3>2. CASE r \notin Without(current.id)
      <4>1. PICK s \in tasks \ Without(current.id) : r = [s EXCEPT !.time = time]
        BY <2>4, <3>2
      <4>2. QED BY <2>2, <2>3, <4>1
    <3>3. QED BY <3>1, <3>2
<1>3. QED BY <1>1, <1>2

(* A task that has run is gone from the table, or has another time. *)
LEMMA ReturnDone ==
  ASSUME TypeOK, AlarmInv, DoneInv, CallbackReturns
  PROVE  DoneInv'
<1> USE SchedulerAssumption
<1>1. /\ current /= Nothing /\ PutOff /\ current' = Nothing /\ ended' = FALSE
      /\ UNCHANGED <<now, due, calls, done>>
  BY DEF CallbackReturns, AlarmInv
<1>2. Reading' \subseteq Reading /\ current \in Reading
  BY <1>1 DEF Reading
<1>3. current \notin due /\ \A r \in Reading' : r \in due
  BY <1>1 DEF Reading, AlarmInv
<1>4. \A p \in done' : p[1] <= calls' /\ p[2] <= now' /\ p[2] \in Nat /\ now \in Nat
  BY <1>1 DEF DoneInv, TypeOK, Times
<1>5. ASSUME NEW r \in Reading'
      PROVE  r.call <= calls' /\ <<r.call, r.time>> \notin done'
  <2>1. r \in Reading /\ r /= current
    BY <1>2, <1>3
  <2>2. r.call /= current.call
    BY <1>2, <2>1 DEF DoneInv
  <2>3. QED BY <1>1, <2>1, <2>2 DEF DoneInv, AnswerComing
<1>6. ASSUME NEW r \in tasks'
      PROVE  r.call <= calls' /\ <<r.call, r.time>> \notin done'
  <2>1. CASE r \in tasks /\ r.id /= current.id
    <3>1. r.call /= current.call
      BY <1>2, <2>1 DEF DoneInv
    <3>2. QED BY <1>1, <2>1, <3>1 DEF DoneInv, AnswerComing
  <2>2. CASE r.time > now /\ \E s \in tasks : s.id = r.id /\ s.call = r.call
    <3>1. r.call <= calls
      BY <2>2 DEF DoneInv
    <3>2. r \in Row
      BY <1>1, PutOffType
    <3>3. r.time \in Nat
      BY <3>2 DEF Row, Times
    <3>4. \A p \in done' : p[2] /= r.time
      BY <1>1, <1>4, <2>2, <3>3
    <3>5. QED BY <1>1, <3>1, <3>4
  <2>3. QED BY <1>1, <2>1, <2>2, PutOffRows
<1>7. ASSUME NEW r \in tasks' \cup Reading'
      PROVE  \E s \in tasks \cup Reading : s.id = r.id /\ s.call = r.call
  BY <1>1, <1>2, PutOffRows
<1>8. \A r, s \in tasks' \cup Reading' : r.call = s.call => r.id = s.id
  BY <1>7 DEF DoneInv
<1>9. QED BY <1>2, <1>4, <1>5, <1>6, <1>8 DEF DoneInv

(* Every other step adds no row, and what has run stays so while its       *)
(* answer is on the way, or is forgotten when it is lost.                  *)
LEMMA FewerRows ==
  ASSUME TypeOK, DoneInv, now' \in {now, now + 1}, UNCHANGED calls, done' \subseteq done,
         tasks' \subseteq tasks, Reading' \subseteq tasks \cup Reading,
         \A r, s \in Reading' : r.id = s.id => r = s,
         \/ UNCHANGED <<ended, current>>
         \/ ~ended
         \/ <<current.call, current.time>> \notin done'
  PROVE  DoneInv'
<1>1. \A p \in done : p[2] \in Nat /\ p[2] <= now /\ now \in Nat
  BY SchedulerAssumption DEF TypeOK, DoneInv, Times
<1>2. \A p \in done' : p[1] <= calls' /\ p[2] <= now'
  BY <1>1 DEF DoneInv
<1>3. tasks' \cup Reading' \subseteq tasks \cup Reading
  OBVIOUS
<1>4. ASSUME NEW r \in tasks' \cup Reading'
      PROVE  r.call <= calls' /\ (<<r.call, r.time>> \in done' => AnswerComing(r)')
  <2>1. r.call <= calls /\ (<<r.call, r.time>> \in done => AnswerComing(r))
    BY <1>3 DEF DoneInv
  <2>2. QED BY <2>1 DEF AnswerComing
<1>5. QED BY <1>2, <1>3, <1>4 DEF DoneInv

(* A callback that has run to its end is of the row that is awaited.       *)
LEMMA EndDone ==
  ASSUME TypeOK, AlarmInv, DoneInv, CallbackEnds
  PROVE  DoneInv'
<1> DEFINE pair == <<current.call, current.time>>
<1>1. /\ current /= Nothing /\ ~ended /\ ended' /\ done' = done \cup {pair}
      /\ UNCHANGED <<now, tasks, due, current, calls>>
  BY DEF CallbackEnds
<1>2. Reading' = Reading /\ current \in Reading
  BY <1>1 DEF Reading
<1>3. pair[1] <= calls /\ pair[2] <= now
  BY <1>1, <1>2 DEF DoneInv, AlarmInv, NeverEarly
<1>4. ASSUME NEW r \in tasks \cup Reading
      PROVE  r.call <= calls' /\ (<<r.call, r.time>> \in done' => AnswerComing(r)')
  <2>1. r.call <= calls /\ <<r.call, r.time>> \notin done
    BY <1>1 DEF DoneInv, AnswerComing
  <2>2. <<r.call, r.time>> = pair => r.call = current.call /\ r.time = current.time
    OBVIOUS
  <2>3. QED BY <1>1, <2>1, <2>2 DEF AnswerComing
<1>5. \A p \in done' : p[1] <= calls' /\ p[2] <= now'
  BY <1>1, <1>3 DEF DoneInv
<1>6. QED BY <1>1, <1>2, <1>4, <1>5 DEF DoneInv

(* Every step preserves what is said of the tasks that have run. *)
LEMMA DoneStep == TypeOK /\ AlarmInv /\ DoneInv /\ [Next]_vars => DoneInv'
<1> SUFFICES ASSUME TypeOK, AlarmInv, DoneInv, [Next]_vars PROVE DoneInv'
  OBVIOUS
<1> USE SchedulerAssumption
<1>1. ASSUME NEW id \in Id,
             \/ \E time \in Times : ScheduleAt(id, time)
             \/ \E delay \in 0 .. Horizon + 1 - now : ScheduleIn(id, delay)
             \/ ScheduleCron(id) \/ ScheduleNever(id)
      PROVE  DoneInv'
  <2>1. PICK type \in Types, time \in Times \cup {Never} : Scheduling(id, type, time)
    BY <1>1, SchedulingCovers DEF TypeOK
  <2>2. QED BY <2>1, InsertDone
<1>2. ASSUME NEW id \in Id, CancelTask(id) PROVE DoneInv'
  <2>1. tasks' \subseteq tasks /\ UNCHANGED <<now, calls, done, due, current, ended>>
    BY <1>2 DEF CancelTask, Without, handlerVars
  <2>2. Reading' = Reading
    BY <2>1 DEF Reading
  <2>3. QED BY <2>1, <2>2, FewerRows DEF DoneInv
<1>3. CASE Construct \/ AlarmFires
  <2>1. /\ running = "none" /\ due' = Due
        /\ UNCHANGED <<now, calls, done, tasks, current, ended>>
    BY <1>3 DEF Construct, AlarmFires, StartAlarm, tableVars
  <2>2. current = Nothing /\ Reading' = Due /\ Due \subseteq tasks
    BY <2>1 DEF AlarmInv, Reading, Due
  <2>3. QED BY <2>1, <2>2, FewerRows DEF TypeOK
<1>4. CASE ExecuteTask
  <2>1. /\ current' \in due /\ due' = due \ {current'} /\ ~ended
        /\ UNCHANGED <<now, calls, done, tasks>>
    BY <1>4 DEF ExecuteTask, tableVars, AlarmInv
  <2>2. Reading' \subseteq due /\ due \subseteq Reading
    BY <2>1 DEF Reading
  <2>3. QED BY <2>1, <2>2, FewerRows DEF DoneInv
<1>5. CASE CallbackReturns
  BY <1>5, ReturnDone
<1>6. CASE CallbackThrows \/ Crash
  <2>1. /\ due' = {} /\ current' = Nothing /\ UNCHANGED <<now, calls, tasks>>
        /\ done' = IF ended THEN done \ {<<current.call, current.time>>} ELSE done
    BY <1>6 DEF CallbackThrows, Crash, CutShort
  <2>2. Reading' = {}
    BY <2>1 DEF Reading
  <2>3. QED BY <2>1, <2>2, FewerRows
<1>7. CASE FinishAlarm \/ Tick \/ UNCHANGED vars
  <2>1. now' \in {now, now + 1} /\ UNCHANGED <<calls, done, tasks, due, current, ended>>
    BY <1>7 DEF FinishAlarm, Tick, vars, tableVars, handlerVars
  <2>2. Reading' = Reading
    BY <2>1 DEF Reading
  <2>3. QED BY <2>1, <2>2, FewerRows DEF DoneInv
<1>8. CASE CallbackEnds
  BY <1>8, EndDone
<1>9. QED
  BY <1>1, <1>2, <1>3, <1>4, <1>5, <1>6, <1>7, <1>8 DEF Next, Calls, Alarms

(* A task that was run to its end is not run again for the same time,      *)
(* whatever fails or crashes afterwards, and whatever is scheduled, unless *)
(* alarm() was cut short before it had the task's own answer.              *)
THEOREM RunOnce == Spec => NotRunAgain
<1>1. Init => DoneInv
  BY DEF Init, DoneInv, Reading
<1>2. TypeOK /\ AlarmInv /\ DoneInv /\ [Next]_vars
        => [Begins => <<current'.call, current'.time>> \notin done]_vars
  <2> SUFFICES ASSUME TypeOK, AlarmInv, DoneInv, [Next]_vars, Begins
               PROVE  <<current'.call, current'.time>> \notin done
    OBVIOUS
  <2>1. ExecuteTask
    BY DEF Begins, Next, Calls, Alarms, ScheduleAt, ScheduleIn, ScheduleCron, ScheduleNever,
       Insert, CancelTask, Construct, AlarmFires, StartAlarm, CallbackEnds, CallbackReturns, CallbackThrows,
       FinishAlarm, Crash, Tick, CutShort, vars, handlerVars
  <2>2. current' \in Reading /\ ~ended
    BY <2>1 DEF ExecuteTask, Reading, AlarmInv
  <2>3. QED BY <2>2 DEF DoneInv, AnswerComing
<1>3. QED BY <1>1, <1>2, DoneStep, TypeCorrect, AlarmInvCorrect, PTL DEF Spec, NotRunAgain
=============================================================================
