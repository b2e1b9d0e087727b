---------------------------- MODULE AlarmService ----------------------------
(***************************************************************************)
(* The alarm that ends a sleep: the console command alarm_sample           *)
(* (ele_ds_pm.c), run by the shell, replaces one one-shot alarm by         *)
(* another; the alarm service thread (alarm.c) is woken by the RTC,        *)
(* rings the alarms that are due and arms the RTC for the next one.  The   *)
(* RTC (drv_rtc.c) compares the time of day only and is never disarmed.    *)
(*                                                                         *)
(* Time is counted in seconds from some midnight, in days of Day seconds.  *)
(* The service thread is preempted and held up by its own log output:      *)
(* every pause is bounded by a number of seconds.  Alarms are numbered in  *)
(* the order of the commands; a number stands for the allocated struct.    *)
(***************************************************************************)
EXTENDS Integers

CONSTANTS
    Day,            \* seconds in a day
    Intervals,      \* arguments of alarm_sample, in seconds
    RT_ALARM_DELAY, \* how late an alarm may still ring
    ServiceLag,     \* bound: seconds from the interrupt to the end of alarm_update
    CommandLag,     \* bound: seconds from reading the time to rt_alarm_start
    MaxAlarms,      \* bound: commands in one behaviour
    MaxTime         \* bound: seconds in one behaviour

Alarm == 1 .. MaxAlarms
None == 0
Time == 0 .. MaxTime

ASSUME AlarmAssumption ==
    /\ Day \in Nat /\ RT_ALARM_DELAY \in Nat /\ RT_ALARM_DELAY < Day
    /\ ServiceLag \in Nat /\ CommandLag \in Nat
    /\ MaxAlarms \in Nat /\ MaxTime \in Nat /\ Day <= MaxTime
    /\ Intervals \subseteq 1 .. (Day - 1)

VARIABLES
    now,                \* the RTC
    state,              \* of every alarm: "unused", "listed", "started", "rung", "freed"
    wktime,             \* of every alarm, in seconds
    container_current,  \* _container.current
    hw,                 \* the time of day in the RTC's alarm register, or Unarmed
    event,              \* the event of the service thread is set
    svc,                \* the service thread: "wait", or "rearm" between the two loops
    shell,              \* alarm_sample: "prompt", "delete", "create", "start"
    alarm,              \* myalarm
    made,               \* commands so far: the number of the alarm of this command
    lag,                \* seconds the service thread has not kept up with its event
    wait                \* seconds since alarm_sample read the time

alarmVars ==
    <<now, state, wktime, container_current, hw, event, svc, shell, alarm, made, lag, wait>>

Unarmed == -1
MutexFree == svc = "wait"
Listed(a) == state[a] \in {"listed", "started", "rung"}
DaySec(t) == t % Day

\* alarm_set: the RTC is given the alarm's time of day when the alarm is
\* started, and is left as it is when it is not.
alarm_set(a) == IF state[a] = "started" THEN DaySec(wktime[a]) ELSE hw

-----------------------------------------------------------------------------
(* alarm_sample.                                                           *)

\* The time is read here, before the old alarm is deleted and the new one set.
ReadTime(interval) ==
    /\ shell = "prompt" /\ made < MaxAlarms
    /\ now + interval + RT_ALARM_DELAY < MaxTime
    /\ made' = made + 1
    /\ wktime' = [wktime EXCEPT ![made + 1] = now + interval]
    /\ shell' = IF alarm = None THEN "create" ELSE "delete"
    /\ wait' = 0
    /\ UNCHANGED <<now, state, container_current, hw, event, svc, alarm, lag>>

\* Mutant: the current alarm is not forgotten.
rt_alarm_delete_KeepsCurrent ==
    /\ shell = "delete" /\ MutexFree
    /\ state' = [state EXCEPT ![alarm] = "freed"]
    /\ alarm' = None
    /\ shell' = "create"
    /\ UNCHANGED <<now, wktime, container_current, hw, event, svc, made, lag, wait>>

\* rt_alarm_delete.  alarm_update finds no started alarm: it changes nothing.
rt_alarm_delete ==
    /\ shell = "delete" /\ MutexFree
    /\ state' = [state EXCEPT ![alarm] = "freed"]
    /\ container_current' = IF container_current = alarm THEN None ELSE container_current
    /\ alarm' = None
    /\ shell' = "create"
    /\ UNCHANGED <<now, wktime, hw, event, svc, made, lag, wait>>

\* The allocation may fail: alarm_sample logs it and is over.
rt_alarm_create ==
    /\ shell = "create" /\ MutexFree
    /\ \/ /\ alarm' = made
          /\ state' = [state EXCEPT ![made] = "listed"]
          /\ shell' = "start"
       \/ /\ shell' = "prompt"
          /\ UNCHANGED <<alarm, state>>
    /\ UNCHANGED <<now, wktime, container_current, hw, event, svc, made, lag, wait>>

\* An alarm in the last second of a day is moved ahead.
alarm_setup(t) ==
    IF DaySec(t) = Day - 1 THEN t - DaySec(t) + Day - RT_ALARM_DELAY ELSE t

\* Whether the new alarm is set in place of the current one.
Replaces(new, old, sec) ==
    \/ new < old /\ new > sec
    \/ new > sec /\ old < sec
    \/ new < old /\ old < sec

rt_alarm_start ==
    /\ shell = "start" /\ MutexFree
    /\ LET t == alarm_setup(wktime[alarm])
           set == \/ container_current = None
                  \/ Replaces(DaySec(t), DaySec(wktime[container_current]), DaySec(now))
       IN  /\ wktime' = [wktime EXCEPT ![alarm] = t]
           /\ hw' = IF set THEN DaySec(t) ELSE hw
           /\ container_current' = IF set THEN alarm ELSE container_current
    /\ state' = [state EXCEPT ![alarm] = "started"]
    /\ shell' = "prompt"
    /\ UNCHANGED <<now, event, svc, alarm, made, lag, wait>>

-----------------------------------------------------------------------------
(* The service thread.                                                     *)

\* Mutant: the window ends a second early.
Due_OffByOne(a) == state[a] = "started" /\ now >= wktime[a] /\ now - wktime[a] < RT_ALARM_DELAY

Due(a) == state[a] = "started" /\ now >= wktime[a] /\ now - wktime[a] <= RT_ALARM_DELAY

\* rt_event_recv, then the first loop of alarm_update, with the mutex taken:
\* the alarms that are due are stopped and their callbacks called.
alarm_wakeup ==
    /\ svc = "wait" /\ event
    /\ event' = FALSE
    /\ state' = [a \in Alarm |-> IF Due(a) THEN "rung" ELSE state[a]]
    /\ svc' = IF \E a \in Alarm : Listed(a) THEN "rearm" ELSE "wait"
    /\ lag' = IF svc' = "wait" THEN 0 ELSE lag
    /\ UNCHANGED <<now, wktime, container_current, hw, shell, alarm, made, wait>>

Started == {a \in Alarm : state[a] = "started"}
Ahead(a) == DaySec(wktime[a]) - DaySec(now)

\* The second loop, which reads the time again.  At most one alarm is started:
\* it is the next one, the one before now, or neither when it is due this second.
alarm_update ==
    /\ svc = "rearm"
    /\ svc' = "wait"
    /\ lag' = IF event THEN 1 ELSE 0
    /\ \/ \E a \in Started :
             /\ Ahead(a) # 0
             /\ hw' = alarm_set(a)
             /\ container_current' = a
       \/ /\ \A a \in Started : Ahead(a) = 0
          /\ hw' = IF container_current = None THEN hw ELSE alarm_set(container_current)
          /\ container_current' = IF container_current \in Started THEN container_current ELSE None
    /\ UNCHANGED <<now, state, wktime, event, shell, alarm, made, wait>>

\* A second passes; the RTC compares and interrupts, and the handler sets the
\* event.  No pause is longer than its bound.
Second ==
    /\ now < MaxTime
    /\ event \/ svc = "rearm" => lag < ServiceLag
    /\ shell # "prompt" => wait < CommandLag
    /\ now' = now + 1
    /\ event' = (event \/ DaySec(now + 1) = hw)
    /\ lag' = IF event \/ svc = "rearm" THEN lag + 1 ELSE 0
    /\ wait' = IF shell = "prompt" THEN 0 ELSE wait + 1
    /\ UNCHANGED <<state, wktime, container_current, hw, svc, shell, alarm, made>>

-----------------------------------------------------------------------------
AlarmInit ==
    /\ now \in 0 .. (Day - 1)
    /\ state = [a \in Alarm |-> "unused"]
    /\ wktime = [a \in Alarm |-> 0]
    /\ container_current = None /\ hw = Unarmed
    /\ event = FALSE /\ svc = "wait"
    /\ shell = "prompt" /\ alarm = None /\ made = 0
    /\ lag = 0 /\ wait = 0

alarm_sample ==
    \/ \E i \in Intervals : ReadTime(i)
    \/ rt_alarm_delete \/ rt_alarm_create \/ rt_alarm_start

Service == alarm_wakeup \/ alarm_update

AlarmNext == alarm_sample \/ Service \/ Second

\* The threads run and the clock ticks; nobody has to type another command.
AlarmFairness ==
    /\ WF_alarmVars(rt_alarm_delete) /\ WF_alarmVars(rt_alarm_create)
    /\ WF_alarmVars(rt_alarm_start)
    /\ WF_alarmVars(Service) /\ WF_alarmVars(Second)

AlarmSpec == AlarmInit /\ [][AlarmNext]_alarmVars /\ AlarmFairness
-----------------------------------------------------------------------------
(* Properties.                                                             *)

\* The types of the variables; at most one alarm is in the service's list.
AlarmTypeOK ==
    /\ now \in Time
    /\ state \in [Alarm -> {"unused", "listed", "started", "rung", "freed"}]
    /\ wktime \in [Alarm -> Time]
    /\ container_current \in Alarm \cup {None} /\ alarm \in Alarm \cup {None}
    /\ made \in 0 .. MaxAlarms
    /\ hw \in {Unarmed} \cup 0 .. (Day - 1)
    /\ event \in BOOLEAN /\ svc \in {"wait", "rearm"}
    /\ shell \in {"prompt", "delete", "create", "start"}
    /\ lag \in 0 .. ServiceLag /\ wait \in 0 .. CommandLag
    /\ \A a \in Alarm : Listed(a) => a = alarm

\* _container.current never points to an alarm that rt_alarm_delete has freed: the
\* next rt_alarm_start would read its time and alarm_update set it.  The list never
\* holds an alarm that alarm_sample has lost hold of (the last conjunct of AlarmTypeOK).
CurrentIsListed == AlarmTypeOK /\ (container_current # None => Listed(container_current))

\* An alarm that is still to come is the one in the RTC, whatever the RTC held for
\* the alarms before it: this is what sleep_mode relies on when it stops the clocks.
ArmedForStarted ==
    \A a \in Alarm :
        state[a] = "started" /\ MutexFree /\ wktime[a] > now =>
            container_current = a /\ hw = DaySec(wktime[a])

\* A started alarm does not outlive the RT_ALARM_DELAY seconds in which alarm_wakeup
\* recognises it: a one-shot alarm missed once is never rung.
NeverMissed ==
    \A a \in Alarm : state[a] = "started" => now <= wktime[a] + RT_ALARM_DELAY

\* An alarm that is started rings, unless a later command deletes it.
EveryAlarmRings ==
    \A a \in Alarm : state[a] = "started" ~> state[a] \in {"rung", "freed"}
=============================================================================
