---------------------------- MODULE SleepProofs ----------------------------
(***************************************************************************)
(* The way in and out of STOP mode and the alarm that ends it, each on its *)
(* own.                                                                    *)
(*                                                                         *)
(* PowerManager, for every set of worker threads, every period, every idle *)
(* delay and any number of commands.                                       *)
(*                                                                         *)
(* AlarmService, for every length of a day, every interval, every window   *)
(* and any number of commands; the timeliness of an alarm for threads that *)
(* are held up no longer than Prompt allows.                               *)
(***************************************************************************)
EXTENDS PowerManager, AlarmService, TLAPS

-----------------------------------------------------------------------------
(* PowerManager                                                            *)

Stat == {"ready", "running", "suspended"}

\* The masked section belongs to the idle thread, which rt_thread_mdelay has left
\* suspended, and is entered only while NONE is not requested.
Masked ==
    /\ pc # "loop" => /\ modes["NONE"] = 0
                      /\ current = "idle" /\ stat["idle"] = "suspended"
                      /\ entry_stop_cnt >= 1
    /\ entry_stop_cnt = 2 => pc # "loop"

\* With the ticks stopped and none pending, nothing resumes a suspended idle.
IdleIsOut == ~tickint /\ "SysTick" \notin pending /\ stat["idle"] = "suspended"

\* While DEEP is selected the alarm is armed; or it could not be; or it has fired
\* and its interrupt is pending; or it is over and the idle thread will not run
\* again.
Wakeup ==
    modes["NONE"] = 0 =>
        \/ rtc_armed \/ unarmed
        \/ IdleIsOut /\ pc # "critical" /\ "RTC" \in pending
        \/ IdleIsOut /\ pc = "loop" /\ current # "idle"

\* HAL_SuspendTick precedes the wait for an interrupt.
TicksOff == pc = "wfi" => ~tickint

PInv == TypeOK /\ WorkConserving /\ RestoredWhenAwake /\ SleepIsRequested /\ Masked
        /\ TicksOff /\ Wakeup

-----------------------------------------------------------------------------
\* rt_schedule leaves the processor to a runnable thread whenever there is one,
\* and to idle only when it is the only one; it resumes and suspends no thread.
LEMMA Scheduling ==
    ASSUME NEW st \in [Thread -> Stat], current \in Thread,
           \A t \in Thread : st[t] = "running" => t = current,
           rt_schedule(st)
    PROVE  /\ stat' \in [Thread -> Stat]
           /\ current' \in Thread
           /\ WorkConserving'
           /\ \A t \in Thread : (stat'[t] = "suspended") <=> (st[t] = "suspended")
           /\ current' # current => st[current'] # "suspended"
           /\ Runnable(st) = {} => current' = current
           /\ (\E t \in Thread : t # "idle" /\ st[t] # "suspended") => current' # "idle"
<1> USE DEF Thread, Stat
<1>1. CASE Best(st) = {} /\ stat' = st /\ current' = current
  <2>1. Runnable(st) = {}
    BY <1>1 DEF Best
  <2>2. \A t \in Thread : st[t] = "suspended"
    BY <2>1 DEF Runnable
  <2> QED
    BY <1>1, <2>1, <2>2 DEF WorkConserving, Runnable
<1>2. ASSUME NEW t \in Best(st), current' = t,
             stat' = [u \in Thread |-> IF u = t THEN "running"
                                       ELSE IF st[u] = "running" THEN "ready" ELSE st[u]]
      PROVE  /\ stat' \in [Thread -> Stat]
             /\ current' \in Thread
             /\ WorkConserving'
             /\ \A u \in Thread : (stat'[u] = "suspended") <=> (st[u] = "suspended")
             /\ current' # current => st[current'] # "suspended"
             /\ Runnable(st) = {} => current' = current
             /\ (\E u \in Thread : u # "idle" /\ st[u] # "suspended") => current' # "idle"
  <2>1. t \in Thread /\ st[t] # "suspended"
    BY <1>2 DEF Best, Runnable
  <2>2. stat' \in [Thread -> Stat] /\ current' \in Thread
    BY <1>2, <2>1
  <2>3. \A u \in Thread : (stat'[u] = "suspended") <=> (st[u] = "suspended")
    BY <1>2, <2>1
  <2>4. t = "idle" => \A u \in Thread : u # "idle" => st[u] = "suspended"
    BY <1>2 DEF Best, Runnable
  <2>5. \A u \in Thread : stat'[u] = "running" => u = t
    BY <1>2
  <2>6. stat'[t] = "running"
    BY <1>2, <2>1
  <2>7. t = "idle" => \A u \in Thread : u # "idle" => stat'[u] = "suspended"
    BY <2>3, <2>4
  <2>8. WorkConserving'
    BY <1>2, <2>5, <2>6, <2>7 DEF WorkConserving, Runnable
  <2>9. Runnable(st) # {}
    BY <2>1 DEF Runnable
  <2> QED
    BY <1>2, <2>1, <2>2, <2>3, <2>4, <2>8, <2>9
<1> QED
  BY <1>1, <1>2 DEF rt_schedule

\* Waking threads changes no other, and makes running only the current one.
LEMMA Waking ==
    ASSUME NEW woken \in SUBSET Thread, TypeOK, WorkConserving
    PROVE  LET st == rt_sched_insert_thread(woken)
           IN  /\ st \in [Thread -> Stat]
               /\ \A t \in Thread : st[t] = "running" => t = current
               /\ \A t \in Thread : (st[t] = "suspended") <=>
                                    (stat[t] = "suspended" /\ t \notin woken)
BY DEF rt_sched_insert_thread, TypeOK, WorkConserving, Stat

\* Suspending the current thread leaves no thread running.
LEMMA Suspending ==
    ASSUME TypeOK, WorkConserving
    PROVE  LET st == [stat EXCEPT ![current] = "suspended"]
           IN  /\ st \in [Thread -> Stat]
               /\ \A t \in Thread : st[t] = "running" => t = current
               /\ \A t \in Thread : (st[t] = "suspended") <=>
                                    (stat[t] = "suspended" \/ t = current)
BY DEF TypeOK, WorkConserving, Stat
-----------------------------------------------------------------------------
\* The device starts with NONE requested and everything on.
LEMMA InitPInv == Init => PInv
<1> SUFFICES ASSUME Init PROVE PInv
  OBVIOUS
<1> USE PowerAssumption DEF Init
<1>1. TypeOK
  <2>1. modes \in [{"NONE", "DEEP"} -> 0 .. 255]
    OBVIOUS
  <2>2. timer \in [Thread -> Nat]
    <3>1. 0 .. Period \subseteq Nat
      OBVIOUS
    <3> QED
      BY <3>1
  <2>3. stat \in [Thread -> {"ready", "running", "suspended"}] /\ current \in Thread
    BY DEF Thread
  <2>4. tickint \in BOOLEAN /\ gpio \in BOOLEAN /\ rtc_armed \in BOOLEAN /\ unarmed \in BOOLEAN
    BY Zenon
  <2>5. entry_stop_cnt \in 0 .. 2 /\ commands \in 0 .. MaxCommands
    OBVIOUS
  <2>6. pc = "loop" /\ pending = {} /\ clock = "pll"
    OBVIOUS
  <2> HIDE DEF Init
  <2> QED
    BY <2>1, <2>2, <2>3, <2>4, <2>5, <2>6 DEF TypeOK
<1>2. WorkConserving
  BY Zenon DEF WorkConserving, Runnable, Thread
<1> QED
  BY <1>1, <1>2 DEF PInv, RestoredWhenAwake, SleepIsRequested, Masked, TicksOff, Wakeup

\* An interrupt handler runs unmasked and touches only threads and timers.
LEMMA HandlerPInv == PInv /\ Handler => PInv'
<1> SUFFICES ASSUME PInv, Handler PROVE PInv'
  OBVIOUS
<1> USE DEF PInv
<1> DEFINE due == {t \in Thread : timer[t] = 1}
<1>1. CASE SysTick_Handler
  <2>1. due \subseteq Thread
    OBVIOUS
  <2> DEFINE st == rt_sched_insert_thread(due)
  <2>2. rt_schedule(st) /\ current \in Thread
    BY <1>1 DEF SysTick_Handler, TypeOK
  <2>3. /\ st \in [Thread -> Stat]
        /\ \A t \in Thread : st[t] = "running" => t = current
    BY <2>1, Waking
  <2> HIDE DEF st
  <2>4. stat' \in [Thread -> Stat] /\ current' \in Thread /\ WorkConserving'
    BY <2>2, <2>3, Scheduling
  <2>5. timer' \in [Thread -> Nat]
    BY <1>1 DEF SysTick_Handler, TypeOK
  <2>6. pending' \subseteq Irq
    BY <1>1 DEF SysTick_Handler, TypeOK
  <2>7. TypeOK'
    BY <1>1, <2>4, <2>5, <2>6 DEF SysTick_Handler, TypeOK, Stat, board
  <2>8. Masked' /\ TicksOff' /\ RestoredWhenAwake' /\ SleepIsRequested'
    BY <1>1 DEF SysTick_Handler, Masked, TicksOff, RestoredWhenAwake, SleepIsRequested, board, Unmasked
  <2>9. Wakeup'
    BY <1>1 DEF SysTick_Handler, Wakeup, IdleIsOut, board, Unmasked
  <2> QED
    BY <2>4, <2>7, <2>8, <2>9
<1>2. ASSUME NEW irq \in {"RTC", "USART"}, NEW th \in {"alarm", "tshell"}, Wakes(irq, th),
             irq = "RTC" => th = "alarm"
      PROVE  PInv'
  <2> DEFINE woken == {th} \cap {u \in Thread : stat[u] = "suspended"}
  <2> DEFINE st == rt_sched_insert_thread(woken)
  <2>1. woken \subseteq Thread /\ th \in Thread /\ th # "idle" /\ "idle" \notin woken
    BY DEF Thread
  <2>2. rt_schedule(st) /\ current \in Thread
    BY <1>2 DEF Wakes, TypeOK
  <2>3. /\ st \in [Thread -> Stat]
        /\ \A t \in Thread : st[t] = "running" => t = current
        /\ \A t \in Thread : (st[t] = "suspended") <=> (stat[t] = "suspended" /\ t \notin woken)
    BY <2>1, Waking
  <2>4. st[th] # "suspended"
    BY <2>1, <2>3
  <2> HIDE DEF st
  <2>5. /\ stat' \in [Thread -> Stat] /\ current' \in Thread /\ WorkConserving'
        /\ \A t \in Thread : (stat'[t] = "suspended") <=> (st[t] = "suspended")
        /\ current' # "idle"
    BY <2>1, <2>2, <2>3, <2>4, Scheduling
  <2>6. stat["idle"] = "suspended" => stat'["idle"] = "suspended"
    BY <2>1, <2>3, <2>5 DEF Thread
  <2>7. TypeOK'
    BY <1>2, <2>5 DEF Wakes, TypeOK, Stat, board, Irq
  <2>8. Masked' /\ TicksOff' /\ RestoredWhenAwake' /\ SleepIsRequested'
    BY <1>2 DEF Wakes, Masked, TicksOff, RestoredWhenAwake, SleepIsRequested, board, Unmasked
  <2>9. Wakeup'
    BY <1>2, <2>5, <2>6 DEF Wakes, Wakeup, IdleIsOut, board, Unmasked
  <2> QED
    BY <2>5, <2>7, <2>8, <2>9
<1> QED
  BY <1>1, <1>2 DEF Handler, RTC_Alarm_IRQHandler, USART1_IRQHandler

\* A wait of the current thread, idle or not, in either of its forms.
LEMMA Waiting ==
    ASSUME PInv, rt_schedule([stat EXCEPT ![current] = "suspended"])
    PROVE  /\ stat' \in [Thread -> Stat] /\ current' \in Thread /\ WorkConserving'
           /\ stat'[current] = "suspended"
           /\ stat["idle"] = "suspended" => stat'["idle"] = "suspended"
           /\ stat["idle"] = "suspended" /\ current # "idle" => current' # "idle"
           /\ current = "idle" => current' = "idle"
<1> DEFINE st == [stat EXCEPT ![current] = "suspended"]
<1>1. TypeOK /\ WorkConserving /\ current \in Thread
  BY DEF PInv, TypeOK
<1>2. /\ st \in [Thread -> Stat]
      /\ \A t \in Thread : st[t] = "running" => t = current
      /\ \A t \in Thread : (st[t] = "suspended") <=> (stat[t] = "suspended" \/ t = current)
  BY <1>1, Suspending
<1>3. rt_schedule(st)
  OBVIOUS
<1> HIDE DEF st
<1>4. /\ stat' \in [Thread -> Stat] /\ current' \in Thread /\ WorkConserving'
      /\ \A t \in Thread : (stat'[t] = "suspended") <=> (st[t] = "suspended")
      /\ current' # current => st[current'] # "suspended"
      /\ Runnable(st) = {} => current' = current
  BY <1>1, <1>2, <1>3, Scheduling
<1>5. current = "idle" => Runnable(st) = {}
  <2> SUFFICES ASSUME current = "idle", NEW t \in Thread, st[t] # "suspended" PROVE FALSE
    BY <1>2 DEF Runnable, Stat
  <2>1. stat[t] # "suspended" /\ t # "idle"
    BY <1>2
  <2>2. stat[t] \in {"ready", "running"}
    BY <1>1, <2>1 DEF TypeOK
  <2> QED
    BY <1>1, <2>1, <2>2 DEF WorkConserving, Runnable
<1>6. "idle" \in Thread
  BY DEF Thread
<1> QED
  BY <1>1, <1>2, <1>4, <1>5, <1>6
\* A step of the idle thread.
LEMMA IdlePInv == PInv /\ IdleStep => PInv'
<1> SUFFICES ASSUME PInv, IdleStep PROVE PInv'
  OBVIOUS
<1> USE DEF PInv
<1>1. CASE IdleEntersDeep
  <2>1. current = "idle" /\ pc = "loop" /\ pending = {} /\ modes["NONE"] = 0
    BY <1>1 DEF IdleEntersDeep, Executes, Unmasked, _pm_select_sleep_mode, TypeOK
  <2>2. /\ stat' \in [Thread -> Stat] /\ current' = "idle" /\ WorkConserving'
        /\ stat'["idle"] = "suspended" /\ timer' \in [Thread -> Nat]
    <3>1. CASE stat[current] = "running"
      <4>1. rt_schedule([stat EXCEPT ![current] = "suspended"])
        BY <1>1, <3>1 DEF IdleEntersDeep, rt_thread_mdelay
      <4>2. timer' = [timer EXCEPT ![current] = IdleDelay]
        BY <1>1, <3>1 DEF IdleEntersDeep, rt_thread_mdelay
      <4>3. timer' \in [Thread -> Nat]
        BY <4>2, PowerAssumption DEF TypeOK
      <4> QED
        BY <2>1, <4>1, <4>3, Waiting
    <3>2. CASE stat[current] # "running"
      <4>1. stat' = stat /\ timer' = timer /\ current' = current
        BY <1>1, <3>2 DEF IdleEntersDeep, rt_thread_mdelay, kernel
      <4>2. "idle" \in Thread
        BY DEF Thread
      <4>3. stat["idle"] = "suspended"
        BY <2>1, <3>2, <4>2 DEF WorkConserving, Runnable, TypeOK
      <4> QED
        BY <2>1, <4>1, <4>3 DEF TypeOK, Stat, WorkConserving, Runnable
    <3> QED
      BY <3>1, <3>2
  <2>3. entry_stop_cnt' \in 1 .. 2
    BY <1>1, <2>1 DEF IdleEntersDeep, TypeOK, Masked
  <2>4. TypeOK'
    <3>1. gpio' \in BOOLEAN /\ tickint' \in BOOLEAN /\ rtc_armed' \in BOOLEAN
          /\ unarmed' \in BOOLEAN
      BY <1>1, Zenon DEF IdleEntersDeep, TypeOK
    <3>2. /\ modes' = modes /\ pending' = pending /\ clock' = clock /\ commands' = commands
          /\ pc' = "critical" /\ current' \in Thread /\ entry_stop_cnt' \in 0 .. 2
      BY <1>1, <2>2, <2>3 DEF IdleEntersDeep, Thread
    <3> QED
      BY <2>2, <3>1, <3>2 DEF TypeOK, Stat
  <2>5. Masked' /\ TicksOff' /\ RestoredWhenAwake' /\ SleepIsRequested'
    BY <1>1, <2>1, <2>2, <2>3
       DEF IdleEntersDeep, Masked, TicksOff, RestoredWhenAwake, SleepIsRequested
  <2>6. Wakeup'
    BY <1>1, <2>1 DEF IdleEntersDeep, Wakeup
  <2> QED
    BY <2>2, <2>4, <2>5, <2>6
<1>2. CASE IdleWaitsForInterrupt
  <2>1. TypeOK' /\ WorkConserving'
    BY <1>2, Zenon DEF IdleWaitsForInterrupt, TypeOK, WorkConserving, Runnable, kernel
  <2>2. modes["NONE"] = 0
    BY <1>2 DEF IdleWaitsForInterrupt, Masked
  <2>3. Masked' /\ TicksOff' /\ RestoredWhenAwake' /\ SleepIsRequested'
    BY <1>2, <2>2
       DEF IdleWaitsForInterrupt, Masked, TicksOff, RestoredWhenAwake, SleepIsRequested, kernel
  <2>4. Wakeup'
    BY <1>2, <2>2 DEF IdleWaitsForInterrupt, Wakeup
  <2> QED
    BY <2>1, <2>3, <2>4
<1>3. CASE IdleWakes
  <2>1. WorkConserving'
    BY <1>3 DEF IdleWakes, WorkConserving, Runnable, kernel
  <2>2. modes["NONE"] = 0 /\ modes["DEEP"] > 0
    BY <1>3 DEF IdleWakes, Masked, SleepIsRequested
  <2>3. CASE entry_stop_cnt < 2
    <3>1. modes' = modes /\ entry_stop_cnt' = entry_stop_cnt /\ tickint' = tickint
          /\ gpio' = gpio /\ clock' = clock
      BY <1>3, <2>3 DEF IdleWakes, Restore, TypeOK, board
    <3>2. TypeOK'
      BY <1>3, <3>1 DEF IdleWakes, TypeOK, kernel
    <3>3. Masked' /\ TicksOff' /\ RestoredWhenAwake' /\ SleepIsRequested'
      BY <1>3, <2>2, <2>3, <3>1
         DEF IdleWakes, Masked, TicksOff, RestoredWhenAwake, SleepIsRequested, kernel, TypeOK
    <3>4. Wakeup'
      BY <1>3, <3>1 DEF IdleWakes, Wakeup, IdleIsOut, kernel
    <3> QED
      BY <2>1, <3>2, <3>3, <3>4
  <2>4. CASE entry_stop_cnt >= 2
    <3>1. Restore
      BY <1>3, <2>4 DEF IdleWakes, TypeOK
    <3> DEFINE released == rt_pm_release(modes, "DEEP")
    <3>2. released \in [{"NONE", "DEEP"} -> 0 .. 255] /\ released["NONE"] = 0
      BY <2>2 DEF rt_pm_release, TypeOK
    <3>3. modes' = rt_pm_request(released, "NONE")
      BY <3>1 DEF Restore
    <3> HIDE DEF released
    <3> DEFINE asked == rt_pm_request(released, "NONE")
    <3>4. asked \in [{"NONE", "DEEP"} -> 0 .. 255] /\ asked["NONE"] = 1
      BY <3>2 DEF rt_pm_request
    <3>5. modes' \in [{"NONE", "DEEP"} -> 0 .. 255] /\ modes'["NONE"] = 1
      BY <3>3, <3>4
    <3>6. TypeOK'
      BY <1>3, <3>1, <3>5, SMTT(20) DEF IdleWakes, Restore, TypeOK, kernel
    <3>7. Masked' /\ TicksOff' /\ RestoredWhenAwake' /\ SleepIsRequested' /\ Wakeup'
      BY <1>3, <3>1, <3>5
         DEF IdleWakes, Restore, Masked, TicksOff, RestoredWhenAwake, SleepIsRequested, Wakeup
    <3> QED
      BY <2>1, <3>6, <3>7
  <2> QED
    BY <2>3, <2>4 DEF TypeOK
<1> QED
  BY <1>1, <1>2, <1>3 DEF IdleStep

\* A step of another thread: it waits again, after the command or without one.
LEMMA ThreadPInv == PInv /\ ThreadStep => PInv'
<1> SUFFICES ASSUME PInv, ThreadStep PROVE PInv'
  OBVIOUS
<1> USE DEF PInv
<1>1. /\ pc = "loop" /\ pc' = "loop" /\ pending = {} /\ pending' = {}
      /\ current # "idle" /\ stat[current] = "running"
      /\ entry_stop_cnt' = entry_stop_cnt /\ tickint' = tickint /\ gpio' = gpio
      /\ clock' = clock /\ commands' = commands
  BY PowerAssumption DEF ThreadStep, rt_alarmsvc_thread, cmd_entry_sleep_mode, WorkerPass,
         Runs, Executes, Unmasked, board
<1>2. rt_schedule([stat EXCEPT ![current] = "suspended"])
  BY <1>1, Zenon DEF ThreadStep, rt_alarmsvc_thread, cmd_entry_sleep_mode, WorkerPass,
              WaitForever, rt_thread_mdelay
<1>3. timer' = timer \/ timer' = [timer EXCEPT ![current] = Period]
  BY <1>1 DEF ThreadStep, rt_alarmsvc_thread, cmd_entry_sleep_mode, WorkerPass,
              WaitForever, rt_thread_mdelay
<1>4. timer' \in [Thread -> Nat]
  BY <1>3, PowerAssumption DEF TypeOK
<1>5. /\ stat' \in [Thread -> Stat] /\ current' \in Thread /\ WorkConserving'
      /\ stat["idle"] = "suspended" => stat'["idle"] = "suspended"
      /\ stat["idle"] = "suspended" /\ current # "idle" => current' # "idle"
  BY <1>2, Waiting
<1>6. CASE cmd_entry_sleep_mode
  <2> DEFINE asked == rt_pm_request(modes, "DEEP")
  <2>1. asked \in [{"NONE", "DEEP"} -> 0 .. 255] /\ asked["DEEP"] > 0
        /\ asked["NONE"] = modes["NONE"]
    BY DEF rt_pm_request, TypeOK
  <2>2. asked["NONE"] <= 1
    BY <2>1 DEF SleepIsRequested
  <2>3. modes' = rt_pm_release(asked, "NONE")
    BY <1>6 DEF cmd_entry_sleep_mode
  <2>4. /\ rtc_armed' \in BOOLEAN /\ unarmed' \in BOOLEAN
        /\ rtc_armed' \/ unarmed'
    <3>1. CASE rtc_armed' = TRUE /\ unarmed' = FALSE
      BY <3>1, Zenon
    <3>2. CASE unarmed' = ~rtc_armed /\ rtc_armed' = rtc_armed
      <4>1. CASE rtc_armed = TRUE
        BY <3>2, <4>1, Zenon
      <4>2. CASE rtc_armed = FALSE
        BY <3>2, <4>2, Zenon
      <4>3. rtc_armed \in BOOLEAN
        BY DEF TypeOK
      <4> QED
        BY <4>1, <4>2, <4>3, Zenon
    <3> QED
      BY <1>6, <3>1, <3>2, Zenon DEF cmd_entry_sleep_mode, ArmRtc
  <2> HIDE DEF asked
  <2> DEFINE left == rt_pm_release(asked, "NONE")
  <2>5. left \in [{"NONE", "DEEP"} -> 0 .. 255] /\ left["DEEP"] > 0 /\ left["NONE"] = 0
    BY <2>1, <2>2 DEF rt_pm_release
  <2>6. modes' \in [{"NONE", "DEEP"} -> 0 .. 255] /\ modes'["DEEP"] > 0 /\ modes'["NONE"] = 0
    BY <2>3, <2>5
  <2>7. TypeOK'
    BY <1>1, <1>4, <1>5, <2>4, <2>6 DEF TypeOK, Stat
  <2> QED
    BY <1>1, <1>5, <2>4, <2>6, <2>7
       DEF Masked, TicksOff, RestoredWhenAwake, SleepIsRequested, Wakeup
<1>7. CASE modes' = modes /\ rtc_armed' = rtc_armed /\ unarmed' = unarmed
  <2>1. TypeOK'
    BY <1>1, <1>4, <1>5, <1>7 DEF TypeOK, Stat
  <2>2. Masked' /\ TicksOff' /\ RestoredWhenAwake' /\ SleepIsRequested'
    BY <1>1, <1>7 DEF Masked, TicksOff, RestoredWhenAwake, SleepIsRequested
  <2>3. Wakeup'
    BY <1>1, <1>5, <1>7 DEF Wakeup, IdleIsOut
  <2> QED
    BY <1>5, <2>1, <2>2, <2>3
<1> QED
  BY <1>6, <1>7 DEF ThreadStep, rt_alarmsvc_thread, WorkerPass

\* The hardware and the console: only pending, rtc_armed and commands change.
LEMMA WorldPInv == PInv /\ (SysTickElapses \/ RtcFires \/ ConsoleLine) => PInv'
<1> SUFFICES ASSUME PInv, SysTickElapses \/ RtcFires \/ ConsoleLine PROVE PInv'
  OBVIOUS
<1> USE DEF PInv
<1>1. /\ stat' = stat /\ timer' = timer /\ current' = current /\ modes' = modes /\ pc' = pc
      /\ entry_stop_cnt' = entry_stop_cnt /\ tickint' = tickint /\ gpio' = gpio
      /\ clock' = clock /\ pending \subseteq pending' /\ pending' \subseteq Irq
  BY Zenon DEF SysTickElapses, RtcFires, ConsoleLine, kernel, board, TypeOK, Irq
<1>2. TypeOK'
  <2>1. rtc_armed' \in BOOLEAN /\ unarmed' \in BOOLEAN
    BY Zenon DEF SysTickElapses, RtcFires, ConsoleLine, TypeOK
  <2>2. commands' \in 0 .. MaxCommands
    BY PowerAssumption DEF SysTickElapses, RtcFires, ConsoleLine, TypeOK
  <2> QED
    BY <1>1, <2>1, <2>2 DEF TypeOK
<1>3. WorkConserving' /\ Masked' /\ TicksOff' /\ RestoredWhenAwake' /\ SleepIsRequested'
  BY <1>1 DEF WorkConserving, Runnable, Masked, TicksOff, RestoredWhenAwake, SleepIsRequested
<1>4. Wakeup'
  <2>1. CASE SysTickElapses
    BY <1>1, <2>1 DEF SysTickElapses, Wakeup, IdleIsOut
  <2>2. CASE ConsoleLine
    BY <1>1, <2>2 DEF ConsoleLine, Wakeup, IdleIsOut
  <2>3. CASE RtcFires /\ modes["NONE"] = 0
    <3>1. Stopped \/ Hung
      BY <2>3 DEF RtcFires
    <3>2. rtc_armed /\ "SysTick" \notin pending' /\ "RTC" \in pending' /\ pc # "critical"
      BY <2>3, <3>1 DEF RtcFires, Stopped, Hung, Unmasked
    <3>3. stat["idle"] = "suspended"
      <4>1. CASE Stopped
        BY <4>1 DEF Stopped, Masked
      <4>2. CASE Hung
        BY <4>2 DEF Hung, Runnable, TypeOK, Thread
      <4> QED
        BY <3>1, <4>1, <4>2
    <3>4. ~tickint
      BY <3>1 DEF Stopped, Hung, TicksOff
    <3> QED
      BY <1>1, <3>2, <3>3, <3>4 DEF Wakeup, IdleIsOut
  <2> QED
    BY <1>1, <2>1, <2>2, <2>3 DEF Wakeup, SleepIsRequested, TypeOK
<1> QED
  BY <1>2, <1>3, <1>4
\* PInv is an inductive invariant of the power manager.
THEOREM PowerInvariant == Spec => []PInv
<1>1. PInv /\ [Next]_vars => PInv'
  <2> SUFFICES ASSUME PInv, [Next]_vars PROVE PInv'
    OBVIOUS
  <2>1. CASE UNCHANGED vars
    BY <2>1 DEF PInv, TypeOK, WorkConserving, Runnable, RestoredWhenAwake, SleepIsRequested,
                Masked, TicksOff, Wakeup, IdleIsOut, vars, kernel, board
  <2> QED
    BY <2>1, HandlerPInv, IdlePInv, ThreadPInv, WorldPInv DEF Next
<1> QED
  BY <1>1, InitPInv, PTL DEF Spec

\* rt_schedule never leaves the processor to a suspended thread, or to idle, while
\* another thread is runnable, although pm_entry_func suspends the idle thread.
THEOREM SchedulerWorkConserving == Spec => []WorkConserving
BY PowerInvariant, PTL DEF PInv

\* The device stops without an armed alarm, the only wake-up source, only if the
\* command could not set one.
THEOREM StopAlwaysHasWakeup == Spec => []StopHasWakeup
<1>1. PInv => StopHasWakeup
  BY DEF PInv, StopHasWakeup, Stopped, Masked, Wakeup
<1> QED
  BY <1>1, PowerInvariant, PTL

\* While NONE is requested, everything pm_entry_func switched off is on again.
THEOREM AwakeIsRestored == Spec => []RestoredWhenAwake
BY PowerInvariant, PTL DEF PInv

\* The counters of requests: NONE never above one, STOP never by default.
THEOREM SleepOnlyOnRequest == Spec => []SleepIsRequested
BY PowerInvariant, PTL DEF PInv

-----------------------------------------------------------------------------
(* AlarmService                                                            *)

\* What alarm_sample knows at each of its steps: nothing else creates or starts
\* an alarm, and the old one is gone before the new one is made.
Command ==
    /\ alarm <= made
    /\ shell # "prompt" => made \in Alarm /\ wktime[made] + RT_ALARM_DELAY < MaxTime
    /\ shell = "delete" => alarm # None
    /\ shell = "create" => alarm = None
    /\ shell = "start" => alarm = made /\ state[alarm] = "listed"
    /\ shell \in {"create", "start"} => container_current = None

\* A started alarm is the current one and the one in the RTC, also while the
\* service thread is between its loops.
Armed == \A a \in Alarm : state[a] = "started" => container_current = a /\ hw = DaySec(wktime[a])

\* An interrupt between the two loops of alarm_update came after a second at least.
Pending == svc = "rearm" /\ event => lag >= 1

AInv == CurrentIsListed /\ Command /\ Armed /\ Pending

USE AlarmAssumption

-----------------------------------------------------------------------------
(* Time of day. *)

\* A time of day is less than a day and not after the time it is of.
LEMMA DaySecRange ==
    ASSUME NEW t \in Nat
    PROVE  DaySec(t) \in 0 .. (Day - 1) /\ DaySec(t) <= t
BY DEF DaySec

\* alarm_setup moves an alarm by less than the window, and not before midnight.
LEMMA SetupRange ==
    ASSUME NEW t \in Nat, t + RT_ALARM_DELAY < MaxTime
    PROVE  /\ alarm_setup(t) \in Time
           /\ alarm_setup(t) \in {t, t + 1 - RT_ALARM_DELAY}
<1> DEFINE d == DaySec(t)
<1>1. d \in 0 .. (Day - 1) /\ d <= t
  BY DaySecRange
<1>2. alarm_setup(t) = IF d = Day - 1 THEN t - d + Day - RT_ALARM_DELAY ELSE t
  BY DEF alarm_setup
<1> HIDE DEF d
<1> QED
  BY <1>1, <1>2 DEF Time

-----------------------------------------------------------------------------
(* The invariant of the alarms. *)

\* At the start no alarm exists.
LEMMA InitAInv == AlarmInit => AInv
<1> SUFFICES ASSUME AlarmInit PROVE AInv
  OBVIOUS
<1> USE DEF AlarmInit
<1>1. AlarmTypeOK
  <2>1. now \in Time /\ wktime \in [Alarm -> Time] /\ ServiceLag \in Nat /\ CommandLag \in Nat
    BY DEF Time
  <2>2. /\ state \in [Alarm -> {"unused", "listed", "started", "rung", "freed"}]
        /\ \A a \in Alarm : ~ Listed(a)
    BY DEF Listed
  <2>3. event \in BOOLEAN
    BY Zenon
  <2> QED
    BY <2>1, <2>2, <2>3 DEF AlarmTypeOK
<1> QED
  BY <1>1 DEF AInv, CurrentIsListed, Command, Armed, Pending, Alarm, None

\* alarm_sample reads the time: the entry it fills belongs to no alarm yet.
LEMMA ReadTimeStep ==
    ASSUME AInv, NEW i \in Intervals, ReadTime(i) PROVE AInv'
<1> USE DEF AInv, CurrentIsListed
<1>1. /\ made' = made + 1 /\ made' \in Alarm /\ now + i \in Time
      /\ now + i + RT_ALARM_DELAY < MaxTime
      /\ wktime' = [wktime EXCEPT ![made + 1] = now + i]
      /\ wktime' \in [Alarm -> Time] /\ wktime'[made + 1] = now + i
  BY DEF ReadTime, AlarmTypeOK, Time, Alarm
<1>2. AlarmTypeOK'
  BY <1>1 DEF ReadTime, AlarmTypeOK, Alarm, Listed
<1>3. CurrentIsListed'
  BY <1>2 DEF ReadTime, Listed
<1>4. Command'
  BY <1>1 DEF ReadTime, Command, AlarmTypeOK, Alarm, None
<1>5. Armed'
  BY <1>1 DEF ReadTime, Armed, Command, AlarmTypeOK, Listed, Alarm
<1>6. Pending'
  BY DEF ReadTime, Pending
<1> QED
  BY <1>3, <1>4, <1>5, <1>6

\* rt_alarm_delete: with the alarm goes the current one.
LEMMA DeleteStep == ASSUME AInv, rt_alarm_delete PROVE AInv'
<1> USE DEF AInv, CurrentIsListed
<1>1. state' = [state EXCEPT ![alarm] = "freed"] /\ alarm \in Alarm
  BY DEF rt_alarm_delete, Command, AlarmTypeOK
<1>2. \A a \in Alarm : ~ (state'[a] \in {"listed", "started", "rung"})
  BY <1>1 DEF AlarmTypeOK, Listed
<1>3. container_current' = None
  BY DEF rt_alarm_delete, AlarmTypeOK, Listed
<1>4. AlarmTypeOK'
  BY <1>1, <1>2, <1>3 DEF rt_alarm_delete, AlarmTypeOK, Listed
<1>5. Command'
  BY <1>3 DEF rt_alarm_delete, Command, AlarmTypeOK, None, Alarm
<1>6. Armed' /\ Pending'
  BY <1>2 DEF rt_alarm_delete, Armed, Pending
<1> QED
  BY <1>3, <1>4, <1>5, <1>6

\* rt_alarm_create: the new alarm is the only one listed.
LEMMA CreateStep == ASSUME AInv, rt_alarm_create PROVE AInv'
<1> USE DEF AInv, CurrentIsListed
<1>1. /\ made \in Alarm /\ alarm = None /\ container_current = None /\ container_current' = None
      /\ \A a \in Alarm : ~ Listed(a)
  BY DEF rt_alarm_create, Command, AlarmTypeOK, Alarm, None
<1>2. CASE alarm' = made /\ state' = [state EXCEPT ![made] = "listed"] /\ shell' = "start"
  <2>1. AlarmTypeOK'
    BY <1>1, <1>2 DEF rt_alarm_create, AlarmTypeOK, Listed
  <2>2. Command'
    BY <1>1, <1>2 DEF rt_alarm_create, Command, AlarmTypeOK, Alarm, None
  <2>3. Armed' /\ Pending'
    BY <1>1, <1>2 DEF rt_alarm_create, Armed, Pending, Listed, AlarmTypeOK
  <2> QED
    BY <1>1, <2>1, <2>2, <2>3
<1>3. CASE shell' = "prompt" /\ UNCHANGED <<alarm, state>>
  <2>1. AlarmTypeOK'
    BY <1>1, <1>3 DEF rt_alarm_create, AlarmTypeOK, Listed
  <2>2. Command' /\ Armed' /\ Pending'
    BY <1>1, <1>3 DEF rt_alarm_create, Command, Armed, Pending
  <2> QED
    BY <1>1, <2>1, <2>2
<1> QED
  BY <1>2, <1>3 DEF rt_alarm_create

\* rt_alarm_start: no alarm is the current one, so the new one is set.
LEMMA StartStep == ASSUME AInv, rt_alarm_start PROVE AInv'
<1> USE DEF AInv, CurrentIsListed
<1>1. /\ alarm \in Alarm /\ alarm = made /\ container_current = None
      /\ wktime[alarm] \in Nat /\ wktime[alarm] + RT_ALARM_DELAY < MaxTime
  BY DEF rt_alarm_start, Command, AlarmTypeOK, Time
<1> DEFINE t == alarm_setup(wktime[alarm])
<1>2. t \in Time /\ t \in Nat /\ DaySec(t) \in 0 .. (Day - 1)
  BY <1>1, SetupRange, DaySecRange DEF Time
<1>3. /\ wktime' = [wktime EXCEPT ![alarm] = t]
      /\ hw' = DaySec(t) /\ container_current' = alarm
      /\ state' = [state EXCEPT ![alarm] = "started"] /\ shell' = "prompt"
      /\ UNCHANGED <<now, event, svc, alarm, made, lag, wait>>
  BY <1>1 DEF rt_alarm_start
<1> HIDE DEF t
<1>4. AlarmTypeOK'
  BY <1>1, <1>2, <1>3 DEF AlarmTypeOK, Listed
<1>5. CurrentIsListed'
  BY <1>1, <1>3, <1>4 DEF AlarmTypeOK, Listed
<1>6. Command' /\ Pending'
  BY <1>3 DEF Command, Pending
<1>7. Armed'
  BY <1>1, <1>3 DEF Armed, AlarmTypeOK, Listed
<1> QED
  BY <1>5, <1>6, <1>7

\* The first loop of alarm_update stops alarms and leaves the current one.
LEMMA WakeupStep == ASSUME AInv, alarm_wakeup PROVE AInv'
<1> USE DEF AInv, CurrentIsListed
<1>1. /\ state' = [a \in Alarm |-> IF Due(a) THEN "rung" ELSE state[a]]
      /\ event' = FALSE /\ svc' \in {"wait", "rearm"} /\ lag' \in {0, lag}
      /\ UNCHANGED <<now, wktime, container_current, hw, shell, alarm, made, wait>>
  BY DEF alarm_wakeup
<1>2. \A a \in Alarm : /\ state'[a] \in {state[a], "rung"}
                       /\ state'[a] # state[a] => state[a] = "started"
  BY <1>1 DEF Due
<1>3. AlarmTypeOK'
  <2>1. state' \in [Alarm -> {"unused", "listed", "started", "rung", "freed"}]
    BY <1>1 DEF AlarmTypeOK
  <2>2. lag' \in 0 .. ServiceLag
    BY <1>1 DEF AlarmTypeOK
  <2>3. event' \in BOOLEAN
    BY <1>1, Zenon
  <2>4. ASSUME NEW a \in Alarm, state'[a] \in {"listed", "started", "rung"} PROVE a = alarm
    <3>1. state[a] = "started" \/ state'[a] = state[a]
      BY <1>2, Zenon
    <3>2. Listed(a)
      BY <2>4, <3>1, Zenon DEF Listed
    <3> QED
      BY <3>2 DEF AlarmTypeOK
  <2> QED
    BY <1>1, <2>1, <2>2, <2>3, <2>4 DEF AlarmTypeOK, Listed
<1>4. CurrentIsListed'
  BY <1>1, <1>2, <1>3 DEF AlarmTypeOK, Listed, None
<1>5. Command'
  BY <1>1, <1>2 DEF Command, AlarmTypeOK
<1>6. Armed' /\ Pending'
  BY <1>1, <1>2 DEF Armed, Pending
<1> QED
  BY <1>4, <1>5, <1>6

\* The second loop sets the started alarm, or forgets one that has rung.
LEMMA UpdateStep == ASSUME AInv, alarm_update PROVE AInv'
<1> USE DEF AInv, CurrentIsListed
<1>1. /\ svc = "rearm" /\ svc' = "wait" /\ lag' = IF event THEN 1 ELSE 0
      /\ UNCHANGED <<now, state, wktime, event, shell, alarm, made, wait>>
  BY DEF alarm_update
<1>2. /\ hw' \in {Unarmed} \cup 0 .. (Day - 1)
      /\ container_current' = None \/ container_current' \in Started
      /\ \A a \in Started : container_current' = a /\ hw' = DaySec(wktime[a])
  <2>1. hw \in {Unarmed} \cup 0 .. (Day - 1) /\ wktime \in [Alarm -> Time]
    BY DEF AlarmTypeOK
  <2>2. \A a \in Alarm : alarm_set(a) \in {Unarmed} \cup 0 .. (Day - 1)
    BY <2>1, DaySecRange DEF alarm_set, Time
  <2>3. \A a \in Started : /\ a \in Alarm /\ container_current = a
                           /\ hw = DaySec(wktime[a]) /\ alarm_set(a) = hw
    BY DEF Started, Armed, alarm_set
  <2>4. None \notin Alarm /\ container_current \in Alarm \cup {None}
    BY DEF None, Alarm, AlarmTypeOK
  <2>5. CASE \E a \in Started : Ahead(a) # 0 /\ hw' = alarm_set(a) /\ container_current' = a
    BY <2>1, <2>2, <2>3, <2>5
  <2>6. CASE /\ hw' = IF container_current = None THEN hw ELSE alarm_set(container_current)
             /\ container_current' = IF container_current \in Started THEN container_current ELSE None
    BY <2>1, <2>2, <2>3, <2>4, <2>6
  <2> QED
    BY <2>5, <2>6 DEF alarm_update
<1>3. AlarmTypeOK'
  <2>1. container_current' \in Alarm \cup {None}
    BY <1>2 DEF Started
  <2>2. lag' \in 0 .. ServiceLag
    BY <1>1 DEF AlarmTypeOK, Pending
  <2> QED
    BY <1>1, <1>2, <2>1, <2>2 DEF AlarmTypeOK, Listed
<1>4. CurrentIsListed'
  BY <1>1, <1>2, <1>3 DEF Started, Listed
<1>5. Command'
  <2>1. shell \in {"create", "start"} => Started = {}
    BY DEF Command, AlarmTypeOK, Listed, Started, None, Alarm
  <2> QED
    BY <1>1, <1>2, <2>1 DEF Command
<1>6. Armed' /\ Pending'
  BY <1>1, <1>2 DEF Armed, Pending, Started
<1> QED
  BY <1>4, <1>5, <1>6

\* A second passes.
LEMMA SecondStep == ASSUME AInv, Second PROVE AInv'
<1> USE DEF AInv, CurrentIsListed
<1>1. /\ now < MaxTime /\ now' = now + 1
      /\ event \/ svc = "rearm" => lag < ServiceLag
      /\ shell # "prompt" => wait < CommandLag
      /\ event' = (event \/ DaySec(now + 1) = hw)
      /\ lag' = IF event \/ svc = "rearm" THEN lag + 1 ELSE 0
      /\ wait' = IF shell = "prompt" THEN 0 ELSE wait + 1
      /\ UNCHANGED <<state, wktime, container_current, hw, svc, shell, alarm, made>>
  BY DEF Second
<1>2. now \in Time /\ lag \in 0 .. ServiceLag /\ wait \in 0 .. CommandLag
  BY DEF AlarmTypeOK
<1>3. AlarmTypeOK'
  <2>1. event' \in BOOLEAN
    BY <1>1, Zenon
  <2>2. now' \in Time /\ lag' \in 0 .. ServiceLag /\ wait' \in 0 .. CommandLag
    BY <1>1, <1>2 DEF Time
  <2> QED
    BY <1>1, <2>1, <2>2 DEF AlarmTypeOK, Listed
<1>4. CurrentIsListed' /\ Command' /\ Armed'
  BY <1>1, <1>3 DEF Listed, Command, Armed
<1>5. Pending'
  BY <1>1, <1>2 DEF Pending
<1> QED
  BY <1>4, <1>5

\* Every step keeps the invariant.
LEMMA NextAInv == ASSUME AInv, [AlarmNext]_alarmVars PROVE AInv'
<1>1. CASE UNCHANGED alarmVars
  BY <1>1 DEF alarmVars, AInv, CurrentIsListed, AlarmTypeOK, Command, Armed, Pending, Listed
<1>2. CASE alarm_sample
  BY <1>2, ReadTimeStep, DeleteStep, CreateStep, StartStep DEF alarm_sample
<1>3. CASE Service
  BY <1>3, WakeupStep, UpdateStep DEF Service
<1> QED
  BY <1>1, <1>2, <1>3, SecondStep DEF AlarmNext

\* Exactly the alarm that alarm_sample holds is listed, it is the only one that can
\* be current, and a started one is current and set in the RTC.
THEOREM AlarmInvariant == AlarmSpec => []AInv
<1>1. AlarmInit => AInv
  BY InitAInv
<1>2. AInv /\ [AlarmNext]_alarmVars => AInv'
  BY NextAInv
<1> QED
  BY <1>1, <1>2, PTL DEF AlarmSpec

\* _container.current never points to an alarm that rt_alarm_delete has freed.
THEOREM NoDanglingCurrent == AlarmSpec => []CurrentIsListed
<1>1. AInv => CurrentIsListed
  BY DEF AInv
<1> QED
  BY <1>1, AlarmInvariant, PTL

\* An alarm still to come is the one in the RTC, whatever was set before it.
THEOREM RtcHoldsStarted == AlarmSpec => []ArmedForStarted
<1>1. AInv => ArmedForStarted
  BY DEF AInv, Armed, ArmedForStarted
<1> QED
  BY <1>1, AlarmInvariant, PTL

-----------------------------------------------------------------------------
(* Timeliness. *)

\* What the threads' delays have to be: alarm_update is over within two seconds and
\* within the window of alarm_wakeup, and an alarm lies further ahead than the command's
\* delay and the window, by which alarm_setup may move it.
Prompt ==
    /\ ServiceLag <= 2 /\ ServiceLag <= RT_ALARM_DELAY /\ RT_ALARM_DELAY >= 1
    /\ \A i \in Intervals : i >= CommandLag + RT_ALARM_DELAY

\* The time alarm_sample computed is still far enough ahead.
StillAhead == shell # "prompt" => wktime[made] >= now - wait + CommandLag + RT_ALARM_DELAY

\* A started alarm is to come, or its interrupt is being served: the service thread is
\* behind by at least as much as the alarm is late, and by more between its loops.
Timely ==
    \A a \in Alarm : state[a] = "started" =>
        \/ now < wktime[a]
        \/ event /\ svc = "wait" /\ now - wktime[a] <= lag
        \/ event /\ svc = "rearm" /\ now - wktime[a] < lag

TInv == AInv /\ StillAhead /\ Timely

\* At most the alarm of alarm_sample is started, and not while a new one is made.
LEMMA OneStarted ==
    ASSUME AInv, NEW a \in Alarm, state[a] = "started"
    PROVE  /\ a = alarm /\ container_current = a /\ hw = DaySec(wktime[a])
           /\ a <= made /\ shell \notin {"create", "start"}
BY DEF AInv, CurrentIsListed, AlarmTypeOK, Listed, Armed, Command, None, Alarm

\* The numbers that the arguments below compute with.
LEMMA Numbers ==
    ASSUME AInv
    PROVE  /\ now \in Nat /\ lag \in 0 .. ServiceLag /\ wait \in 0 .. CommandLag
           /\ made \in Nat /\ \A a \in Alarm : wktime[a] \in Nat
BY DEF AInv, CurrentIsListed, AlarmTypeOK, Time

\* The steps of alarm_sample: the alarm it starts lies ahead.
LEMMA SampleTimely == ASSUME Prompt, TInv, alarm_sample PROVE StillAhead' /\ Timely'
<1>1. /\ AInv /\ now \in Nat /\ wait \in 0 .. CommandLag /\ made \in Nat
      /\ \A a \in Alarm : wktime[a] \in Nat
  BY Numbers DEF TInv
<1>2. ASSUME NEW i \in Intervals, ReadTime(i) PROVE StillAhead' /\ Timely'
  <2>1. /\ made' = made + 1 /\ made + 1 \in Alarm /\ wait' = 0
        /\ wktime' = [wktime EXCEPT ![made + 1] = now + i]
        /\ UNCHANGED <<now, state, event, svc, lag>>
    BY <1>1, <1>2 DEF ReadTime, Alarm
  <2>2. wktime \in [Alarm -> Time]
    BY <1>1 DEF AInv, CurrentIsListed, AlarmTypeOK
  <2>3. StillAhead'
    BY <1>1, <2>1, <2>2 DEF StillAhead, Prompt
  <2>4. \A a \in Alarm : state[a] = "started" => wktime'[a] = wktime[a]
    BY <1>1, <2>1, <2>2, OneStarted DEF Alarm
  <2> QED
    BY <2>1, <2>3, <2>4 DEF TInv, Timely
<1>3. CASE rt_alarm_delete
  <2>1. \A a \in Alarm : state'[a] = "started" => state[a] = "started"
    BY <1>1, <1>3 DEF rt_alarm_delete, AInv, CurrentIsListed, AlarmTypeOK
  <2> QED
    BY <1>3, <2>1 DEF rt_alarm_delete, TInv, StillAhead, Timely
<1>4. CASE rt_alarm_create
  <2>1. \A a \in Alarm : state'[a] = "started" => state[a] = "started"
    BY <1>1, <1>4 DEF rt_alarm_create, AInv, CurrentIsListed, AlarmTypeOK
  <2> QED
    BY <1>4, <2>1 DEF rt_alarm_create, TInv, StillAhead, Timely
<1>5. CASE rt_alarm_start
  <2> DEFINE t == alarm_setup(wktime[alarm])
  <2>1. /\ alarm \in Alarm /\ alarm = made /\ shell = "start"
        /\ wktime[alarm] \in Nat /\ wktime[alarm] + RT_ALARM_DELAY < MaxTime
    BY <1>1, <1>5 DEF rt_alarm_start, AInv, Command
  <2>2. t \in {wktime[alarm], wktime[alarm] + 1 - RT_ALARM_DELAY}
    BY <2>1, SetupRange
  <2>3. /\ wktime' = [wktime EXCEPT ![alarm] = t]
        /\ state' = [state EXCEPT ![alarm] = "started"]
        /\ shell' = "prompt" /\ now' = now
    BY <1>5 DEF rt_alarm_start
  <2> HIDE DEF t
  <2>4. now < t
    BY <1>1, <2>1, <2>2 DEF TInv, StillAhead, Prompt
  <2>5. \A a \in Alarm : state'[a] = "started" => a = alarm
    BY <1>1, <2>1, <2>3, OneStarted DEF AInv, CurrentIsListed, AlarmTypeOK
  <2>6. wktime'[alarm] = t
    BY <1>1, <2>1, <2>3 DEF AInv, CurrentIsListed, AlarmTypeOK
  <2> QED
    BY <2>3, <2>4, <2>5, <2>6 DEF StillAhead, Timely
<1> QED
  BY <1>2, <1>3, <1>4, <1>5 DEF alarm_sample

\* An alarm that alarm_wakeup leaves started is still to come.
LEMMA WakeupTimely == ASSUME Prompt, TInv, alarm_wakeup PROVE StillAhead' /\ Timely'
<1>1. /\ AInv /\ now \in Nat /\ lag \in 0 .. ServiceLag
      /\ \A a \in Alarm : wktime[a] \in Nat
  BY Numbers DEF TInv
<1>2. /\ svc = "wait"
      /\ state' = [a \in Alarm |-> IF Due(a) THEN "rung" ELSE state[a]]
      /\ UNCHANGED <<now, wktime, shell, made, wait>>
  BY DEF alarm_wakeup
<1>3. ASSUME NEW a \in Alarm, state'[a] = "started" PROVE now < wktime[a]
  <2>1. state[a] = "started" /\ ~ Due(a)
    BY <1>2, <1>3
  <2>2. now < wktime[a] \/ now - wktime[a] <= lag
    BY <1>2, <2>1 DEF TInv, Timely
  <2> QED
    BY <1>1, <2>1, <2>2 DEF Due, Prompt
<1> QED
  BY <1>2, <1>3 DEF TInv, StillAhead, Timely

\* An interrupt that came between the two loops is at most a second old.
LEMMA UpdateTimely == ASSUME Prompt, TInv, alarm_update PROVE StillAhead' /\ Timely'
<1>1. /\ AInv /\ now \in Nat /\ lag \in 0 .. ServiceLag
      /\ \A a \in Alarm : wktime[a] \in Nat
  BY Numbers DEF TInv
<1>2. /\ svc = "rearm" /\ svc' = "wait" /\ lag' = IF event THEN 1 ELSE 0
      /\ UNCHANGED <<now, state, wktime, event, shell, made, wait>>
  BY DEF alarm_update
<1>3. ASSUME NEW a \in Alarm, state[a] = "started"
      PROVE  now < wktime[a] \/ (event /\ now - wktime[a] <= 1)
  <2>1. now < wktime[a] \/ (event /\ now - wktime[a] < lag)
    BY <1>2, <1>3 DEF TInv, Timely
  <2> QED
    BY <1>1, <2>1 DEF Prompt
<1> QED
  BY <1>2, <1>3 DEF TInv, StillAhead, Timely

\* When the second of a started alarm comes, the RTC interrupts.
LEMMA SecondTimely == ASSUME Prompt, TInv, Second PROVE StillAhead' /\ Timely'
<1>1. /\ AInv /\ now \in Nat /\ lag \in 0 .. ServiceLag /\ wait \in 0 .. CommandLag
      /\ made \in Nat /\ \A a \in Alarm : wktime[a] \in Nat
  BY Numbers DEF TInv
<1>2. /\ now' = now + 1
      /\ event' = (event \/ DaySec(now + 1) = hw)
      /\ lag' = IF event \/ svc = "rearm" THEN lag + 1 ELSE 0
      /\ wait' = IF shell = "prompt" THEN 0 ELSE wait + 1
      /\ UNCHANGED <<state, wktime, svc, shell, made>>
  BY DEF Second
<1>3. StillAhead'
  <2>1. shell # "prompt" => made \in Alarm
    BY <1>1 DEF AInv, Command
  <2> QED
    BY <1>1, <1>2, <2>1 DEF TInv, StillAhead
<1>4. ASSUME NEW a \in Alarm, state[a] = "started"
      PROVE  \/ now' < wktime[a]
             \/ event' /\ svc = "wait" /\ now' - wktime[a] <= lag'
             \/ event' /\ svc = "rearm" /\ now' - wktime[a] < lag'
  <2> DEFINE n == now'
             l == lag'
  <2>1. \/ now < wktime[a]
        \/ event /\ svc = "wait" /\ now - wktime[a] <= lag
        \/ event /\ svc = "rearm" /\ now - wktime[a] < lag
    BY <1>4 DEF TInv, Timely
  <2>2. now + 1 = wktime[a] => event'
    BY <1>1, <1>2, <1>4, OneStarted, Zenon
  <2>3. svc \in {"wait", "rearm"}
    BY <1>1 DEF AInv, CurrentIsListed, AlarmTypeOK
  <2>4. n = now + 1 /\ l = (IF event \/ svc = "rearm" THEN lag + 1 ELSE 0)
    BY <1>2
  <2> HIDE DEF n, l
  <2>5. CASE now + 1 < wktime[a]
    <3>1. n < wktime[a]
      BY <2>4, <2>5
    <3> QED
      BY <3>1 DEF n
  <2>6. CASE now + 1 = wktime[a]
    <3>1. n - wktime[a] = 0 /\ 0 <= l /\ (svc = "rearm" => 0 < l)
      BY <1>1, <2>4, <2>6
    <3>2. (svc = "wait" /\ n - wktime[a] <= l) \/ (svc = "rearm" /\ n - wktime[a] < l)
      BY <2>3, <3>1
    <3> QED
      BY <2>2, <2>6, <3>2, Zenon DEF n, l
  <2>7. CASE now + 1 > wktime[a]
    <3>1. /\ event
          /\ (svc = "wait" /\ now - wktime[a] <= lag) \/ (svc = "rearm" /\ now - wktime[a] < lag)
      BY <1>1, <2>1, <2>7
    <3>2. (svc = "wait" /\ n - wktime[a] <= l) \/ (svc = "rearm" /\ n - wktime[a] < l)
      BY <1>1, <2>4, <3>1
    <3>3. event'
      BY <1>2, <3>1, Zenon
    <3> QED
      BY <3>2, <3>3, Zenon DEF n, l
  <2> QED
    BY <1>1, <2>5, <2>6, <2>7
<1>5. Timely'
  BY <1>2, <1>4, Zenon DEF Timely
<1> QED
  BY <1>3, <1>5

\* A one-shot alarm that is started is recognised in time: if the threads are held up
\* no longer than Prompt says, none outlives the window of alarm_wakeup.
THEOREM AlarmsNeverMissed == ASSUME Prompt PROVE AlarmSpec => []NeverMissed
<1>1. AlarmInit => TInv
  BY InitAInv DEF AlarmInit, TInv, StillAhead, Timely
<1>2. TInv /\ [AlarmNext]_alarmVars => TInv'
  <2> SUFFICES ASSUME TInv, [AlarmNext]_alarmVars PROVE TInv'
    OBVIOUS
  <2>1. AInv'
    BY NextAInv DEF TInv
  <2>2. CASE UNCHANGED alarmVars
    BY <2>1, <2>2 DEF alarmVars, TInv, StillAhead, Timely
  <2>3. CASE AlarmNext
    BY <2>1, <2>3, SampleTimely, WakeupTimely, UpdateTimely, SecondTimely
       DEF TInv, AlarmNext, Service
  <2> QED
    BY <2>2, <2>3
<1>3. TInv => NeverMissed
  <2> SUFFICES ASSUME TInv, NEW a \in Alarm, state[a] = "started"
               PROVE  now <= wktime[a] + RT_ALARM_DELAY
    BY DEF NeverMissed
  <2>1. /\ now \in Nat /\ lag \in 0 .. ServiceLag /\ wktime[a] \in Nat
    BY Numbers DEF TInv
  <2>2. now < wktime[a] \/ now - wktime[a] <= lag
    BY <2>1 DEF TInv, Timely
  <2> QED
    BY <2>1, <2>2 DEF Prompt
<1> QED
  BY <1>1, <1>2, <1>3, PTL DEF AlarmSpec
=============================================================================
