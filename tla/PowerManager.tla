---------------------------- MODULE PowerManager ----------------------------
(***************************************************************************)
(* The way in and out of STOP mode.  The console command sleep_mode        *)
(* (ele_ds_pm.c) arms the RTC, requests DEEP and releases NONE; the idle   *)
(* thread's rt_system_power_manager (pm.c) then selects DEEP and calls     *)
(* pm_entry_func with interrupts masked.  pm_entry_func delays with        *)
(* rt_thread_mdelay although it runs in the idle thread with interrupts    *)
(* masked, so the slice of the kernel it meets is modelled too: the thread *)
(* states, the thread timers, rt_schedule and the SysTick handler.         *)
(*                                                                         *)
(* Threads: the periodic ones (main, the key scanner), the alarm service,  *)
(* the shell and idle.  rt_schedule takes any runnable thread but idle,    *)
(* and idle only when no other is runnable: the priorities among the other *)
(* threads are left open.  A thread that is current without being          *)
(* "running" goes on executing, but every wait it enters returns at once   *)
(* and changes nothing, so it takes no step here.                          *)
(***************************************************************************)
EXTENDS Integers

CONSTANTS
    Worker,       \* the threads that loop on rt_thread_mdelay
    Period,       \* their delay, in ticks
    IdleDelay,    \* the delay of pm_clock_init_pwronoff, in ticks
    AlarmMayFail, \* TRUE: creating or starting the alarm may fail
    MaxCommands   \* bound: sleep_mode commands typed in one behaviour

ASSUME PowerAssumption ==
    /\ Period \in Nat \ {0}
    /\ IdleDelay \in Nat \ {0}
    /\ MaxCommands \in Nat
    /\ AlarmMayFail \in BOOLEAN
    /\ Worker \cap {"alarm", "tshell", "idle"} = {}

Thread == Worker \cup {"alarm", "tshell", "idle"}
Irq == {"SysTick", "RTC", "USART"}

VARIABLES
    modes,           \* pm->modes: outstanding requests of NONE and of DEEP
    entry_stop_cnt,  \* the static counter of pm_entry_func
    pc,              \* idle: "loop" (unmasked), "critical", "wfi"
    stat,            \* the state of every thread
    timer,           \* ticks until a thread's timer expires, 0: stopped
    current,         \* rt_current_thread
    pending,         \* interrupts that are pending
    tickint,         \* SysTick->CTRL TICKINT
    rtc_armed,       \* the RTC alarm is set and has not fired
    unarmed,         \* the last command set no alarm and none was pending (auxiliary)
    gpio,            \* GPIO clocks and the 3.3 V supply are on
    clock,           \* "pll", or "hsi" after STOP until SystemClock_Config
    commands         \* sleep_mode commands typed so far

kernel == <<stat, timer, current>>
board == <<tickint, gpio, clock>>
vars == <<modes, entry_stop_cnt, pc, kernel, pending, board, rtc_armed, unarmed, commands>>

-----------------------------------------------------------------------------
(* The kernel.  st, the argument of rt_schedule, is the state of the       *)
(* threads after the change the caller made.                               *)

Runnable(st) == {t \in Thread : st[t] \in {"ready", "running"}}

\* Mutant: idle competes with the other threads.
Best_IdleToo(st) == Runnable(st)

Best(st) ==
    IF Runnable(st) = {"idle"} THEN {"idle"} ELSE Runnable(st) \ {"idle"}

\* With no runnable thread rt_schedule returns to the caller, suspended or not.
rt_schedule(st) ==
    \/ /\ Best(st) = {}
       /\ stat' = st
       /\ UNCHANGED current
    \/ \E t \in Best(st) :
          /\ current' = t
          /\ stat' = [u \in Thread |->
                        IF u = t THEN "running"
                        ELSE IF st[u] = "running" THEN "ready" ELSE st[u]]

rt_sched_insert_thread(woken) ==
    [t \in Thread |->
        IF t \notin woken THEN stat[t]
        ELSE IF t = current THEN "running" ELSE "ready"]

\* rt_thread_mdelay of the current thread: an error, and no wait, unless the
\* thread is running.
rt_thread_mdelay(ticks) ==
    \/ /\ stat[current] = "running"
       /\ timer' = [timer EXCEPT ![current] = ticks]
       /\ rt_schedule([stat EXCEPT ![current] = "suspended"])
    \/ /\ stat[current] # "running"
       /\ UNCHANGED kernel

\* A wait for an event or a semaphore: no timer.
WaitForever ==
    /\ UNCHANGED timer
    /\ rt_schedule([stat EXCEPT ![current] = "suspended"])

Unmasked == pc = "loop"
Stopped == pc = "wfi" /\ pending = {}

SysTick_Handler ==
    /\ Unmasked /\ "SysTick" \in pending
    /\ pending' = pending \ {"SysTick"}
    /\ timer' = [t \in Thread |-> IF timer[t] = 0 THEN 0 ELSE timer[t] - 1]
    /\ rt_schedule(rt_sched_insert_thread({t \in Thread : timer[t] = 1}))
    /\ UNCHANGED <<modes, entry_stop_cnt, pc, board, rtc_armed, unarmed, commands>>

\* The handlers of the RTC alarm and of the console resume the thread that
\* waits for them.
Wakes(irq, t) ==
    /\ Unmasked /\ irq \in pending
    /\ pending' = pending \ {irq}
    /\ UNCHANGED timer
    /\ rt_schedule(rt_sched_insert_thread({t} \cap {u \in Thread : stat[u] = "suspended"}))
    /\ UNCHANGED <<modes, entry_stop_cnt, pc, board, rtc_armed, unarmed, commands>>

RTC_Alarm_IRQHandler == Wakes("RTC", "alarm")

USART1_IRQHandler == Wakes("USART", "tshell")

-----------------------------------------------------------------------------
(* The threads.                                                            *)

\* A thread goes on when no interrupt is left to take.
Executes(t) == Unmasked /\ pending = {} /\ current = t
Runs(t) == Executes(t) /\ stat[t] = "running"

\* A pass of the loop of main, or of the key scanner, up to its delay.
WorkerPass(w) ==
    /\ Runs(w)
    /\ rt_thread_mdelay(Period)
    /\ UNCHANGED <<modes, entry_stop_cnt, pc, pending, board, rtc_armed, unarmed, commands>>

rt_alarmsvc_thread ==
    /\ Runs("alarm")
    /\ WaitForever
    /\ UNCHANGED <<modes, entry_stop_cnt, pc, pending, board, rtc_armed, unarmed, commands>>

rt_pm_request(counts, mode) ==
    IF counts[mode] < 255 THEN [counts EXCEPT ![mode] = @ + 1] ELSE counts

rt_pm_release(counts, mode) ==
    IF counts[mode] > 0 THEN [counts EXCEPT ![mode] = @ - 1] ELSE counts

\* Mutant: the alarm is created but not started.
ArmRtc_NotStarted ==
    \/ UNCHANGED <<rtc_armed, unarmed>>
    \/ AlarmMayFail /\ unarmed' = ~rtc_armed /\ UNCHANGED rtc_armed

\* alarm_sample sets the RTC ten seconds ahead.  If the alarm cannot be created or
\* started, that is logged and nothing else: an alarm set before stays in the RTC.
\* (The daily return of an alarm that has gone off is not counted as one set.)
ArmRtc ==
    \/ rtc_armed' = TRUE /\ unarmed' = FALSE
    \/ AlarmMayFail /\ unarmed' = ~rtc_armed /\ UNCHANGED rtc_armed

\* Mutant: NONE is released but DEEP not requested.
cmd_entry_sleep_mode_NoRequest ==
    /\ Runs("tshell")
    /\ ArmRtc
    /\ modes' = rt_pm_release(modes, "NONE")
    /\ WaitForever
    /\ UNCHANGED <<entry_stop_cnt, pc, pending, board, commands>>

\* Whatever became of the alarm, DEEP is requested and NONE released; then the
\* shell waits for input.
cmd_entry_sleep_mode ==
    /\ Runs("tshell")
    /\ ArmRtc
    /\ modes' = rt_pm_release(rt_pm_request(modes, "DEEP"), "NONE")
    /\ WaitForever
    /\ UNCHANGED <<entry_stop_cnt, pc, pending, board, commands>>

\* Nothing requests the modes between NONE and DEEP, and DEEP is the default.
_pm_select_sleep_mode == IF modes["NONE"] > 0 THEN "NONE" ELSE "DEEP"

\* The idle thread masks the interrupts and selects DEEP: pm_entry_func up to
\* HAL_SuspendTick.  (In NONE it unmasks them again and changes nothing.)
IdleEntersDeep ==
    /\ Executes("idle")
    /\ _pm_select_sleep_mode = "DEEP"
    /\ pc' = "critical"
    /\ entry_stop_cnt' = entry_stop_cnt + 1
    /\ gpio' = FALSE
    /\ rt_thread_mdelay(IdleDelay)
    /\ UNCHANGED <<modes, pending, tickint, clock, rtc_armed, unarmed, commands>>

\* HAL_SuspendTick leaves a pending tick pending; HAL_PWR_EnterSTOPMode stops
\* the clocks only when no interrupt is pending.
IdleWaitsForInterrupt ==
    /\ pc = "critical"
    /\ pc' = "wfi"
    /\ tickint' = FALSE
    /\ clock' = IF pending = {} THEN "hsi" ELSE clock
    /\ UNCHANGED <<modes, entry_stop_cnt, kernel, pending, gpio, rtc_armed, unarmed, commands>>

\* Mutant: the supply and the GPIO clocks stay off.
Restore_NoGpio ==
    /\ clock' = "pll"
    /\ entry_stop_cnt' = 0
    /\ tickint' = TRUE
    /\ modes' = rt_pm_request(rt_pm_release(modes, "DEEP"), "NONE")
    /\ UNCHANGED gpio

Restore ==
    /\ clock' = "pll"
    /\ entry_stop_cnt' = 0
    /\ tickint' = TRUE
    /\ gpio' = TRUE
    /\ modes' = rt_pm_request(rt_pm_release(modes, "DEEP"), "NONE")

\* Mutant: one entry too many before the device is restored.
IdleWakes_OffByOne ==
    /\ pc = "wfi" /\ pending # {}
    /\ pc' = "loop"
    /\ \/ entry_stop_cnt > 2 /\ Restore
       \/ entry_stop_cnt <= 2 /\ UNCHANGED <<modes, entry_stop_cnt, board>>
    /\ UNCHANGED <<kernel, pending, rtc_armed, unarmed, commands>>

\* The rest of pm_entry_func, and the end of the masked section.
IdleWakes ==
    /\ pc = "wfi" /\ pending # {}
    /\ pc' = "loop"
    /\ \/ entry_stop_cnt >= 2 /\ Restore
       \/ entry_stop_cnt < 2 /\ UNCHANGED <<modes, entry_stop_cnt, board>>
    /\ UNCHANGED <<kernel, pending, rtc_armed, unarmed, commands>>

-----------------------------------------------------------------------------
(* The hardware and the user.                                              *)

SysTickElapses ==
    /\ tickint
    /\ "SysTick" \notin pending
    /\ pending' = pending \cup {"SysTick"}
    /\ UNCHANGED <<modes, entry_stop_cnt, pc, kernel, board, rtc_armed, unarmed, commands>>

\* No tick will come any more and the current thread waits in vain.
Hung == Unmasked /\ pending = {} /\ ~tickint /\ current # "idle" /\ Runnable(stat) = {}

\* Ten seconds are long against the way into STOP (a delay of 100 ms and some
\* log lines): until the processor is there, the alarm does not fire.
RtcFires ==
    /\ rtc_armed
    /\ modes["NONE"] > 0 \/ Stopped \/ Hung
    /\ rtc_armed' = FALSE
    /\ pending' = pending \cup {"RTC"}
    /\ UNCHANGED <<modes, entry_stop_cnt, pc, kernel, board, unarmed, commands>>

\* The command is typed while the shell waits; no byte is received in STOP.
ConsoleLine ==
    /\ commands < MaxCommands
    /\ stat["tshell"] = "suspended" /\ "USART" \notin pending
    /\ ~Stopped
    /\ commands' = commands + 1
    /\ pending' = pending \cup {"USART"}
    /\ UNCHANGED <<modes, entry_stop_cnt, pc, kernel, board, rtc_armed, unarmed>>

-----------------------------------------------------------------------------
\* After devices_init: NONE is requested once and every thread waits.
Init ==
    /\ modes = [m \in {"NONE", "DEEP"} |-> IF m = "NONE" THEN 1 ELSE 0]
    /\ entry_stop_cnt = 0
    /\ pc = "loop"
    /\ stat = [t \in Thread |-> IF t = "idle" THEN "running" ELSE "suspended"]
    /\ timer \in [Thread -> 0 .. Period]
    /\ \A t \in Thread : (timer[t] # 0) <=> (t \in Worker)
    /\ current = "idle"
    /\ pending = {}
    /\ tickint = TRUE /\ gpio = TRUE /\ clock = "pll"
    /\ rtc_armed = FALSE /\ unarmed = FALSE
    /\ commands = 0

Handler == SysTick_Handler \/ RTC_Alarm_IRQHandler \/ USART1_IRQHandler
IdleStep == IdleEntersDeep \/ IdleWaitsForInterrupt \/ IdleWakes
ThreadStep == rt_alarmsvc_thread \/ cmd_entry_sleep_mode \/ \E w \in Worker : WorkerPass(w)

Next == Handler \/ IdleStep \/ ThreadStep \/ SysTickElapses \/ RtcFires \/ ConsoleLine

\* The processor executes, a pending interrupt is taken once unmasked, SysTick
\* and the RTC count; nobody has to type.
Fairness ==
    /\ WF_vars(SysTick_Handler) /\ WF_vars(RTC_Alarm_IRQHandler) /\ WF_vars(USART1_IRQHandler)
    /\ WF_vars(IdleStep) /\ WF_vars(ThreadStep)
    /\ WF_vars(SysTickElapses) /\ WF_vars(RtcFires)

Spec == Init /\ [][Next]_vars /\ Fairness
-----------------------------------------------------------------------------
(* Properties.                                                             *)

\* The types of the variables; idle holds the processor while the interrupts
\* are masked, entry_stop_cnt never passes 2 (it is 1 or 2 in the masked section).
TypeOK ==
    /\ modes \in [{"NONE", "DEEP"} -> 0 .. 255]
    /\ entry_stop_cnt \in 0 .. 2
    /\ pc \in {"loop", "critical", "wfi"}
    /\ stat \in [Thread -> {"ready", "running", "suspended"}]
    /\ timer \in [Thread -> Nat]
    /\ current \in Thread
    /\ pending \subseteq Irq
    /\ tickint \in BOOLEAN /\ gpio \in BOOLEAN /\ rtc_armed \in BOOLEAN /\ unarmed \in BOOLEAN
    /\ clock \in {"pll", "hsi"}
    /\ commands \in 0 .. MaxCommands

\* The processor is never left to a suspended thread while another is runnable,
\* and idle has it only when no other thread is: although pm_entry_func makes the
\* idle thread suspend itself, rt_schedule loses no runnable thread.
WorkConserving ==
    /\ \A t \in Thread : stat[t] = "running" => t = current
    /\ stat[current] # "running" => Runnable(stat) = {}
    /\ current = "idle" => Runnable(stat) \subseteq {"idle"}

\* The processor enters STOP without an alarm to end it only if the command could
\* not set one.  In particular the idle thread does not enter STOP again once the
\* alarm has rung: no other wake-up source is configured.
StopHasWakeup == Stopped => rtc_armed \/ unarmed

\* Whenever NONE is requested the board is fully up: ticks, GPIO clocks and
\* supply, system clock, and the entry counter back at 0 (pm_entry_func 190-200).
RestoredWhenAwake ==
    modes["NONE"] > 0 =>
        tickint /\ gpio /\ clock = "pll" /\ entry_stop_cnt = 0 /\ pc = "loop"

\* STOP is entered on request, never because no mode at all is requested and
\* _pm_select_sleep_mode falls back on its default; NONE is requested at most once.
SleepIsRequested ==
    /\ modes["NONE"] <= 1
    /\ modes["NONE"] = 0 => modes["DEEP"] > 0

\* Every STOP ends, unless the command could not set the alarm.
StopEnds == Stopped /\ ~unarmed ~> ~Stopped

\* A second entry leads back to normal operation, unless the command could not set
\* the alarm: the path the developer relies on with
\* "进入待机模式需要执行这个函数才能正常进入 不知道为什么" (ele_ds_pm.c:145).
SecondEntryRestores == entry_stop_cnt = 2 /\ ~unarmed ~> (modes["NONE"] = 1 /\ tickint)

\* The ticks that HAL_SuspendTick stops are resumed, as the comment
\* "恢复SysTick定时器" (ele_ds_pm.c:189) says of the code after STOP.
TicksResume == ~tickint ~> tickint
=============================================================================
