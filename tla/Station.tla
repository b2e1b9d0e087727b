------------------------------- MODULE Station -------------------------------
(***************************************************************************)
(* The threads that make the picture: main reads the sensors, LVGL draws   *)
(* and flushes to the e-paper panel, the shell runs clscr and              *)
(* switch_tabview on the same panel and the same widgets.                  *)
(*                                                                         *)
(* main has the higher priority: LVGL and the shell (of equal priority)    *)
(* run while it is blocked.  LVGL blocks in every wait for the panel, in   *)
(* the middle of a flush; there the shell runs.  A measured value is the   *)
(* number of the pass that measured it, 0 stands for none.                 *)
(*                                                                         *)
(* The screen has three regions: the status bar with the clock, the label  *)
(* with the sensor data, which is part of page 0, and the rest of a page.  *)
(***************************************************************************)
EXTENDS Integers

CONSTANTS
    Page,         \* the pages of the tab view, 0 among them
    MaxPass,      \* bound: passes over the sensors
    MaxUpdates,   \* bound: updates of the clock and the label
    MaxEvents     \* bound: commands and failed allocations in one behaviour

ASSUME StationAssumption ==
    /\ 0 \in Page
    /\ {MaxPass, MaxUpdates, MaxEvents} \subseteq Nat /\ MaxPass > 0

Region == {"bar", "label", "rest"}

VARIABLES
    main,       \* where main is
    sht_dev,    \* sht3x_init returned a device
    pass,       \* passes over the sensors begun
    data,       \* g_ele_ds->sensor_data
    first,      \* how the first reading of the SHT30 ended (auxiliary)
    lv,         \* where the LVGL thread is
    seen,       \* the value already read for the label, a function on one Field or none
    ui,         \* the widgets: clock, label, and the active page
    inv,        \* the regions invalidated
    timer,      \* refr_timer is not paused
    rendering,  \* rendering_in_progress
    flushing,   \* draw_buf->flushing
    area, buf,  \* the area being flushed and its image
    sh,         \* where the shell is: "prompt", "clear", "poll"
    panel,      \* awake, attached, busy; window; ram and shown per region
    halted,     \* threads that spin in rt_assert_handler
    count,      \* updates, switches, clears and failures so far
    lost        \* "area": an invalidation was lost; "clear": a flush put the panel to
                \* sleep under clscr; "attach": disp_init has no panel (auxiliary)

sensors == <<main, sht_dev, pass, data, first>>
draw == <<inv, timer, rendering, flushing, area, buf>>
vars == <<sensors, lv, seen, ui, draw, sh, panel, halted, count, lost>>

\* The values of the label; sht30 stands for its temperature or its humidity.
Field == {"sht30", "press"}
Nothing == [f \in Field |-> 0]
Unread == [f \in {} |-> 0]
White == <<"white">>
NoUi == [clock |-> 0, label |-> Nothing, page |-> 0, built |-> FALSE]

\* What a region looks like; the text of a label is named by the update it is of.
Drawn(r) ==
    CASE r = "bar" -> <<"clock", ui.clock>>
      [] r = "label" /\ ui.page = 0 -> <<"label", ui.clock>>
      [] OTHER -> <<"page", ui.page>>

Quiet == count.switches + count.clears + count.failures < MaxEvents
Count(what) == count' = [count EXCEPT ![what] = @ + 1]

-----------------------------------------------------------------------------
(* main.  A sensor that fails is logged and keeps its old value.           *)

\* Mutant: LVGL is started before the first pass.
devices_init_StartsLvgl ==
    /\ main = "boot" /\ main' = "start" /\ pass' = 1 /\ sht_dev' = TRUE
    /\ UNCHANGED <<data, first, lv, seen, ui, draw, sh, panel, halted, count, lost>>

\* devices_init fails with the pressure sensor only; main then returns.
devices_init ==
    /\ main = "boot"
    /\ \/ main' = "command" /\ pass' = 1
       \/ main' = "gone" /\ UNCHANGED pass
    /\ sht_dev' \in BOOLEAN
    /\ UNCHANGED <<data, first, lv, seen, ui, draw, sh, panel, halted, count, lost>>

\* The command that starts a measurement.  When it cannot be sent the driver
\* reports success, with a buffer of zeros; when the device cannot be opened
\* nothing is stored.
gzp6816d_command ==
    /\ main = "command"
    /\ \/ main' = "wait" /\ UNCHANGED data
       \/ main' = "sht" /\ data' = [data EXCEPT !.press = 0]
       \/ main' = "sht" /\ UNCHANGED data
    /\ UNCHANGED <<sht_dev, pass, first, lv, seen, ui, draw, sh, panel, halted, count, lost>>

\* 250 ms later: the result, or a bus error, or the sensor is still busy.
gzp6816d_fetch ==
    /\ main = "wait"
    /\ main' = "sht"
    /\ data' \in {data, [data EXCEPT !.press = pass]}
    /\ UNCHANGED <<sht_dev, pass, first, lv, seen, ui, draw, sh, panel, halted, count, lost>>

FirstEnds(how) == first' = IF first = "none" THEN how ELSE first

\* Mutant: a failed reading is stored as zeros.
sht30_read_Zeroes ==
    /\ main = "sht" /\ "main" \notin halted /\ sht_dev
    /\ \/ data' = [data EXCEPT !.sht30 = pass] /\ FirstEnds("read")
       \/ data' = [data EXCEPT !.sht30 = 0] /\ FirstEnds("failed")
    /\ main' = IF lv = "off" THEN "start" ELSE "sleep"
    /\ UNCHANGED <<halted, sht_dev, pass, lv, seen, ui, draw, sh, panel, count, lost>>

\* get_sht30_data, and the battery; then the first time lvgl_thread_init.
sht30_read ==
    /\ main = "sht" /\ "main" \notin halted
    /\ \/ /\ sht_dev
          /\ \/ data' = [data EXCEPT !.sht30 = pass] /\ FirstEnds("read")
             \/ UNCHANGED data /\ FirstEnds("failed")
          /\ main' = IF lv = "off" THEN "start" ELSE "sleep"
          /\ UNCHANGED halted
       \/ /\ ~sht_dev
          /\ halted' = halted \cup {"main"}
          /\ UNCHANGED <<data, first, main>>
    /\ UNCHANGED <<sht_dev, pass, lv, seen, ui, draw, sh, panel, count, lost>>

lvgl_thread_init ==
    /\ main = "start"
    /\ lv' = "init"
    /\ main' = "sleep"
    /\ UNCHANGED <<sht_dev, pass, data, first, seen, ui, draw, sh, panel, halted, count, lost>>

NextPass ==
    /\ main = "sleep" /\ pass < MaxPass
    /\ pass' = pass + 1
    /\ main' = "command"
    /\ UNCHANGED <<sht_dev, data, first, lv, seen, ui, draw, sh, panel, halted, count, lost>>

Blocked == main \in {"wait", "sht", "sleep", "gone"} /\ "main" \notin halted

-----------------------------------------------------------------------------
(* The panel.  Commands sent to it in deep sleep are lost; a reset wakes   *)
(* it and ends an update.                                                  *)

\* One step: after the reset BUSY is low, so that its waits only pass 20 ms; what the
\* other thread sends to the panel in between it can as well send before or after.
EPD_Init(p) == [p EXCEPT !.awake = TRUE, !.busy = FALSE, !.window = Region]

Reset(p) == [p EXCEPT !.awake = TRUE, !.busy = FALSE]

\* Writing the window and starting an update.
Write(p, image) ==
    IF ~p.awake THEN p
    ELSE [p EXCEPT !.ram = [r \in Region |-> IF r \in p.window THEN image[r] ELSE @[r]],
                   !.busy = TRUE]

\* Mutant: the window is not set.
Display_Partial_NoWindow(p, a, image) == Write(Reset(p), image)

Display_Partial(p, a, image) == Write([Reset(p) EXCEPT !.window = a], image)

Blank == [r \in Region |-> White]

EPD_Clear(p) == Write(p, Blank)

\* The update is done and BUSY falls.
PanelReady ==
    /\ panel.busy
    /\ panel' = [panel EXCEPT !.shown = panel.ram, !.busy = FALSE]
    /\ UNCHANGED <<sensors, lv, seen, ui, draw, sh, halted, count, lost>>

ReadBusy == panel.awake /\ ~panel.busy

-----------------------------------------------------------------------------
(* The LVGL thread.                                                        *)

LvAt(where) == lv = where /\ Blocked /\ "lvgl" \notin halted

\* Mutant: the panel is not attached.
disp_init_LateAttach ==
    /\ LvAt("init")
    /\ panel' = EPD_Clear(EPD_Init(panel)) /\ lv' = "cleared"
    /\ UNCHANGED <<sensors, seen, ui, draw, sh, halted, count, lost>>

\* lv_port_disp_init.
disp_init ==
    /\ LvAt("init")
    /\ panel' = EPD_Clear(EPD_Init([panel EXCEPT !.attached = TRUE]))
    /\ lv' = "cleared"
    /\ UNCHANGED <<sensors, seen, ui, draw, sh, halted, count, lost>>

\* ele_ds_epaper_init could not attach the panel to the SPI bus; LVGL goes on.
disp_init_fails ==
    /\ LvAt("init")
    /\ lv' = "gui"
    /\ lost' = lost \cup {"attach"}
    /\ UNCHANGED <<sensors, seen, ui, draw, sh, panel, halted, count>>

disp_init_done ==
    /\ LvAt("cleared") /\ ReadBusy
    /\ lv' = "gui"
    /\ UNCHANGED <<sensors, seen, ui, draw, sh, panel, halted, count, lost>>

\* lv_user_gui_init, and every 20 s update_time_cb, format the label.  C leaves the
\* order in which the arguments are read open, and main may run between the reads.
Read(f) ==
    /\ \/ LvAt("gui") /\ UNCHANGED count
       \/ LvAt("idle") /\ count.updates < MaxUpdates /\ Count("updates")
    /\ seen' = [g \in {f} |-> data[f]]
    /\ lv' = "read"
    /\ UNCHANGED <<sensors, ui, draw, sh, panel, halted, lost>>

\* The label: the value read before, the other as it is now.
Label == [f \in Field |-> IF f \in DOMAIN seen THEN seen[f] ELSE data[f]]

\* Mutant: the refresh timer is not resumed.
update_time_cb_NoResume ==
    /\ LvAt("read")
    /\ ui' = [ui EXCEPT !.clock = count.updates, !.built = TRUE, !.label = Label]
    /\ inv' = Region /\ lv' = "idle" /\ seen' = Unread
    /\ UNCHANGED <<sensors, timer, rendering, flushing, area, buf, sh, panel, halted, count, lost>>

\* The first time everything is invalidated, later the label only when visible.
update_time_cb ==
    /\ LvAt("read")
    /\ ui' = [ui EXCEPT !.clock = count.updates, !.built = TRUE, !.label = Label]
    /\ inv' = IF ~ui.built THEN Region
              ELSE inv \cup {"bar"} \cup (IF ui.page = 0 THEN {"label"} ELSE {})
    /\ timer' = TRUE
    /\ lv' = "idle"
    /\ seen' = Unread
    /\ UNCHANGED <<sensors, rendering, flushing, area, buf, sh, panel, halted, count, lost>>

\* _lv_disp_refr_timer up to the loop of refr_invalid_areas.
lv_disp_refr_timer ==
    /\ LvAt("idle") /\ timer
    /\ timer' = FALSE
    /\ rendering' = (inv # {})
    /\ lv' = IF inv # {} THEN "render" ELSE "idle"
    /\ UNCHANGED <<sensors, seen, ui, inv, flushing, area, buf, sh, panel, halted, count, lost>>

\* The areas, joined, that are left: the bar, and what is invalid of the page.
Areas(rs) == {{"bar"} \cap rs, rs \ {"bar"}} \ {{}}

\* refr_area_part: wait until the buffer is free, render, flush.  disp_flush
\* returns without lv_disp_flush_ready when its allocation fails.
refr_area_part ==
    /\ LvAt("render") /\ ~flushing
    /\ flushing' = TRUE
    /\ \E a \in Areas(inv) :
          /\ inv' = inv \ a
          /\ \/ /\ lv' = "epd_init"
                /\ area' = a
                /\ buf' = [r \in Region |-> IF r \in a THEN Drawn(r) ELSE White]
                /\ UNCHANGED count
             \/ /\ Quiet /\ Count("failures")
                /\ UNCHANGED <<lv, area, buf>>
    /\ UNCHANGED <<sensors, seen, ui, timer, rendering, sh, panel, halted, lost>>

\* disp_flush: the area is made white first, then the image is shown.
disp_flush_white ==
    /\ LvAt("epd_init") /\ panel.attached
    /\ panel' = Display_Partial(EPD_Init(panel), area, Blank)
    /\ lv' = "white"
    /\ UNCHANGED <<sensors, seen, ui, draw, sh, halted, count, lost>>

\* Without a panel its first command meets the assertion of DEV_SPI_WriteByte.
disp_flush_asserts ==
    /\ LvAt("epd_init") /\ ~panel.attached
    /\ halted' = halted \cup {"lvgl"}
    /\ UNCHANGED <<sensors, lv, seen, ui, draw, sh, panel, count, lost>>

\* Mutant: the panel is put to sleep before it is ready.
disp_flush_image_SleepsFirst ==
    /\ LvAt("white") /\ ReadBusy
    /\ panel' = [Display_Partial(panel, area, buf) EXCEPT !.awake = FALSE]
    /\ lv' = "image"
    /\ UNCHANGED <<sensors, seen, ui, draw, sh, halted, count, lost>>

disp_flush_image ==
    /\ LvAt("white") /\ ReadBusy
    /\ panel' = Display_Partial(panel, area, buf)
    /\ lv' = "image"
    /\ UNCHANGED <<sensors, seen, ui, draw, sh, halted, count, lost>>

\* wait_for_idle, EPD_Sleep, lv_disp_flush_ready.  (Whoever wakes the panel sets its
\* window anew.)
disp_flush_ready ==
    /\ LvAt("image") /\ ReadBusy
    /\ panel' = [panel EXCEPT !.awake = FALSE, !.window = Region]
    /\ flushing' = FALSE
    /\ area' = {} /\ buf' = Blank
    /\ lv' = "render"
    /\ lost' = lost \cup (IF sh # "prompt" THEN {"clear"} ELSE {})
    /\ UNCHANGED <<sensors, seen, ui, inv, timer, rendering, sh, halted, count>>

\* The end of refr_invalid_areas, and then the areas are forgotten.
refr_done ==
    /\ LvAt("render") /\ inv = {}
    /\ rendering' = FALSE
    /\ lv' = "cleanup"
    /\ UNCHANGED <<sensors, seen, ui, inv, timer, flushing, area, buf, sh, panel, halted, count, lost>>

refr_cleanup ==
    /\ LvAt("cleanup")
    /\ inv' = {}
    /\ lv' = "idle"
    /\ UNCHANGED <<sensors, seen, ui, timer, rendering, flushing, area, buf, sh, panel, halted, count, lost>>

-----------------------------------------------------------------------------
(* The shell.                                                              *)

ShAt(where) == sh = where /\ Blocked /\ "shell" \notin halted

\* lv_tabview_set_act; _lv_inv_area ignores an area while LVGL renders.
switch_tabview_cmd(page) ==
    /\ ShAt("prompt") /\ ui.built
    /\ Quiet /\ Count("switches")
    /\ ui' = [ui EXCEPT !.page = page]
    /\ \/ rendering /\ UNCHANGED <<inv, timer>>
       \/ ~rendering /\ inv' = inv \cup {"label", "rest"} /\ timer' = TRUE
    /\ lost' = lost \cup (IF lv \in {"render", "epd_init", "white", "image", "cleanup"}
                          THEN {"area"} ELSE {})
    /\ UNCHANGED <<sensors, lv, seen, rendering, flushing, area, buf, sh, panel, halted>>

\* Mutant: the panel is not reset.
cmd_clean_screen_NoInit ==
    /\ ShAt("prompt") /\ panel.attached
    /\ Quiet /\ Count("clears")
    /\ sh' = "clear"
    /\ UNCHANGED <<sensors, lv, seen, ui, draw, panel, halted, lost>>

\* The panel must have been attached by the LVGL thread: DEV_SPI_WriteByte asserts it.
cmd_clean_screen ==
    /\ ShAt("prompt")
    /\ Quiet /\ Count("clears")
    /\ \/ /\ panel.attached
          /\ panel' = EPD_Init(panel)
          /\ sh' = "clear"
          /\ UNCHANGED halted
       \/ /\ ~panel.attached
          /\ halted' = halted \cup {"shell"}
          /\ UNCHANGED <<panel, sh>>
    /\ UNCHANGED <<sensors, lv, seen, ui, draw, lost>>

EPD_2IN7_V2_Clear ==
    /\ ShAt("clear")
    /\ panel' = EPD_Clear(panel)
    /\ sh' = "poll"
    /\ UNCHANGED <<sensors, lv, seen, ui, draw, halted, count, lost>>

clean_screen_done ==
    /\ ShAt("poll") /\ ReadBusy
    /\ sh' = "prompt"
    /\ UNCHANGED <<sensors, lv, seen, ui, draw, panel, halted, count, lost>>

-----------------------------------------------------------------------------
Init ==
    /\ main = "boot" /\ sht_dev = FALSE /\ pass = 0 /\ data = Nothing /\ first = "none"
    /\ lv = "off" /\ seen = Unread /\ ui = NoUi
    /\ inv = {} /\ timer = FALSE /\ rendering = FALSE /\ flushing = FALSE
    /\ area = {} /\ buf = Blank
    /\ sh = "prompt"
    /\ panel = [awake |-> FALSE, attached |-> FALSE, busy |-> FALSE, window |-> Region,
                ram |-> Blank, shown |-> Blank]
    /\ halted = {}
    /\ count = [w \in {"updates", "switches", "clears", "failures"} |-> 0]
    /\ lost = {}

Main ==
    \/ devices_init \/ gzp6816d_command \/ gzp6816d_fetch \/ sht30_read
    \/ lvgl_thread_init \/ NextPass

Refresh ==
    \/ lv_disp_refr_timer \/ refr_area_part \/ disp_flush_white \/ disp_flush_asserts
    \/ disp_flush_image \/ disp_flush_ready \/ refr_done \/ refr_cleanup

\* LVGL at work; with nothing to refresh it waits for the timer of an update.
Goes ==
    \/ disp_init \/ disp_init_fails \/ disp_init_done \/ update_time_cb \/ Refresh
    \/ lv = "gui" /\ \E f \in Field : Read(f)

lvgl_thread_entry == Goes \/ (lv = "idle" /\ \E f \in Field : Read(f))

Clscr == EPD_2IN7_V2_Clear \/ clean_screen_done

Next ==
    \/ Main \/ lvgl_thread_entry \/ PanelReady \/ Clscr \/ cmd_clean_screen
    \/ \E page \in Page : switch_tabview_cmd(page)

\* The threads run (the shell and LVGL share their priority in time slices) and
\* the panel ends its updates; nobody has to type.
Fairness == WF_vars(Main) /\ WF_vars(Goes) /\ WF_vars(PanelReady) /\ WF_vars(Clscr)

Spec == Init /\ [][Next]_vars /\ Fairness
-----------------------------------------------------------------------------
(* Properties.                                                             *)

Readings == [Field -> 0 .. MaxPass]
Images == {White} \cup {<<"clock", n>> : n \in 0 .. MaxUpdates}
            \cup {<<"label", n>> : n \in 0 .. MaxUpdates} \cup {<<"page", p>> : p \in Page}

\* The types of the variables.
TypeOK ==
    /\ main \in {"boot", "command", "wait", "sht", "start", "sleep", "gone"}
    /\ sht_dev \in BOOLEAN /\ pass \in 0 .. MaxPass
    /\ {data, ui.label} \subseteq Readings
    /\ \A f \in DOMAIN seen : f \in Field /\ seen[f] \in 0 .. MaxPass
    /\ lv \in {"off", "init", "cleared", "gui", "idle", "read", "render",
               "epd_init", "white", "image", "cleanup"}
    /\ ui.clock \in 0 .. MaxUpdates /\ ui.page \in Page /\ ui.built \in BOOLEAN
    /\ inv \subseteq Region /\ area \subseteq Region
    /\ first \in {"none", "read", "failed"} /\ lost \subseteq {"area", "clear", "attach"}
    /\ {timer, rendering, flushing} \subseteq BOOLEAN
    /\ buf \in [Region -> Images]
    /\ sh \in {"prompt", "clear", "poll"}
    /\ panel.ram \in [Region -> Images] /\ panel.shown \in [Region -> Images]
    /\ halted \subseteq {"main", "shell", "lvgl"}

\* With nothing left to refresh the panel shows the widgets, unless an invalidation
\* was lost, an allocation failed or the screen was cleared by command: windows,
\* resets, deep sleep and joined areas lose nothing else.  (An invalidation is lost
\* when switch_tabview runs during a flush; the old page then stays for good.)
PanelShowsUi ==
    lv = "idle" /\ inv = {} /\ ui.built /\ "area" \notin lost /\ count.failures = 0 /\ count.clears = 0
        => \A r \in Region : panel.shown[r] = Drawn(r)

\* An area that is invalid will be refreshed: the timer that _lv_disp_refr_timer
\* pauses is running whenever something is left for it (with the types of the variables).
RefreshScheduled == TypeOK /\ (lv \in {"idle", "read"} /\ inv # {} => timer)

\* A new label may mix the values of two passes (main runs between the reads of
\* update_time_cb), but shows none older than the label before it; only the pressure
\* may fall back to zero, when the sensor's command could not be sent.
LabelMovesForward ==
    [][\A f \in Field : \/ ui'.label[f] >= ui.label[f]
                        \/ f = "press" /\ ui'.label[f] = 0]_vars

\* The first picture has data (main.c:36 "先读一次保证屏幕刷新时有数据"): the label
\* is created after the first pass, and with its values unless the SHT30 failed.
DataBeforeDisplay == ui.built => first = "failed" \/ ui.label.sht30 > 0

\* Once disp_init has attached the panel no thread meets a failing assertion any more:
\* that of get_all_sensor_data (no SHT30) stops main before it starts LVGL, that of
\* DEV_SPI_WriteByte stops a clscr typed before disp_init, and both clscr and LVGL
\* itself when ele_ds_epaper_init failed.
AssertionsHold == [][halted' # halted => lv \in {"off", "init"} \/ "attach" \in lost]_vars

\* Every refresh ends, whatever the shell sends to the panel meanwhile, unless an
\* allocation failed or there is no panel.
RefreshEnds == rendering ~> (~rendering \/ count.failures > 0 \/ "attach" \in lost)

\* clscr returns, unless a flush of LVGL puts the panel to sleep under it.
ClearEnds == sh # "prompt" ~> (sh = "prompt" \/ "clear" \in lost)
=============================================================================
