--------------------------- MODULE StationProofs ---------------------------
(***************************************************************************)
(* Proofs about Station, for any pages and any number of passes, updates   *)
(* and commands: what the panel shows, what the label shows, and which     *)
(* assertions can fail.                                                    *)
(***************************************************************************)
EXTENDS Station, TLAPS

MainStep == {"boot", "command", "wait", "sht", "start", "sleep", "gone"}
Flush    == {"epd_init", "white", "image"}
Working  == {"render"} \cup Flush
LvStep   == {"off", "init", "cleared", "gui", "idle", "read", "cleanup"} \cup Working

PanelType == [awake : BOOLEAN, attached : BOOLEAN, busy : BOOLEAN, window : SUBSET Region,
              ram : [Region -> Images], shown : [Region -> Images]]
UiType    == [clock : 0 .. MaxUpdates, label : Readings, page : Page, built : BOOLEAN]
CountType == [updates : 0 .. MaxUpdates, switches : Nat, clears : Nat, failures : Nat]

\* The types, with the domains of the records.
SensorsTyped ==
    /\ main \in MainStep /\ sht_dev \in BOOLEAN /\ pass \in 0 .. MaxPass /\ data \in Readings
    /\ first \in {"none", "read", "failed"}
WidgetsTyped ==
    /\ \A f \in DOMAIN seen : f \in Field /\ seen[f] \in 0 .. MaxPass
    /\ ui \in UiType /\ count \in CountType
DrawTyped ==
    /\ lv \in LvStep /\ inv \subseteq Region /\ area \subseteq Region
    /\ timer \in BOOLEAN /\ rendering \in BOOLEAN /\ flushing \in BOOLEAN
    /\ buf \in [Region -> Images]
PanelTyped ==
    /\ panel \in PanelType /\ sh \in {"prompt", "clear", "poll"}
    /\ halted \subseteq {"main", "shell", "lvgl"} /\ lost \subseteq {"area", "clear", "attach"}
Typed == SensorsTyped /\ WidgetsTyped /\ DrawTyped /\ PanelTyped

USE StationAssumption

\* The types of the records are those of their fields.
LEMMA TypedIsTypeOK == Typed => TypeOK
<1> SUFFICES ASSUME Typed PROVE TypeOK
  OBVIOUS
<1> USE DEF Typed, SensorsTyped, WidgetsTyped, DrawTyped, PanelTyped
<1>1. ui.label \in Readings /\ ui.clock \in 0 .. MaxUpdates /\ ui.page \in Page /\ ui.built \in BOOLEAN
  BY DEF UiType
<1>2. panel.ram \in [Region -> Images] /\ panel.shown \in [Region -> Images]
  BY DEF PanelType
<1>3. {timer, rendering, flushing} \subseteq BOOLEAN
  BY Zenon
<1>4. {data, ui.label} \subseteq Readings
  BY <1>1
<1> QED
  BY <1>1, <1>2, <1>3, <1>4 DEF TypeOK, MainStep, LvStep, Working, Flush

-----------------------------------------------------------------------------
(* What a step may change. *)

\* Only main changes the readings.
LEMMA SensorsFrame == ASSUME [Next]_vars, ~ Main PROVE UNCHANGED sensors
<1>1. CASE UNCHANGED vars
  BY <1>1 DEF vars
<1>2. CASE lvgl_thread_entry
  BY <1>2 DEF lvgl_thread_entry, Goes, Refresh, disp_init, disp_init_done, disp_init_fails,
              update_time_cb, Read, lv_disp_refr_timer, refr_area_part, disp_flush_white,
              disp_flush_asserts, disp_flush_image, disp_flush_ready, refr_done, refr_cleanup
<1>3. CASE PanelReady \/ Clscr \/ cmd_clean_screen
  BY <1>3 DEF PanelReady, Clscr, cmd_clean_screen, EPD_2IN7_V2_Clear, clean_screen_done
<1>4. CASE \E page \in Page : switch_tabview_cmd(page)
  BY <1>4 DEF switch_tabview_cmd
<1> QED
  BY <1>1, <1>2, <1>3, <1>4 DEF Next

\* A step of main changes the readings and where main is, starts LVGL or halts.
LEMMA MainFrame ==
    ASSUME Main
    PROVE  /\ UNCHANGED <<seen, ui, draw, sh, panel, count, lost>>
           /\ lv' = lv \/ (lvgl_thread_init /\ lv' = "init")
BY DEF Main, devices_init, gzp6816d_command, gzp6816d_fetch, sht30_read, lvgl_thread_init, NextPass

\* A step that is neither of LVGL nor switch_tabview leaves widgets and drawing alone.
LEMMA UiFrame ==
    ASSUME [Next]_vars, ~ lvgl_thread_entry, ~ \E page \in Page : switch_tabview_cmd(page)
    PROVE  UNCHANGED <<seen, ui, draw>>
<1>1. CASE UNCHANGED vars
  BY <1>1 DEF vars
<1>2. CASE PanelReady \/ Clscr \/ cmd_clean_screen
  BY <1>2 DEF PanelReady, Clscr, cmd_clean_screen, EPD_2IN7_V2_Clear, clean_screen_done
<1> QED
  BY <1>1, <1>2, MainFrame DEF Next

-----------------------------------------------------------------------------
(* Types. *)

\* A region looks like one of the images.
LEMMA DrawnType == ASSUME ui \in UiType, NEW r \in Region PROVE Drawn(r) \in Images
<1>1. ui.clock \in 0 .. MaxUpdates /\ ui.page \in Page
  BY DEF UiType
<1>2. /\ <<"clock", ui.clock>> \in Images /\ <<"label", ui.clock>> \in Images
      /\ <<"page", ui.page>> \in Images
  BY <1>1 DEF Images
<1> QED
  BY <1>2 DEF Drawn

\* White is an image of every region.
LEMMA BlankType == Blank \in [Region -> Images]
BY DEF Blank, Images

\* What the commands of the driver do to the panel.
LEMMA PanelCommands ==
    ASSUME NEW p \in PanelType, NEW a \in SUBSET Region, NEW image \in [Region -> Images]
    PROVE  /\ EPD_Init(p) \in PanelType /\ EPD_Init(p).awake /\ ~ EPD_Init(p).busy
           /\ EPD_Init(p).ram = p.ram /\ EPD_Init(p).shown = p.shown
           /\ EPD_Init(p).attached = p.attached
           /\ Write(p, image) \in PanelType
           /\ Write(p, image).attached = p.attached /\ Write(p, image).shown = p.shown
           /\ p.awake => Write(p, image).busy
           /\ Display_Partial(p, a, image) \in PanelType
           /\ Display_Partial(p, a, image).attached = p.attached
           /\ Display_Partial(p, a, image).shown = p.shown
           /\ Display_Partial(p, a, image).busy
           /\ Display_Partial(p, a, image).ram
                = [r \in Region |-> IF r \in a THEN image[r] ELSE p.ram[r]]
<1>1. ASSUME NEW q \in PanelType
      PROVE  /\ Write(q, image) \in PanelType
             /\ Write(q, image).attached = q.attached /\ Write(q, image).shown = q.shown
             /\ q.awake => /\ Write(q, image).busy
                           /\ Write(q, image).ram
                               = [r \in Region |-> IF r \in q.window THEN image[r] ELSE q.ram[r]]
  <2> DEFINE ram == [r \in Region |-> IF r \in q.window THEN image[r] ELSE q.ram[r]]
  <2>1. q.ram \in [Region -> Images]
    BY DEF PanelType
  <2>2. ram \in [Region -> Images]
    BY <2>1
  <2>3. q.awake => Write(q, image) = [q EXCEPT !.ram = ram, !.busy = TRUE]
    BY DEF Write
  <2>4. ~ q.awake => Write(q, image) = q
    BY DEF Write
  <2> HIDE DEF ram
  <2>5. CASE q.awake
    BY <2>2, <2>3, <2>5, Zenon DEF PanelType, ram
  <2>6. CASE ~ q.awake
    BY <2>4, <2>6
  <2> QED
    BY <2>5, <2>6
<1>2. /\ EPD_Init(p) \in PanelType /\ EPD_Init(p).awake /\ ~ EPD_Init(p).busy
      /\ EPD_Init(p).ram = p.ram /\ EPD_Init(p).shown = p.shown
      /\ EPD_Init(p).attached = p.attached
  BY DEF EPD_Init, PanelType
<1> DEFINE q == [Reset(p) EXCEPT !.window = a]
<1>3. /\ q \in PanelType /\ q.awake /\ q.window = a /\ q.ram = p.ram /\ q.shown = p.shown
      /\ q.attached = p.attached
  BY DEF Reset, PanelType
<1>4. Display_Partial(p, a, image) = Write(q, image)
  BY DEF Display_Partial
<1> HIDE DEF q
<1>5. /\ Write(q, image) \in PanelType
      /\ Write(q, image).attached = p.attached /\ Write(q, image).shown = p.shown
      /\ Write(q, image).busy
      /\ Write(q, image).ram = [r \in Region |-> IF r \in a THEN image[r] ELSE p.ram[r]]
  BY <1>1, <1>3
<1> QED
  BY <1>1, <1>2, <1>4, <1>5

\* The readings keep their types.
LEMMA SensorsType == ASSUME Typed, [Next]_vars PROVE SensorsTyped'
<1> USE DEF Typed, SensorsTyped, sensors
<1>1. CASE UNCHANGED sensors
  BY <1>1
<1>2. \A f \in Field, v \in 0 .. MaxPass : [data EXCEPT ![f] = v] \in Readings
  BY DEF Readings
<1>3. "press" \in Field /\ "sht30" \in Field /\ 0 \in 0 .. MaxPass
  BY DEF Field
<1>4. CASE devices_init
  <2>1. sht_dev' \in BOOLEAN
    BY <1>4, Zenon DEF devices_init
  <2>2. pass' \in 0 .. MaxPass /\ main' \in MainStep
    BY <1>4 DEF devices_init, MainStep
  <2> QED
    BY <1>4, <2>1, <2>2 DEF devices_init
<1>5. CASE gzp6816d_command
  BY <1>2, <1>3, <1>5 DEF gzp6816d_command, MainStep
<1>6. CASE gzp6816d_fetch
  BY <1>2, <1>3, <1>6 DEF gzp6816d_fetch, MainStep
<1>7. CASE sht30_read
  BY <1>2, <1>3, <1>7 DEF sht30_read, FirstEnds, MainStep
<1>8. CASE lvgl_thread_init
  BY <1>8 DEF lvgl_thread_init, MainStep
<1>9. CASE NextPass
  BY <1>9 DEF NextPass, MainStep
<1> QED
  BY <1>1, <1>4, <1>5, <1>6, <1>7, <1>8, <1>9, SensorsFrame DEF Main

\* Counting keeps the type of the counters.
LEMMA CountUp ==
    ASSUME count \in CountType, NEW w \in {"switches", "clears", "failures"}, Count(w)
    PROVE  /\ count' \in CountType /\ count'[w] > 0
           /\ \A v \in {"updates", "switches", "clears", "failures"} :
                count'[v] = IF v = w THEN count[v] + 1 ELSE count[v]
BY DEF Count, CountType

\* The counters, the value read for the label and the widgets keep their types.
LEMMA WidgetsType == ASSUME Typed, [Next]_vars PROVE WidgetsTyped'
<1> USE DEF Typed, WidgetsTyped
<1>1. CASE UNCHANGED <<seen, ui, count>>
  BY <1>1
<1>2. ASSUME NEW f \in Field, Read(f) PROVE WidgetsTyped'
  <2>1. ui' = ui /\ seen' = [g \in {f} |-> data[f]]
    BY <1>2 DEF Read
  <2>2. data[f] \in 0 .. MaxPass
    BY DEF SensorsTyped, Readings
  <2>3. count' \in CountType
    BY <1>2 DEF Read, Count, CountType
  <2> QED
    BY <2>1, <2>2, <2>3
<1>3. CASE update_time_cb
  <2>1. Label \in Readings
    BY DEF Label, Readings, SensorsTyped
  <2>2. ui' = [ui EXCEPT !.clock = count.updates, !.built = TRUE, !.label = Label]
        /\ count' = count /\ seen' = Unread
    BY <1>3 DEF update_time_cb
  <2>3. ui' \in UiType
    BY <2>1, <2>2 DEF UiType, CountType
  <2> QED
    BY <2>2, <2>3 DEF Unread
<1>4. ASSUME NEW page \in Page, switch_tabview_cmd(page) PROVE WidgetsTyped'
  <2>1. ui' = [ui EXCEPT !.page = page] /\ seen' = seen /\ Count("switches")
    BY <1>4 DEF switch_tabview_cmd
  <2>2. count' \in CountType
    BY <2>1, CountUp
  <2>3. ui' \in UiType
    BY <2>1 DEF UiType
  <2> QED
    BY <2>1, <2>2, <2>3
<1>5. CASE cmd_clean_screen
  BY <1>5, CountUp DEF cmd_clean_screen
<1>6. CASE refr_area_part
  BY <1>6, CountUp DEF refr_area_part
<1>7. CASE Main \/ PanelReady \/ Clscr
  BY <1>1, <1>7, MainFrame DEF PanelReady, Clscr, EPD_2IN7_V2_Clear, clean_screen_done
<1>8. CASE lvgl_thread_entry
  BY <1>1, <1>2, <1>3, <1>6, <1>8 DEF lvgl_thread_entry, Goes, Refresh, disp_init,
                                      disp_init_done, disp_init_fails, lv_disp_refr_timer,
                                      disp_flush_white, disp_flush_asserts, disp_flush_image,
                                      disp_flush_ready, refr_done, refr_cleanup
<1>9. CASE UNCHANGED vars
  BY <1>1, <1>9 DEF vars
<1> QED
  BY <1>4, <1>5, <1>7, <1>8, <1>9 DEF Next

\* The state of a refresh keeps its types.
LEMMA DrawType == ASSUME Typed, [Next]_vars PROVE DrawTyped'
<1> USE DEF Typed, DrawTyped, draw
<1>1. CASE UNCHANGED <<lv, draw>>
  BY <1>1
<1>2. CASE UNCHANGED draw /\ lv' \in LvStep
  BY <1>2
<1>3. CASE update_time_cb
  <2>1. inv' \subseteq Region
    BY <1>3 DEF update_time_cb, Region
  <2>2. lv' \in LvStep /\ timer' \in BOOLEAN
    BY <1>3, Zenon DEF update_time_cb, LvStep
  <2> QED
    BY <1>3, <2>1, <2>2 DEF update_time_cb
<1>4. CASE lv_disp_refr_timer
  <2>1. timer' \in BOOLEAN /\ rendering' \in BOOLEAN
    BY <1>4, Zenon DEF lv_disp_refr_timer
  <2> QED
    BY <1>4, <2>1 DEF lv_disp_refr_timer, LvStep, Working
<1>5. CASE refr_area_part
  <2>1. flushing' \in BOOLEAN
    BY <1>5, Zenon DEF refr_area_part
  <2>2. ASSUME NEW a \in Areas(inv),
               buf' = [r \in Region |-> IF r \in a THEN Drawn(r) ELSE White]
        PROVE  buf' \in [Region -> Images]
    BY <2>2, DrawnType DEF WidgetsTyped, Images
  <2>3. \A a \in Areas(inv) : a \subseteq Region
    BY DEF Areas
  <2> QED
    BY <1>5, <2>1, <2>2, <2>3 DEF refr_area_part, LvStep, Working, Flush
<1>6. CASE disp_flush_ready
  <2>1. flushing' \in BOOLEAN
    BY <1>6, Zenon DEF disp_flush_ready
  <2> QED
    BY <1>6, <2>1, BlankType DEF disp_flush_ready, LvStep, Working
<1>7. CASE refr_done \/ refr_cleanup
  <2>1. rendering' \in BOOLEAN
    BY <1>7, Zenon DEF refr_done, refr_cleanup
  <2> QED
    BY <1>7, <2>1 DEF refr_done, refr_cleanup, LvStep
<1>8. ASSUME NEW page \in Page, switch_tabview_cmd(page) PROVE DrawTyped'
  <2>1. timer' \in BOOLEAN
    BY <1>8, Zenon DEF switch_tabview_cmd
  <2>2. inv' \subseteq Region
    BY <1>8 DEF switch_tabview_cmd, Region
  <2> QED
    BY <1>8, <2>1, <2>2 DEF switch_tabview_cmd
<1>9. CASE disp_init \/ disp_init_fails \/ disp_init_done \/ disp_flush_white
             \/ disp_flush_asserts \/ disp_flush_image \/ \E f \in Field : Read(f)
  BY <1>2, <1>9 DEF disp_init, disp_init_done, disp_init_fails, disp_flush_white,
                    disp_flush_asserts, disp_flush_image, Read, LvStep, Working, Flush
<1>10. CASE Main \/ PanelReady \/ Clscr \/ cmd_clean_screen
  BY <1>2, <1>10, MainFrame DEF PanelReady, Clscr, cmd_clean_screen, EPD_2IN7_V2_Clear,
                                clean_screen_done, LvStep
<1>11. CASE lvgl_thread_entry
  BY <1>3, <1>4, <1>5, <1>6, <1>7, <1>9, <1>11 DEF lvgl_thread_entry, Goes, Refresh
<1>12. CASE UNCHANGED vars
  BY <1>1, <1>12 DEF vars
<1> QED
  BY <1>8, <1>10, <1>11, <1>12 DEF Next

\* The steps that send something to the panel, or that the panel takes itself.
PanelStep ==
    \/ PanelReady \/ disp_init \/ disp_flush_white \/ disp_flush_image \/ disp_flush_ready
    \/ cmd_clean_screen \/ EPD_2IN7_V2_Clear

\* No other step changes the panel.
LEMMA PanelFrame == ASSUME [Next]_vars, ~ PanelStep PROVE UNCHANGED panel
<1>1. CASE UNCHANGED vars
  BY <1>1 DEF vars
<1>2. CASE lvgl_thread_entry
  BY <1>2 DEF PanelStep, lvgl_thread_entry, Goes, Refresh, disp_init_done, disp_init_fails,
              update_time_cb, Read, lv_disp_refr_timer, refr_area_part, disp_flush_asserts, refr_done,
              refr_cleanup
<1>3. CASE Clscr \/ \E page \in Page : switch_tabview_cmd(page)
  BY <1>3 DEF PanelStep, Clscr, clean_screen_done, switch_tabview_cmd
<1> QED
  BY <1>1, <1>2, <1>3, MainFrame DEF Next, PanelStep

\* The panel keeps its type; once attached it stays so.
LEMMA PanelKeeps ==
    ASSUME Typed, [Next]_vars
    PROVE  panel' \in PanelType /\ (panel.attached => panel'.attached)
<1>1. panel \in PanelType /\ area \in SUBSET Region /\ buf \in [Region -> Images]
  BY DEF Typed, PanelTyped, DrawTyped
<1>2. CASE UNCHANGED panel
  BY <1>1, <1>2
<1>3. CASE PanelReady
  BY <1>1, <1>3 DEF PanelReady, PanelType
<1>4. CASE disp_init
  <2> DEFINE p == [panel EXCEPT !.attached = TRUE]
  <2>1. p \in PanelType /\ p.attached
    BY <1>1 DEF PanelType
  <2>2. panel' = Write(EPD_Init(p), Blank)
    BY <1>4 DEF disp_init, EPD_Clear
  <2> HIDE DEF p
  <2> QED
    BY <2>1, <2>2, BlankType, PanelCommands
<1>5. CASE disp_flush_white
  <2>1. panel' = Display_Partial(EPD_Init(panel), area, Blank)
    BY <1>5 DEF disp_flush_white
  <2> QED
    BY <1>1, <2>1, BlankType, PanelCommands
<1>6. CASE disp_flush_image
  <2>1. panel' = Display_Partial(panel, area, buf)
    BY <1>6 DEF disp_flush_image
  <2> QED
    BY <1>1, <2>1, PanelCommands
<1>7. CASE disp_flush_ready
  BY <1>1, <1>7 DEF disp_flush_ready, PanelType
<1>8. CASE cmd_clean_screen
  BY <1>1, <1>8, BlankType, PanelCommands DEF cmd_clean_screen
<1>9. CASE EPD_2IN7_V2_Clear
  BY <1>1, <1>9, BlankType, PanelCommands DEF EPD_2IN7_V2_Clear, EPD_Clear
<1> QED
  BY <1>2, <1>3, <1>4, <1>5, <1>6, <1>7, <1>8, <1>9, PanelFrame DEF PanelStep

\* The shell, the assertions and what is lost keep their types.
LEMMA ShellType ==
    ASSUME Typed, [Next]_vars
    PROVE  /\ sh' \in {"prompt", "clear", "poll"}
           /\ halted' \subseteq {"main", "shell", "lvgl"} /\ lost' \subseteq {"area", "clear", "attach"}
<1> USE DEF Typed, PanelTyped
<1>1. CASE UNCHANGED <<sh, halted, lost>>
  BY <1>1
<1>2. CASE Main
  BY <1>2, MainFrame DEF Main, devices_init, gzp6816d_command, gzp6816d_fetch, sht30_read,
                         lvgl_thread_init, NextPass
<1>3. CASE lvgl_thread_entry
  BY <1>3 DEF lvgl_thread_entry, Goes, Refresh, disp_init, disp_init_done, disp_init_fails,
              update_time_cb, Read, lv_disp_refr_timer, refr_area_part, disp_flush_white,
              disp_flush_asserts, disp_flush_image, disp_flush_ready, refr_done, refr_cleanup
<1>4. CASE PanelReady \/ Clscr \/ cmd_clean_screen
  BY <1>4 DEF PanelReady, Clscr, cmd_clean_screen, EPD_2IN7_V2_Clear, clean_screen_done
<1>5. CASE \E page \in Page : switch_tabview_cmd(page)
  BY <1>5 DEF switch_tabview_cmd
<1>6. CASE UNCHANGED vars
  BY <1>1, <1>6 DEF vars
<1> QED
  BY <1>2, <1>3, <1>4, <1>5, <1>6 DEF Next

\* The types of the initial state.
LEMMA InitTyped == Init => Typed
<1> SUFFICES ASSUME Init PROVE Typed
  OBVIOUS
<1> USE DEF Init
<1>1. SensorsTyped
  <2>1. sht_dev \in BOOLEAN
    BY Zenon
  <2> QED
    BY <2>1 DEF SensorsTyped, MainStep, Readings, Nothing
<1>2. WidgetsTyped
  <2>1. ui \in UiType
    BY DEF UiType, NoUi, Nothing, Readings
  <2>2. count \in CountType
    BY DEF CountType
  <2> QED
    BY <2>1, <2>2 DEF WidgetsTyped, Unread
<1>3. DrawTyped
  <2>1. timer \in BOOLEAN /\ rendering \in BOOLEAN /\ flushing \in BOOLEAN
    BY Zenon
  <2> QED
    BY <2>1, BlankType DEF DrawTyped, LvStep
<1>4. PanelTyped
  BY BlankType DEF PanelTyped, PanelType
<1> QED
  BY <1>1, <1>2, <1>3, <1>4 DEF Typed

\* Every step keeps the types.
LEMMA NextTyped == ASSUME Typed, [Next]_vars PROVE Typed'
BY SensorsType, WidgetsType, DrawType, PanelKeeps, ShellType DEF Typed, PanelTyped

-----------------------------------------------------------------------------
(* The start, and the phases of a refresh. *)

\* LVGL is started by main, after a first pass over an SHT30 that is there.
Began ==
    /\ main = "start" => sht_dev /\ first # "none" /\ lv = "off"
    /\ lv # "off" => sht_dev /\ first # "none" /\ main # "boot"
    /\ main \notin {"boot", "gone"} => pass >= 1
    /\ main = "boot" => pass = 0

\* rendering_in_progress is set while areas are rendered; nothing is invalid before
\* there are widgets; what is invalid between two refreshes has the timer running.
Phase ==
    /\ rendering <=> lv \in Working
    /\ lv \in {"off", "init", "cleared", "gui"} => ~ ui.built
    /\ lv \in Working \cup {"idle", "cleanup"} => ui.built
    /\ ~ ui.built => inv = {}
    /\ lv \in {"idle", "read"} /\ inv # {} => timer
    /\ lv \notin {"off", "init"} => panel.attached \/ "attach" \in lost

\* What was lost stays so.
LEMMA LostGrows == ASSUME [Next]_vars PROVE lost \subseteq lost'
<1>1. CASE lvgl_thread_entry
  BY <1>1 DEF lvgl_thread_entry, Goes, Refresh, disp_init, disp_init_done, disp_init_fails,
              Read, update_time_cb, lv_disp_refr_timer, refr_area_part, disp_flush_white,
              disp_flush_asserts, disp_flush_image, disp_flush_ready, refr_done, refr_cleanup
<1> QED
  BY <1>1, MainFrame DEF Next, vars, PanelReady, Clscr, EPD_2IN7_V2_Clear, cmd_clean_screen,
                         clean_screen_done, switch_tabview_cmd

\* LVGL does nothing before it is started.
LEMMA OffFrame == ASSUME [Next]_vars, ~ Main, lv = "off" PROVE lv' = "off"
<1>1. ~ lvgl_thread_entry
  BY DEF lvgl_thread_entry, Goes, Refresh, disp_init, disp_init_done, disp_init_fails,
         update_time_cb, Read, lv_disp_refr_timer, refr_area_part, disp_flush_white,
         disp_flush_asserts, disp_flush_image, disp_flush_ready, refr_done, refr_cleanup, LvAt
<1> QED
  BY <1>1 DEF Next, vars, PanelReady, Clscr, cmd_clean_screen, EPD_2IN7_V2_Clear,
              clean_screen_done, switch_tabview_cmd

\* Nothing stops LVGL for good.
LEMMA OffBack == ASSUME [Next]_vars, lv' = "off" PROVE lv = "off"
<1>1. CASE Main
  BY <1>1, MainFrame
<1>2. CASE lvgl_thread_entry
  BY <1>2 DEF lvgl_thread_entry, Goes, Refresh, disp_init, disp_init_done, disp_init_fails,
              update_time_cb, Read, lv_disp_refr_timer, refr_area_part, disp_flush_white,
              disp_flush_asserts, disp_flush_image, disp_flush_ready, refr_done, refr_cleanup
<1> QED
  BY <1>1, <1>2 DEF Next, vars, PanelReady, Clscr, cmd_clean_screen, EPD_2IN7_V2_Clear,
                    clean_screen_done, switch_tabview_cmd

\* The start keeps its order.
LEMMA BeganStep == ASSUME Typed, Began, [Next]_vars PROVE Began'
<1> USE DEF Began
<1>1. CASE ~ Main
  BY <1>1, SensorsFrame, OffFrame DEF sensors
<1>2. CASE devices_init
  BY <1>2 DEF devices_init
<1>3. CASE gzp6816d_command \/ gzp6816d_fetch
  BY <1>3 DEF gzp6816d_command, gzp6816d_fetch
<1>4. CASE sht30_read
  BY <1>4 DEF sht30_read, FirstEnds
<1>5. CASE lvgl_thread_init
  BY <1>5 DEF lvgl_thread_init
<1>6. CASE NextPass
  <2>1. pass' >= 1
    BY <1>6 DEF NextPass, Typed, SensorsTyped
  <2> QED
    BY <1>6, <2>1 DEF NextPass
<1> QED
  BY <1>1, <1>2, <1>3, <1>4, <1>5, <1>6 DEF Main

\* A refresh keeps its phases.
LEMMA PhaseStep == ASSUME Typed, Began, Phase, [Next]_vars PROVE Phase'
<1> USE DEF Phase, Working, Flush
<1>1. panel.attached \/ "attach" \in lost => panel'.attached \/ "attach" \in lost'
  BY PanelKeeps, LostGrows
<1>2. CASE UNCHANGED <<ui, draw>> /\ (lv' = lv \/ (lv = "off" /\ lv' = "init"))
  BY <1>1, <1>2 DEF draw
<1>3. CASE Main
  <2>1. lvgl_thread_init => lv = "off"
    BY DEF Began, lvgl_thread_init
  <2> QED
    BY <1>2, <1>3, <2>1, MainFrame
<1>4. CASE PanelReady \/ Clscr \/ cmd_clean_screen
  BY <1>2, <1>4 DEF PanelReady, Clscr, cmd_clean_screen, EPD_2IN7_V2_Clear, clean_screen_done
<1>5. CASE UNCHANGED vars
  BY <1>2, <1>5 DEF vars
<1>6. CASE disp_init
  <2> DEFINE p == [panel EXCEPT !.attached = TRUE]
  <2>1. p \in PanelType /\ p.attached
    BY DEF Typed, PanelTyped, PanelType
  <2>2. panel' = Write(EPD_Init(p), Blank)
    BY <1>6 DEF disp_init, EPD_Clear
  <2> HIDE DEF p
  <2>3. panel'.attached
    BY <2>1, <2>2, BlankType, PanelCommands
  <2> QED
    BY <1>6, <2>3 DEF disp_init, draw, LvAt
<1>15. CASE disp_init_fails
  BY <1>15 DEF disp_init_fails, draw, LvAt
<1>16. CASE disp_flush_asserts
  BY <1>2, <1>16 DEF disp_flush_asserts
<1>7. CASE disp_init_done \/ \E f \in Field : Read(f)
  <2>1. \/ lv = "cleared" /\ lv' = "gui"
        \/ lv \in {"gui", "idle"} /\ lv' = "read"
    BY <1>7 DEF disp_init_done, disp_init_fails, Read, LvAt
  <2>2. UNCHANGED <<ui, inv, timer, rendering>>
    BY <1>7 DEF disp_init_done, disp_init_fails, Read, draw
  <2> QED
    BY <1>1, <2>1, <2>2
<1>8. CASE update_time_cb
  <2>1. ui'.built
    BY <1>8 DEF update_time_cb, Typed, WidgetsTyped, UiType
  <2> QED
    BY <1>1, <1>8, <2>1 DEF update_time_cb, LvAt
<1>9. CASE lv_disp_refr_timer
  BY <1>1, <1>9 DEF lv_disp_refr_timer, LvAt
<1>10. CASE refr_area_part
  BY <1>1, <1>10 DEF refr_area_part, LvAt
<1>11. CASE disp_flush_white \/ disp_flush_image \/ disp_flush_ready
  BY <1>1, <1>11 DEF disp_flush_white, disp_flush_asserts, disp_flush_image, disp_flush_ready,
                     draw, LvAt
<1>12. CASE refr_done \/ refr_cleanup
  BY <1>1, <1>12 DEF refr_done, refr_cleanup, LvAt
<1>13. ASSUME NEW page \in Page, switch_tabview_cmd(page) PROVE Phase'
  <2>1. ui'.built /\ ui.built
    BY <1>13 DEF switch_tabview_cmd, Typed, WidgetsTyped, UiType
  <2> QED
    BY <1>1, <1>13, <2>1 DEF switch_tabview_cmd
<1>14. CASE lvgl_thread_entry
  BY <1>6, <1>7, <1>8, <1>9, <1>10, <1>11, <1>12, <1>14, <1>15, <1>16
     DEF lvgl_thread_entry, Goes, Refresh
<1> QED
  BY <1>3, <1>4, <1>5, <1>13, <1>14 DEF Next

-----------------------------------------------------------------------------
(* The label. *)

\* The SHT30: the label is not newer than the reading, nor than the value read for the
\* next label; after a first reading that succeeded none of them is empty.
ShtForward ==
    /\ data.sht30 <= pass
    /\ ui.label.sht30 <= data.sht30
    /\ "sht30" \in DOMAIN seen => /\ ui.label.sht30 <= seen["sht30"]
                                  /\ seen["sht30"] <= data.sht30
                                  /\ first = "read" => seen["sht30"] > 0
    /\ first = "read" => data.sht30 > 0
    /\ lv = "off" => DOMAIN seen = {}
    /\ DataBeforeDisplay

\* The pressure: the same, but a reading may be zero again.
PressForward ==
    /\ data.press <= pass /\ ui.label.press <= pass
    /\ data.press = 0 \/ ui.label.press <= data.press
    /\ "press" \in DOMAIN seen => /\ seen["press"] = 0 \/ ui.label.press <= seen["press"]
                                  /\ data.press = 0 \/ seen["press"] <= data.press
                                  /\ seen["press"] <= pass

\* The numbers that the steps below compare.
LEMMA Numbers ==
    ASSUME Typed
    PROVE  /\ pass \in Nat
           /\ \A f \in Field : data[f] \in Nat /\ ui.label[f] \in Nat
           /\ \A f \in DOMAIN seen : seen[f] \in Nat
BY DEF Typed, SensorsTyped, WidgetsTyped, UiType, Readings

\* A step copies a reading, makes a label of what was copied and of the readings as
\* they are, or leaves label and copy alone.
LEMMA WidgetSteps ==
    ASSUME Typed, [Next]_vars
    PROVE  \/ ui'.label = ui.label /\ ui'.built = ui.built /\ seen' = seen
           \/ /\ ui' = ui /\ UNCHANGED sensors /\ lv \in {"gui", "idle"} /\ lv' = "read"
              /\ \E f \in Field : seen' = [g \in {f} |-> data[f]]
           \/ /\ ui'.label = Label /\ ui'.built /\ seen' = Unread /\ UNCHANGED sensors
              /\ lv = "read" /\ lv' = "idle"
<1>1. CASE UNCHANGED <<ui, seen>>
  BY <1>1
<1>2. ASSUME NEW f \in Field, Read(f)
      PROVE  /\ ui' = ui /\ UNCHANGED sensors /\ lv \in {"gui", "idle"} /\ lv' = "read"
             /\ seen' = [g \in {f} |-> data[f]]
  BY <1>2 DEF Read, LvAt
<1>3. ASSUME update_time_cb
      PROVE  /\ ui'.label = Label /\ ui'.built /\ seen' = Unread /\ UNCHANGED sensors
             /\ lv = "read" /\ lv' = "idle"
  <2>1. ui' = [ui EXCEPT !.clock = count.updates, !.built = TRUE, !.label = Label]
    BY <1>3 DEF update_time_cb
  <2>2. ui'.label = Label /\ ui'.built
    BY <2>1 DEF Typed, WidgetsTyped, UiType
  <2> QED
    BY <1>3, <2>2 DEF update_time_cb, LvAt
<1>4. ASSUME NEW page \in Page, switch_tabview_cmd(page)
      PROVE  ui'.label = ui.label /\ ui'.built = ui.built /\ seen' = seen
  BY <1>4 DEF switch_tabview_cmd, Typed, WidgetsTyped, UiType
<1>5. CASE lvgl_thread_entry
  <2>1. CASE update_time_cb
    BY <1>3, <2>1
  <2>2. CASE \E f \in Field : Read(f)
    BY <1>2, <2>2
  <2> QED
    BY <1>1, <1>5, <2>1, <2>2 DEF lvgl_thread_entry, Goes, Refresh, disp_init, disp_init_done,
                                  disp_init_fails, lv_disp_refr_timer, refr_area_part,
                                  disp_flush_white, disp_flush_asserts, disp_flush_image,
                                  disp_flush_ready, refr_done, refr_cleanup
<1> QED
  BY <1>1, <1>4, <1>5, UiFrame

\* A step stores a reading of this pass, the zero of a failed command, or nothing.
LEMMA SensorSteps ==
    ASSUME Typed, Began, [Next]_vars
    PROVE  /\ pass' >= pass
           /\ data'.sht30 \in {data.sht30, pass} /\ data'.press \in {data.press, 0, pass}
           /\ first' # first => first = "none" /\ lv = "off" /\ lv' = "off"
           /\ first' # first /\ first' = "read" => data'.sht30 = pass /\ pass > 0
<1>1. CASE UNCHANGED <<pass, data, first>>
  BY <1>1, Numbers
<1>2. CASE devices_init
  <2>1. pass = 0 /\ pass' \in {0, 1} /\ UNCHANGED <<data, first>>
    BY <1>2 DEF devices_init, Began
  <2> QED
    BY <2>1
<1>3. CASE gzp6816d_command \/ gzp6816d_fetch
  <2>1. data' \in {data, [data EXCEPT !.press = 0], [data EXCEPT !.press = pass]}
    BY <1>3 DEF gzp6816d_command, gzp6816d_fetch
  <2>2. data'.sht30 = data.sht30 /\ data'.press \in {data.press, 0, pass}
    BY <2>1 DEF Typed, SensorsTyped, Readings, Field
  <2>3. UNCHANGED <<pass, first>>
    BY <1>3 DEF gzp6816d_command, gzp6816d_fetch
  <2> QED
    BY <2>2, <2>3, Numbers
<1>4. CASE sht30_read
  <2>1. pass' = pass /\ lv' = lv /\ pass > 0
    BY <1>4, Numbers DEF sht30_read, Began
  <2>2. first' # first => first = "none" /\ lv = "off"
    BY <1>4 DEF sht30_read, FirstEnds, Began
  <2>3. data' \in {data, [data EXCEPT !.sht30 = pass]}
    BY <1>4 DEF sht30_read
  <2>4. first' # first /\ first' = "read" => data' = [data EXCEPT !.sht30 = pass]
    BY <1>4 DEF sht30_read, FirstEnds
  <2>5. data'.sht30 \in {data.sht30, pass} /\ data'.press = data.press
    BY <2>3 DEF Typed, SensorsTyped, Readings, Field
  <2>6. first' # first /\ first' = "read" => data'.sht30 = pass
    BY <2>4 DEF Typed, SensorsTyped, Readings, Field
  <2> QED
    BY <2>1, <2>2, <2>5, <2>6, Numbers
<1>5. CASE lvgl_thread_init
  BY <1>1, <1>5 DEF lvgl_thread_init
<1>6. CASE NextPass
  BY <1>6, Numbers DEF NextPass
<1>7. CASE ~ Main
  BY <1>1, <1>7, SensorsFrame DEF sensors
<1> QED
  BY <1>2, <1>3, <1>4, <1>5, <1>6, <1>7 DEF Main

\* What the next label shows of a value.
LEMMA LabelOf ==
    ASSUME NEW f \in Field
    PROVE  Label[f] = IF f \in DOMAIN seen THEN seen[f] ELSE data[f]
BY DEF Label

\* The label of the SHT30 keeps its order.
LEMMA ShtStep ==
    ASSUME Typed, Typed', Began, Phase, ShtForward, [Next]_vars PROVE ShtForward'
<1> USE DEF ShtForward
<1>1. "sht30" \in Field
  BY DEF Field
<1>2. /\ pass \in Nat /\ pass' \in Nat /\ data.sht30 \in Nat /\ data'.sht30 \in Nat
      /\ ui.label.sht30 \in Nat /\ ui'.label.sht30 \in Nat
      /\ "sht30" \in DOMAIN seen => seen["sht30"] \in Nat
  <2>1. data'.sht30 \in Nat /\ ui'.label.sht30 \in Nat /\ pass' \in Nat
    BY <1>1 DEF Typed, SensorsTyped, WidgetsTyped, UiType, Readings
  <2> QED
    BY <1>1, <2>1, Numbers
<1>3. data'.sht30 <= pass' /\ data.sht30 <= data'.sht30
  BY <1>2, SensorSteps
<1>4. first' = "read" => data'.sht30 > 0
  BY <1>2, <1>3, SensorSteps
<1>5. CASE ui'.label = ui.label /\ ui'.built = ui.built /\ seen' = seen
  <2>1. ui'.label.sht30 <= data'.sht30
    BY <1>2, <1>3, <1>5
  <2>2. lv' = "off" => lv = "off"
    BY OffBack
  <2>3. "sht30" \in DOMAIN seen =>
             /\ ui'.label.sht30 <= seen["sht30"] /\ seen["sht30"] <= data'.sht30
             /\ first' = "read" => seen["sht30"] > 0
    BY <1>2, <1>3, <1>5, SensorSteps
  <2>4. DataBeforeDisplay'
    <3>1. CASE first' = first
      BY <1>5, <3>1 DEF DataBeforeDisplay
    <3>2. CASE first' # first
      BY <1>5, <3>2, SensorSteps DEF DataBeforeDisplay, Phase
    <3> QED
      BY <3>1, <3>2
  <2> QED
    BY <1>3, <1>4, <1>5, <2>1, <2>2, <2>3, <2>4
<1>6. ASSUME ui' = ui, UNCHANGED sensors, lv \in {"gui", "idle"}, lv' = "read",
             NEW f \in Field, seen' = [g \in {f} |-> data[f]]
      PROVE  ShtForward'
  <2>1. "sht30" \in DOMAIN seen' => seen'["sht30"] = data.sht30
    BY <1>6
  <2>2. UNCHANGED <<data, pass, first>>
    BY <1>6 DEF sensors
  <2>3. DataBeforeDisplay'
    BY <1>6, <2>2 DEF DataBeforeDisplay
  <2>4. "sht30" \in DOMAIN seen' => /\ ui'.label.sht30 <= seen'["sht30"]
                                    /\ seen'["sht30"] <= data'.sht30
                                    /\ first' = "read" => seen'["sht30"] > 0
    BY <1>2, <1>6, <2>1, <2>2
  <2> QED
    BY <1>3, <1>4, <1>6, <2>2, <2>3, <2>4
<1>7. ASSUME ui'.label = Label, ui'.built, seen' = Unread, UNCHANGED sensors, lv = "read", lv' = "idle"
      PROVE  ShtForward'
  <2>1. UNCHANGED <<data, pass, first>> /\ DOMAIN seen' = {}
    BY <1>7 DEF sensors, Unread
  <2>2. ui'.label.sht30 = IF "sht30" \in DOMAIN seen THEN seen["sht30"] ELSE data.sht30
    BY <1>1, <1>7, LabelOf
  <2>3. first \in {"read", "failed"}
    BY <1>7 DEF Began, Typed, SensorsTyped
  <2>4. ui'.label.sht30 <= data.sht30 /\ (first = "read" => ui'.label.sht30 > 0)
    BY <1>2, <2>2
  <2>5. DataBeforeDisplay'
    BY <2>1, <2>3, <2>4 DEF DataBeforeDisplay
  <2> QED
    BY <1>7, <2>1, <2>4, <2>5
<1> QED
  BY <1>5, <1>6, <1>7, WidgetSteps

\* The label of the pressure keeps its order.
LEMMA PressStep ==
    ASSUME Typed, Typed', Began, PressForward, [Next]_vars PROVE PressForward'
<1> USE DEF PressForward
<1>1. "press" \in Field
  BY DEF Field
<1>2. /\ pass \in Nat /\ pass' \in Nat /\ data.press \in Nat /\ data'.press \in Nat
      /\ ui.label.press \in Nat /\ ui'.label.press \in Nat
      /\ "press" \in DOMAIN seen => seen["press"] \in Nat
  <2>1. data'.press \in Nat /\ ui'.label.press \in Nat /\ pass' \in Nat
    BY <1>1 DEF Typed, SensorsTyped, WidgetsTyped, UiType, Readings
  <2> QED
    BY <1>1, <2>1, Numbers
<1>3. pass' >= pass /\ data'.press \in {data.press, 0, pass}
  BY SensorSteps
<1>4. CASE ui'.label = ui.label /\ ui'.built = ui.built /\ seen' = seen
  <2>1. /\ data'.press <= pass' /\ ui'.label.press <= pass'
        /\ data'.press = 0 \/ ui'.label.press <= data'.press
    BY <1>2, <1>3, <1>4
  <2>2. "press" \in DOMAIN seen => /\ data'.press = 0 \/ seen["press"] <= data'.press
                                   /\ seen["press"] <= pass'
    BY <1>2, <1>3
  <2> QED
    BY <1>4, <2>1, <2>2
<1>5. ASSUME ui' = ui, UNCHANGED sensors, NEW f \in Field, seen' = [g \in {f} |-> data[f]]
      PROVE  PressForward'
  <2>1. "press" \in DOMAIN seen' => seen'["press"] = data.press
    BY <1>5
  <2>2. UNCHANGED <<data, pass>>
    BY <1>5 DEF sensors
  <2>3. "press" \in DOMAIN seen' =>
             /\ seen'["press"] = 0 \/ ui'.label.press <= seen'["press"]
             /\ data'.press = 0 \/ seen'["press"] <= data'.press
             /\ seen'["press"] <= pass'
    BY <1>2, <1>5, <2>1, <2>2
  <2> QED
    BY <1>5, <2>2, <2>3
<1>6. ASSUME ui'.label = Label, seen' = Unread, UNCHANGED sensors PROVE PressForward'
  <2>1. UNCHANGED <<data, pass>> /\ DOMAIN seen' = {}
    BY <1>6 DEF sensors, Unread
  <2>2. ui'.label.press = IF "press" \in DOMAIN seen THEN seen["press"] ELSE data.press
    BY <1>1, <1>6, LabelOf
  <2>3. ui'.label.press <= pass /\ (data.press = 0 \/ ui'.label.press <= data.press)
    BY <1>2, <2>2
  <2> QED
    BY <2>1, <2>3
<1> QED
  BY <1>4, <1>5, <1>6, WidgetSteps

\* A new label is not older than the label before it.
LEMMA LabelStep ==
    ASSUME Typed, ShtForward, PressForward, [Next]_vars
    PROVE  \A f \in Field : \/ ui'.label[f] >= ui.label[f]
                            \/ f = "press" /\ ui'.label[f] = 0
<1>1. CASE ui'.label = ui.label
  BY <1>1, Numbers
<1>2. CASE ui'.label = Label
  <2> SUFFICES ASSUME NEW f \in Field
               PROVE  Label[f] >= ui.label[f] \/ (f = "press" /\ Label[f] = 0)
    BY <1>2
  <2>1. data[f] \in Nat /\ ui.label[f] \in Nat /\ (f \in DOMAIN seen => seen[f] \in Nat)
    BY Numbers
  <2>2. CASE f = "sht30"
    BY <2>1, <2>2, LabelOf DEF ShtForward
  <2>3. CASE f = "press"
    BY <2>1, <2>3, LabelOf DEF PressForward
  <2> QED
    BY <2>2, <2>3 DEF Field
<1> QED
  BY <1>1, <1>2, WidgetSteps

-----------------------------------------------------------------------------
(* The theorems about the readings, the label and the schedule. *)

\* The inductive invariant of the sensors, the label and the phases of a refresh.
SInv == Typed /\ Began /\ Phase /\ ShtForward /\ PressForward

\* The start has it.
LEMMA InitSInv == Init => SInv
<1> SUFFICES ASSUME Init PROVE SInv
  OBVIOUS
<1>1. Typed
  BY InitTyped
<1>2. Began /\ Phase
  BY DEF Init, Began, Phase, NoUi, Working, Flush
<1>3. ShtForward /\ PressForward
  BY DEF Init, ShtForward, PressForward, DataBeforeDisplay, NoUi, Nothing, Unread, Field
<1> QED
  BY <1>1, <1>2, <1>3 DEF SInv

\* Every step keeps it.
LEMMA SInvStep == SInv /\ [Next]_vars => SInv'
BY NextTyped, BeganStep, PhaseStep, ShtStep, PressStep DEF SInv

\* The types, the order of the start, the phases of a refresh and the order of the
\* values of the label hold in every state.
THEOREM StationInvariant == Spec => []SInv
BY InitSInv, SInvStep, PTL DEF Spec

\* An area that is invalid has the refresh timer running (_lv_disp_refr_timer pauses it).
THEOREM RefreshIsScheduled == Spec => []RefreshScheduled
<1>1. SInv => RefreshScheduled
  BY TypedIsTypeOK DEF SInv, Phase, RefreshScheduled
<1> QED
  BY <1>1, StationInvariant, PTL

\* The first picture has data: main reads the sensors before it starts LVGL.
THEOREM FirstPictureHasData == Spec => []DataBeforeDisplay
<1>1. SInv => DataBeforeDisplay
  BY DEF SInv, ShtForward
<1> QED
  BY <1>1, StationInvariant, PTL

\* update_time_cb never replaces a value of the label by an older one.
THEOREM NoOlderLabel == Spec => LabelMovesForward
<1>1. ASSUME SInv, [Next]_vars
      PROVE  [\A f \in Field : \/ ui'.label[f] >= ui.label[f]
                               \/ f = "press" /\ ui'.label[f] = 0]_vars
  BY <1>1, LabelStep DEF SInv
<1> QED
  BY <1>1, StationInvariant, PTL DEF Spec, LabelMovesForward

\* Only main without an SHT30 and a clscr before disp_init meet a failing assertion, both
\* before the panel is in use, or clscr and LVGL when disp_init could not attach it.
THEOREM NoAssertionAfterStart == Spec => AssertionsHold
<1>1. ASSUME SInv, [Next]_vars, halted' # halted
      PROVE  lv \in {"off", "init"} \/ "attach" \in lost
  <2>1. CASE Main
    <3>1. sht30_read /\ ~ sht_dev
      BY <1>1, <2>1 DEF Main, devices_init, gzp6816d_command, gzp6816d_fetch, sht30_read,
                        lvgl_thread_init, NextPass
    <3> QED
      BY <1>1, <3>1 DEF SInv, Began
  <2>2. CASE cmd_clean_screen
    BY <1>1, <2>2 DEF cmd_clean_screen, SInv, Phase
  <2>4. CASE disp_flush_asserts
    BY <1>1, <2>4 DEF disp_flush_asserts, LvAt, SInv, Phase
  <2>3. CASE lvgl_thread_entry
    BY <1>1, <2>3, <2>4 DEF lvgl_thread_entry, Goes, Refresh, disp_init, disp_init_done,
                            disp_init_fails, Read, update_time_cb, lv_disp_refr_timer,
                            refr_area_part, disp_flush_white, disp_flush_asserts,
                            disp_flush_image, disp_flush_ready, refr_done, refr_cleanup
  <2> QED
    BY <1>1, <2>1, <2>2, <2>3 DEF Next, vars, PanelReady, Clscr, EPD_2IN7_V2_Clear,
                                  clean_screen_done, switch_tabview_cmd
<1>2. SInv /\ [Next]_vars => [halted' # halted => lv \in {"off", "init"} \/ "attach" \in lost]_vars
  BY <1>1
<1> QED
  BY <1>2, StationInvariant, PTL DEF Spec, AssertionsHold

-----------------------------------------------------------------------------
(* The panel. *)

Undisturbed == "area" \notin lost /\ count.failures = 0 /\ count.clears = 0

\* What is neither invalid nor being flushed is on the panel; an area that is flushed
\* was rendered from the widgets as they are.
Fresh ==
    /\ flushing <=> lv \in Flush
    /\ lv \in Flush => inv \cap area = {} /\ \A r \in area : buf[r] = Drawn(r)
    /\ lv \notin Flush => area = {}
    /\ lv = "image" => \A r \in area : panel.ram[r] = Drawn(r)
    /\ lv = "cleanup" => inv = {}
    /\ ui.built => \A r \in Region \ (inv \cup area) :
                      panel.ram[r] = Drawn(r) /\ panel.shown[r] = Drawn(r)

\* The panel updates only while LVGL waits for it, and then shows its memory.
Awaited ==
    /\ sh = "prompt"
    /\ ~ panel.busy => panel.shown = panel.ram
    /\ lv \notin {"cleared", "white", "image"} => ~ panel.busy

\* What was disturbed stays so.
LEMMA Disturbs == ASSUME Typed, [Next]_vars, Undisturbed' PROVE Undisturbed
<1>1. lost \subseteq lost'
  BY LostGrows
<1>2. count.failures \in Nat /\ count.clears \in Nat /\ count \in CountType
  BY DEF Typed, WidgetsTyped, CountType
<1>3. ASSUME NEW w \in {"switches", "clears", "failures"}, Count(w)
      PROVE  count'.failures >= count.failures /\ count'.clears >= count.clears
  BY <1>2, <1>3, CountUp
<1>4. ASSUME Count("updates")
      PROVE  count'.failures = count.failures /\ count'.clears = count.clears
  BY <1>2, <1>4 DEF Count, CountType
<1>5. count'.failures >= count.failures /\ count'.clears >= count.clears
  <2>1. CASE UNCHANGED count
    BY <1>2, <2>1
  <2>2. CASE lvgl_thread_entry
    <3>1. count' = count \/ Count("updates") \/ Count("failures")
      BY <2>2 DEF lvgl_thread_entry, Goes, Refresh, disp_init, disp_init_done, disp_init_fails,
                  Read, update_time_cb, lv_disp_refr_timer, refr_area_part, disp_flush_white,
                  disp_flush_asserts, disp_flush_image, disp_flush_ready, refr_done,
                  refr_cleanup
    <3> QED
      BY <1>2, <1>3, <1>4, <3>1
  <2>3. CASE cmd_clean_screen \/ \E page \in Page : switch_tabview_cmd(page)
    BY <1>3, <2>3 DEF cmd_clean_screen, switch_tabview_cmd
  <2> QED
    BY <2>1, <2>2, <2>3, MainFrame DEF Next, vars, PanelReady, Clscr, EPD_2IN7_V2_Clear,
                                       clean_screen_done
<1> QED
  BY <1>1, <1>2, <1>5 DEF Undisturbed

\* No clscr runs in an undisturbed step.
LEMMA NoClear ==
    ASSUME Typed, Awaited, [Next]_vars, Undisturbed'
    PROVE  ~ cmd_clean_screen /\ ~ Clscr /\ sh' = "prompt"
<1>1. ~ cmd_clean_screen
  <2> SUFFICES ASSUME cmd_clean_screen PROVE FALSE
    OBVIOUS
  <2>1. Count("clears") /\ count \in CountType
    BY DEF cmd_clean_screen, Typed, WidgetsTyped
  <2>2. count'.clears > 0
    BY <2>1, CountUp
  <2> QED
    BY <2>2 DEF Undisturbed
<1>2. ~ Clscr
  BY DEF Awaited, Clscr, EPD_2IN7_V2_Clear, clean_screen_done, ShAt
<1>3. ASSUME lvgl_thread_entry PROVE sh' = sh
  BY <1>3 DEF lvgl_thread_entry, Goes, Refresh, disp_init, disp_init_done, disp_init_fails,
              Read, update_time_cb, lv_disp_refr_timer, refr_area_part, disp_flush_white,
              disp_flush_asserts, disp_flush_image, disp_flush_ready, refr_done, refr_cleanup
<1> QED
  BY <1>1, <1>2, <1>3, MainFrame DEF Awaited, Next, vars, PanelReady, switch_tabview_cmd

\* LVGL waits for every update that it starts.
LEMMA AwaitedStep == ASSUME Typed, Began, Awaited, [Next]_vars, Undisturbed' PROVE Awaited'
<1>1. ~ cmd_clean_screen /\ ~ Clscr /\ sh' = "prompt"
  BY NoClear
<1>2. panel \in PanelType /\ area \in SUBSET Region /\ buf \in [Region -> Images]
  BY DEF Typed, PanelTyped, DrawTyped
<1> USE DEF Awaited
<1>3. CASE UNCHANGED <<lv, panel>>
  BY <1>1, <1>3
<1>4. CASE Main
  BY <1>1, <1>3, <1>4, MainFrame DEF lvgl_thread_init, Began
<1>5. CASE PanelReady
  BY <1>1, <1>2, <1>5 DEF PanelReady, PanelType
<1>6. CASE disp_init
  <2> DEFINE p == [panel EXCEPT !.attached = TRUE]
  <2>1. p \in PanelType
    BY <1>2 DEF PanelType
  <2>2. panel' = Write(EPD_Init(p), Blank)
    BY <1>6 DEF disp_init, EPD_Clear
  <2> HIDE DEF p
  <2>3. panel'.busy
    BY <2>1, <2>2, BlankType, PanelCommands
  <2> QED
    BY <1>1, <1>6, <2>3 DEF disp_init
<1>7. CASE disp_flush_white
  <2>1. panel' = Display_Partial(EPD_Init(panel), area, Blank) /\ lv' = "white"
    BY <1>7 DEF disp_flush_white
  <2> QED
    BY <1>1, <1>2, <2>1, BlankType, PanelCommands
<1>8. CASE disp_flush_image
  <2>1. panel' = Display_Partial(panel, area, buf) /\ lv' = "image"
    BY <1>8 DEF disp_flush_image
  <2> QED
    BY <1>1, <1>2, <2>1, PanelCommands
<1>9. CASE disp_flush_ready
  BY <1>1, <1>2, <1>9 DEF disp_flush_ready, ReadBusy, PanelType
<1>10. CASE disp_init_done
  BY <1>1, <1>10 DEF disp_init_done, disp_init_fails, ReadBusy
<1>11. CASE UNCHANGED panel /\ lv \notin {"cleared", "white", "image"}
  BY <1>1, <1>11
<1>13. CASE disp_flush_asserts \/ disp_init_fails
  BY <1>11, <1>13 DEF disp_flush_asserts, disp_init_fails, LvAt
<1>12. CASE lvgl_thread_entry
  BY <1>6, <1>7, <1>8, <1>9, <1>10, <1>11, <1>12, <1>13
     DEF lvgl_thread_entry, Goes, Refresh, Read, update_time_cb, lv_disp_refr_timer,
         refr_area_part, refr_done, refr_cleanup, LvAt
<1> QED
  BY <1>1, <1>3, <1>4, <1>5, <1>12 DEF Next, vars, switch_tabview_cmd

\* The widgets look the same while they are not changed.
LEMMA DrawnSame == ASSUME UNCHANGED ui, NEW r PROVE Drawn(r)' = Drawn(r)
BY DEF Drawn

\* A region whose look the steps on the widgets change is invalid afterwards.
LEMMA DrawnChanges ==
    ASSUME Typed, NEW r \in Region, ui.built
    PROVE  /\ update_time_cb => r \in inv' \/ Drawn(r)' = Drawn(r)
           /\ \A page \in Page :
                switch_tabview_cmd(page) /\ ~ rendering => r \in inv' \/ Drawn(r)' = Drawn(r)
<1>1. ASSUME update_time_cb PROVE r \in inv' \/ Drawn(r)' = Drawn(r)
  <2>1. ui'.page = ui.page
    BY <1>1 DEF update_time_cb, Typed, WidgetsTyped, UiType
  <2>2. "bar" \in inv' /\ (ui.page = 0 => "label" \in inv')
    BY <1>1 DEF update_time_cb
  <2> QED
    BY <2>1, <2>2 DEF Drawn, Region
<1>2. ASSUME NEW page \in Page, switch_tabview_cmd(page), ~ rendering
      PROVE  r \in inv' \/ Drawn(r)' = Drawn(r)
  <2>1. ui'.clock = ui.clock
    BY <1>2 DEF switch_tabview_cmd, Typed, WidgetsTyped, UiType
  <2>2. "label" \in inv' /\ "rest" \in inv'
    BY <1>2 DEF switch_tabview_cmd
  <2> QED
    BY <2>1, <2>2 DEF Drawn, Region
<1> QED
  BY <1>1, <1>2

\* A flush shows what it rendered and touches nothing else.
LEMMA FreshStep ==
    ASSUME Typed, Began, Phase, Awaited, Fresh, [Next]_vars, Undisturbed' PROVE Fresh'
<1>1. ~ cmd_clean_screen /\ ~ Clscr /\ sh' = "prompt"
  BY NoClear
<1>2. /\ panel \in PanelType /\ area \in SUBSET Region /\ buf \in [Region -> Images]
      /\ inv \in SUBSET Region
  BY DEF Typed, PanelTyped, DrawTyped
<1>3. ui' = ui => \A r \in Region : Drawn(r)' = Drawn(r)
  BY DrawnSame, SMTT(20)
<1> USE DEF Fresh, Flush
<1>4. CASE UNCHANGED <<ui, draw, panel>> /\ lv \notin Flush \cup {"cleanup"}
                                         /\ lv' \notin Flush \cup {"cleanup"}
  BY <1>2, <1>3, <1>4 DEF draw
<1>5. CASE UNCHANGED <<lv, ui, draw, panel>>
  BY <1>2, <1>3, <1>5 DEF draw
<1>6. CASE Main
  <2>1. lvgl_thread_init => lv = "off"
    BY DEF lvgl_thread_init, Began
  <2> QED
    BY <1>4, <1>5, <1>6, <2>1, MainFrame
<1>7. CASE PanelReady
  <2>1. UNCHANGED <<lv, ui, draw>> /\ panel' = [panel EXCEPT !.shown = panel.ram, !.busy = FALSE]
    BY <1>7 DEF PanelReady
  <2>2. panel'.ram = panel.ram /\ panel'.shown = panel.ram
    BY <1>2, <2>1 DEF PanelType
  <2> QED
    BY <1>2, <1>3, <2>1, <2>2 DEF draw
<1>8. CASE disp_init
  BY <1>8, SMTT(20) DEF disp_init, draw, LvAt, Phase
<1>9. CASE disp_init_done \/ \E f \in Field : Read(f)
  BY <1>4, <1>9, Zenon DEF disp_init_done, Read, LvAt
<1>19. CASE disp_init_fails
  BY <1>4, <1>19, Zenon DEF disp_init_fails, LvAt
<1>20. CASE disp_flush_asserts
  BY <1>5, <1>20, Zenon DEF disp_flush_asserts
<1>10. CASE update_time_cb
  <2>1. /\ lv = "read" /\ lv' = "idle" /\ UNCHANGED <<flushing, area, panel>>
        /\ ~ ui.built => inv' = Region
        /\ ui.built => inv \subseteq inv'
    BY <1>10 DEF update_time_cb, LvAt
  <2>2. ui.built => \A r \in Region : r \in inv' \/ Drawn(r)' = Drawn(r)
    BY <1>10, DrawnChanges
  <2> QED
    BY <1>2, <2>1, <2>2, SMTT(20)
<1>11. CASE lv_disp_refr_timer
  BY <1>2, <1>3, <1>11 DEF lv_disp_refr_timer, LvAt
<1>12. CASE refr_area_part
  <2>1. ~ Count("failures")
    BY CountUp DEF Undisturbed, Typed, WidgetsTyped
  <2>2. PICK a \in Areas(inv) :
             /\ inv' = inv \ a /\ area' = a
             /\ buf' = [r \in Region |-> IF r \in a THEN Drawn(r) ELSE White]
             /\ lv' = "epd_init" /\ flushing' = TRUE
    BY <1>12, <2>1 DEF refr_area_part
  <2>3. a \subseteq inv /\ a \subseteq Region
    BY <1>2 DEF Areas
  <2>4. UNCHANGED <<ui, panel>> /\ lv = "render"
    BY <1>12 DEF refr_area_part, LvAt
  <2> QED
    BY <1>2, <1>3, <2>2, <2>3, <2>4
<1>13. CASE disp_flush_white
  <2>1. panel' = Display_Partial(EPD_Init(panel), area, Blank)
    BY <1>13, SMTT(20) DEF disp_flush_white
  <2>2. /\ panel'.shown = panel.shown
        /\ panel'.ram = [r \in Region |-> IF r \in area THEN Blank[r] ELSE panel.ram[r]]
    BY <1>2, <2>1, BlankType, PanelCommands
  <2>3. lv = "epd_init" /\ lv' = "white" /\ UNCHANGED <<ui, draw>>
    BY <1>13 DEF disp_flush_white, disp_flush_asserts, LvAt
  <2> QED
    BY <1>2, <1>3, <2>2, <2>3 DEF draw
<1>14. CASE disp_flush_image
  <2>1. panel' = Display_Partial(panel, area, buf)
    BY <1>14 DEF disp_flush_image
  <2>2. /\ panel'.shown = panel.shown
        /\ panel'.ram = [r \in Region |-> IF r \in area THEN buf[r] ELSE panel.ram[r]]
    BY <1>2, <2>1, PanelCommands
  <2>3. lv = "white" /\ lv' = "image" /\ UNCHANGED <<ui, draw>>
    BY <1>14 DEF disp_flush_image, LvAt
  <2> QED
    BY <1>2, <1>3, <2>2, <2>3, SMTT(20) DEF draw
<1>15. CASE disp_flush_ready
  <2>1. /\ lv = "image" /\ lv' = "render" /\ area' = {} /\ flushing' = FALSE
        /\ UNCHANGED <<ui, inv>> /\ ~ panel.busy
        /\ panel' = [panel EXCEPT !.awake = FALSE, !.window = Region]
    BY <1>15 DEF disp_flush_ready, LvAt, ReadBusy
  <2>2. panel'.ram = panel.ram /\ panel'.shown = panel.shown /\ panel.shown = panel.ram
    BY <1>2, <2>1 DEF PanelType, Awaited
  <2> QED
    BY <1>2, <1>3, <2>1, <2>2
<1>16. CASE refr_done \/ refr_cleanup
  BY <1>2, <1>3, <1>16 DEF refr_done, refr_cleanup, LvAt
<1>17. ASSUME NEW page \in Page, switch_tabview_cmd(page) PROVE Fresh'
  <2>1. lv \notin Working \cup {"cleanup"} /\ ~ rendering
    BY <1>17 DEF switch_tabview_cmd, Undisturbed, Phase, Working
  <2>2. /\ UNCHANGED <<lv, flushing, area, panel>> /\ ui.built
        /\ inv \subseteq inv'
    BY <1>17 DEF switch_tabview_cmd
  <2>3. \A r \in Region : r \in inv' \/ Drawn(r)' = Drawn(r)
    BY <1>17, <2>1, <2>2, DrawnChanges
  <2> QED
    BY <1>2, <2>1, <2>2, <2>3 DEF Working
<1>18. CASE lvgl_thread_entry
  BY <1>8, <1>9, <1>10, <1>11, <1>12, <1>13, <1>14, <1>15, <1>16, <1>18,
     <1>19, <1>20, Zenon
     DEF lvgl_thread_entry, Goes, Refresh
<1> QED
  BY <1>1, <1>5, <1>6, <1>7, <1>17, <1>18 DEF Next, vars

\* The invariant of the panel.
PInv == SInv /\ (Undisturbed => Awaited /\ Fresh)

\* With nothing left to refresh the panel shows the widgets, unless switch_tabview ran
\* during a refresh, an allocation of disp_flush failed or clscr was typed.
THEOREM PanelShowsWidgets == Spec => []PanelShowsUi
<1>1. Init => PInv
  <2> SUFFICES ASSUME Init PROVE PInv
    OBVIOUS
  <2>1. Awaited /\ Fresh
    BY DEF Init, Awaited, Fresh, Flush, NoUi
  <2> QED
    BY <2>1, InitSInv DEF PInv
<1>2. PInv /\ [Next]_vars => PInv'
  BY SInvStep, Disturbs, AwaitedStep, FreshStep, Zenon DEF PInv, SInv
<1>3. PInv => PanelShowsUi
  BY DEF PInv, SInv, Typed, Undisturbed, Fresh, Flush, PanelShowsUi
<1> QED
  BY <1>1, <1>2, <1>3, PTL DEF Spec
=============================================================================
