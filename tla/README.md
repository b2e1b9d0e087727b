# A verification project for ele_ds

ele_ds is the firmware of a desk ornament with an e-paper display: an STM32F4
under RT-Thread that shows time, weather and memos, measures temperature,
humidity, pressure and air quality, rings an alarm, sleeps to save its battery,
and receives weather, memos and software updates from a server over Wi-Fi.
This directory holds TLA+ models of its parts, the TLC configurations that check
them, and TLAPS proofs about them. `PROJECT.json` lists every run, mutant,
finding, hazard and theorem and maps each definition to the lines it models.

## The system

| part | source | state | operations | what is hard about it |
|---|---|---|---|---|
| ring buffer | rt-thread `ipc/ringbuffer.c` | pool, two indices, two mirror bits | put, get, data_len, space_len | wrap-around, full against empty; used by two threads without a lock |
| client threads | `ele_ds/client.c` | `rb_sem`, the two threads | recv → put → release; take → get → parse | preemption inside a put, wake-ups, a full buffer |
| message parser | `ele_ds/client.c`, `common.c` | `recv_info`, the parse buffer, the update file | the states NONE, HEAD, DATA, FINISH | TCP cuts the stream anywhere; lost blocks; failing flash; stale bytes in the buffer |
| configuration | `dfs/dfscfg.c` | `device_cfg`, `/sysfile/config` | load, save, defaults | power failure at any step; calls on the flash whose results are ignored; fields lost in conversion |
| power management | `pm/ele_ds_pm.c`, rt-thread `pm/pm.c`, `scheduler_up.c` | request counters, thread states and timers, STOP | sleep_mode, the idle thread's entry into STOP, wake-up | the idle thread delays itself with interrupts masked; ticks, supply and clock are off in STOP |
| alarm service | `pm/ele_ds_pm.c` (alarm_sample), rt-thread `rtc/alarm.c`, `drv_rtc.c` | alarm list, current alarm, RTC register | create, start, delete, wake-up, update | an alarm freed or replaced while its predecessor rings; the 2 s window; the RTC compares the time of day only |
| sensors, start-up | `main.c`, `ele_ds/ele_ds.c`, gzp6816d driver | readings, `sht_dev` | init, one pass over the sensors | partial failure; readings used by another thread between two stores |
| display | `lvgl/lv_port_disp.c`, `components/epaper`, LVGL's refresh | invalid areas, draw buffer, flush, panel | refresh, flush, sleep, clscr | the shell drives the same panel in the middle of a flush |
| user interface | `lvgl/lv_port_indev.c` | label, clock, page | periodic update, switch_tabview | an invalidation from another thread |
| keys | `btn/btn.c` | — | periodic scan | — |
| archive extraction | `common.c` untar, `microtar.c` | two positions, open streams | read header, read data, next | a read or seek that fails in the middle of an archive moves the two positions differently; results that untar ignores |
| weather table | `weather/weather.c` | none | look-up | — |

The parts meet in few places: the client threads share the ring buffer and its
semaphore; the parser changes `device_cfg`; main, LVGL and the shell share readings,
widgets and panel (composed in `Station`); `sleep_mode` relies on the alarm service to
end STOP. In the current source `devices_init` has the call of
`esp8266_device_init` commented out (`ele_ds.c:438`); the client is modelled as the
code it is when it is started.

## Modules

| module | models | checked by |
|---|---|---|
| `BoundedFifo` | what a ring buffer promises: a queue that takes what fits and gives what there is | property `FifoSpec` of `RingBuffer` |
| `RingBuffer` | `rt_ringbuffer_*`, one action per call | `ring_buffer` |
| `RecvPipeline` | the two client threads, with `rt_ringbuffer_put` taken apart into its loads and stores | `pipeline_*` |
| `ClientParse`, `MCClientParse` | `th_recv_parse` and the state machine of `parse_recv_data`; messages and links for TLC | `parse`, `parse_stale_tail` |
| `ConfigStore` | `device_cfg`, its file, saves, restarts and power failures | `config_store` |
| `PowerManager` | the way into STOP and out of it, with the slice of the kernel it meets | `power_manager`, `power_ticks` |
| `AlarmService` | the alarm that ends a sleep, from the command to the RTC | `alarm_service` |
| `Untar`, `MCUntar` | the untar command over microtar; archives for TLC | `untar` |
| `Station` | main with the sensors, LVGL with the widgets, the shell and the panel | `station` |
| `RecvPipelineProofs`, `ClientParseProofs`, `StationProofs` | theorems about the module of that name | TLAPS |
| `StorageProofs` | theorems about `RingBuffer` and `ConfigStore`, the client's two stores | TLAPS |
| `SleepProofs` | theorems about `PowerManager` and `AlarmService` | TLAPS |
| `MicrotarProofs`, `UntarProofs`, `UntarFilesProofs` | theorems about `Untar`: the archive and microtar, the command, a full extraction | TLAPS |

`ConfigStore` and `AlarmService` name their specifications `StoreSpec` and `AlarmSpec` (`StoreInit`,
`AlarmNext` and so on), so that a proof module can extend them beside another component.

### RingBuffer

The variables are the fields of `struct rt_ringbuffer` and two results: the bytes
the last get returned and the count the last put returned. `rt_ringbuffer_put`
and `rt_ringbuffer_get` are the whole functions; `Copied` and `Taken` are the one
or two `rt_memcpy` calls of each. `Contents` reads the queue off the fields, and
with it every step is a step of `BoundedFifo` (`FifoSpec`); `MirrorOrder` says that the
order of the indices is the one the mirror bits stand for. Bounds: two byte
values, a pool of 3 and requests of up to 4 bytes, so that a request can be
larger than the pool, end exactly at its end, or wrap.

### RecvPipeline

`th_client` is the program counter `wpc`, `th_recv_parse` the program counter
`ppc`. The parser has the higher priority (`client.c:651-664`), so it runs as
soon as it is ready (`ParserReady`) and its get is one step; but it sleeps in flash
writes (`ParseBlocks`), and what wakes it may come between any two instructions of a put.
How a put is divided depends on the build. `rtconfig.py` builds with `-O0` by
default ("debug"): `rt_ringbuffer_status` and `rt_ringbuffer_data_len` load the
indices separately (`CompareIndices`, `CompareMirrors`, `SubtractIndices`) and a wrap
stores mirror bit and index separately (`FlipMirror`, `WrapIndex`). An optimised
build loads the words once (`SpaceLen`) and merges the two bit-field stores.

Each byte is labelled with its place in the accepted stream. The properties:

* `InOrder`: what the parser is handed continues the stream without gap or repetition;
* `NoStrandedData`: the unread bytes are at most `PackSize` times the semaphore
  count (plus a release under way), so that no byte waits for a block that may never come;
* `DropOnlyWhenFull`: a put refuses bytes only for want of room;
* `EveryByteParsed`: every accepted byte is eventually parsed, under weak fairness of
  the two threads' steps (they run when they are ready; nothing is assumed of the server).

They hold in an optimised build (`pipeline_release`) and, by the proofs, in a debug
build as long as parsing does not sleep. In a debug build with flash writes they do not, in two
ways (below); what `pipeline_debug` shows there is `StaysInPool`: even in the races every
access stays inside the pool and the parse buffer.
Bounds: a pool of 5, blocks of 2, 13 bytes: the pool wraps twice, at odd places, and
fills; the real sizes are 15000 and 1500.

### ClientParse

One action per case of the `switch` in `parse_recv_data` and per outcome, `Get` for
the call and `Return` for what the thread does with the result. The conditions of a behaviour
are the record `link`, one of `Links`: which messages the server sends (`Send`), how
long a block may be, whether blocks cross the ends of headers and messages (`aligned`),
are lost in a full ring buffer (`lossy`, `Lose`), and whether open and write may fail (`failing`). A
header is two units, so that it can be cut in two; data units are NUL or not, since
`is_json` is given `strlen(buffer)`. A buffer without a NUL makes `strlen` run into
other memory: the outcome is then open. A CRC is abstracted to the contents it is
computed from.

The run `parse` has four links: any two of six messages over a link that cuts, loses
and fails in every way; the same without losses and with aligned blocks; a day's messages over a reliable
link; and three updates, one of them without data, in blocks longer than a header. Everywhere the parser's descriptor is the only one it holds, and the console's is
never closed (`OwnsItsFile`, the defect README.md:74 of the repository describes; its mutant is that
defect); every message starts from a clean state (`CleanStart`); a call ends with a
header or data expected (`RestsInNoneOrData`); the lengths add up and what is stored is
what was handed over (`StoredAsReceived`); files only grow, except for the first block of
a new update (`OnlyAppends`); every call returns (`CallReturns`). On the second link a message that
waits for data ends (`MessageEnds`). Over an intact link, which loses
nothing, cuts no message in two and has a flash that works, no update that has data fails its CRC check
(`CrcAccepts`); if moreover no block is longer than a header, every message is stored
(`EveryMessageStored`). The fairness is weak fairness of the parse thread, which has the highest
priority, and of the get: blocks that have arrived are handed over; the server owes
nothing. Messages are taken to fit the fields they are copied into, and `exit_flag`,
which nothing sets, to stay false. The bounds: blocks of up to the size of the parse
buffer, data longer than it, a repeated file name, NUL bytes, an empty message.

### ConfigStore

A save is three steps, `Open` (which truncates), `Write` and `Close` (which makes the
contents and length durable, as the FAT file system under it does; the entry of a new file may
be in the cache until then). `PowerOff` may come between any two, and loses memory. A start is
`mnt_init` and then `sysfile_init`, which finds no file and takes the defaults (`BootFirst`) or reads
the file (`BootAgain`). With `FlashMayFail` every call on the flash may fail: `dfs_mount`, which then
formats (or fails to), `access`, which makes a good file look absent, `open` and `read` of
`read_ele_ds_cfg`, whose result `sysfile_init` ignores, and the three steps of a save. The auxiliary variable
`failed` says that a call failed in this start.
`ele_ds_cfg_to_json` and `json_to_ele_ds_cfg` are modelled by what they keep: the JSON
file holds settings, version, memo and the forecast, not the other weather details,
and the version is read back from the wrong object.

`config_store`: the file is the last complete save or recognisably spoilt (`FileIsLastSave`); a device runs
without settings only after a spoilt save or a call that failed in this start, and then never saves that
over the file (`ConfiguredUnlessSpoilt`: without settings there is no network, so no message
that would be saved); a start in which nothing fails restores settings, memo and forecast, and
takes the defaults only where no save has completed (`RestartRestores`). Bounds: three saves, three power failures.

### PowerManager

`cmd_entry_sleep_mode` arms the RTC (`ArmRtc`), requests DEEP and releases NONE. Creating or starting the
alarm may fail (`AlarmMayFail`): the code logs that and goes on; `unarmed` says that no alarm was left. The idle thread
then enters STOP in three steps: `IdleEntersDeep` (interrupts masked, up to the delay in
`pm_clock_init_pwronoff`), `IdleWaitsForInterrupt` (the ticks suspended, WFI) and
`IdleWakes` (the rest of `pm_entry_func`, and unmasking). The delay makes the idle thread
suspend itself, so thread states, timers, `rt_schedule` and the handlers of SysTick,
RTC and console are actions too. `rt_schedule` takes any runnable thread but idle first;
priorities among the others are left open.

`power_manager`: the scheduler loses no runnable thread although idle suspends itself
(`WorkConserving`); STOP is entered without an RTC alarm only if the command could not set one
(`StopHasWakeup`), and otherwise ends (`StopEnds`); whenever NONE is requested, ticks, supply and clock are back
(`RestoredWhenAwake`); DEEP is entered on request and not as the default
(`SleepIsRequested`); a second entry leads back to normal operation, with the same exception (`SecondEntryRestores`).
Fairness: the processor executes, unmasked interrupts are taken, SysTick and RTC count; nobody has to
type. Bounds: two periodic threads with a period of 3 ticks, an idle delay of 2, three
commands. The alarm, ten seconds ahead, is taken not to fire on the way into STOP, which takes 100 ms.
The run need not go on for ever: after the first WFI everything may wait (see `power_ticks`).

### AlarmService

`alarm_sample` in the shell is four steps (`ReadTime`, `rt_alarm_delete`,
`rt_alarm_create`, `rt_alarm_start`), each under the service's mutex but not together;
the service thread is `alarm_wakeup` and `alarm_update`, between which time passes
(`Second`). How long a thread may be held up is bounded by `ServiceLag` and `CommandLag`,
not more than the window in which an alarm still rings.

`alarm_service`: the current alarm is never one that has been freed, nor does the list
hold one that has been lost hold of (`CurrentIsListed`); an alarm still to come is the one in the RTC
(`ArmedForStarted`); none outlives its window (`NeverMissed`); each one rings unless
it is deleted (`EveryAlarmRings`: threads run and the clock ticks). Bounds: days of 7 seconds, so that alarms
cross midnight and meet the special case of the last second of a day, three commands, 18 seconds.
Intervals are at least 3 seconds (`sleep_mode` uses 10): see the remarks for 0 and 1.

### Untar

`OpenTar`, `ReadHeader`, `CreateFile`, `Copy`, `Skip` and `NextMember` are the pieces of
`untar` between two decisions; the functions of microtar are operators that return the tar, the error
and what was read. Opens, reads, seeks and writes may fail: a step is given the one call that
fails in it (`May`), since microtar returns at the first error. microtar keeps its own position beside the stream's;
a failed read moves the first by the whole size and the second by nothing or all of it, a failed seek
moves only the first. Of a failed `fwrite`, whose result untar ignores, fewer bytes than given, or none,
are stored, and the copy goes on. The archive may also be cut off or have a bad checksum, and streams may run out because
earlier commands leaked one. `remaining_data` is unsigned (`Word`).

Two results that untar ignores spoil files, and the auxiliary variables say which: a seek that fails in
`mtar_next` leaves the loop with two positions that disagree for good (`astray`; the files
it then makes are `mixed`), a failed `fwrite` leaves a hole (`holes`).

`untar`: an undisturbed command extracts every regular member exactly (`ExtractsExactly`);
whatever fails, a file that is not `mixed` holds bytes of one member of its name in their order, and a prefix of
the member if it has no hole (`FilesArePrefixes`); streams are
accounted for, the leaks of the early returns included, and the unsigned count does not wrap unless `astray`
(`StreamsAccounted`); every command ends (`UntarReturns`, weak fairness of the command). `MCUntar` has blocks of 2 bytes and
packages with an empty file, partial blocks, a member that is no file, a name in all
packages and a package that has it twice; three commands, one call that fails, two streams, and an `IntMax` of 1000, far
above every size. (Two failing calls in two commands were checked as well.)

### Station

Three threads. main (`devices_init`, `gzp6816d_command`, `gzp6816d_fetch`, `sht30_read`,
`NextPass`) has the higher priority; LVGL and the shell run while it is `Blocked`. LVGL
starts the panel (`disp_init`; `disp_init_fails` when it cannot be attached to its bus, after which the first
flush meets an assertion, `disp_flush_asserts`), builds the widgets, updates clock and label
(`Read`, `update_time_cb`; main may run between the reads of two values) and refreshes
(`lv_disp_refr_timer`, `refr_area_part`, the three steps of `disp_flush`, `refr_done`,
`refr_cleanup`). LVGL blocks in every wait for the panel; there the shell may run
`switch_tabview` or `clscr`. The panel is the state its commands leave: awake, busy, window, RAM and what is
shown; it becomes ready by itself (`PanelReady`, external). The screen has three regions.

`station`: with nothing left to refresh the panel shows the widgets (`PanelShowsUi`), apart
from the three disturbances it names; the refresh timer is running whenever an area is invalid
(`RefreshScheduled`); the first picture has data (`DataBeforeDisplay`); a label never
goes back to an older value (`LabelMovesForward`), though it may mix two passes;
no assertion fails once the panel is attached (`AssertionsHold`); every refresh and every clscr
ends (`RefreshEnds`, `ClearEnds`), with the exceptions stated there. Fairness: main, LVGL
and a running clscr go on when they can, the panel becomes ready; updates and commands may
stop. Bounds: two pages, two passes, one update, two commands or failed allocations: enough for an update, a switch
and a clear to meet one flush. Temperature and humidity, read and
stored alike, are one field.

## What contradicts the comments

Each has a run in which TLC finds the behaviour, and an entry under `findings`.

* `pipeline_mirror_race`: in the default build the parser can see a put between the store
  of the mirror bit and that of the index, and an empty buffer looks full.
* `parse_stale_tail`: a header shorter than the previous block is refused.
* `power_ticks`: after the first entry into STOP the ticks are not resumed; the device waits
  until another interrupt lets the idle thread enter a second time.

Remarks without a run, found while modelling:

* Ring buffer and parser. In the same build a put can compute "no space" for a buffer that has just been
  emptied and refuse a block (`ringbuffer.c:389` reads the indices again). Data beyond the announced length, when
  TCP joins two messages in a block, is stored and counted (`client.c:335`). A failed CRC
  check is returned as 0 (`client.c:381`). The timer that should end a stuck CRS_DATA is never
  started (`client.c:287`), so a lost block leaves the parser waiting. A memo is not
  saved when it arrives (`client.c:153-154`). A message announced with length 0 swallows the next
  block (`client.c:346`).
* Configuration. The version is read back from the wrong object and lost at a restart (`dfscfg.c:113`);
  after power was lost in a save the device starts without configuration and reports success (`dfscfg.c:270`). A start in
  which the file cannot be opened or read goes the same way, but the next start finds it again. A start in which
  `access` or the first `dfs_mount` fails is worse: the defaults replace the good file (`dfscfg.c:243`), or the flash is
  formatted (`dfscfg.c:290`).
* Power. If `rt_alarm_create` or `rt_alarm_start` fails in `sleep_mode`, that is logged
  (`ele_ds_pm.c:71-82`) and the device still enters STOP, from which nothing wakes it.
* Alarm. A service thread that is late by more than the 2 s window never rings its alarm (`alarm.c:86`). An alarm set 0 or 1 seconds ahead may never ring; the branch of `rt_alarm_start`
  that replaces a current alarm is not reached in the shipped firmware; an alarm in the last second of a day
  is moved by one second where `alarm.c:481-484` says two.
* Untar. Any error in a header ends the loop like the end of the archive, with 0 and
  "Untar completed successfully."; a call that fails in `mtar_next` leaves the two positions apart (`common.c:118` ignores it): after
  a failed read nothing wrong is extracted, but after a failed seek the data of one member can be written under the
  name of another, and `remaining_data` can wrap. A failed or short `fwrite` (`common.c:94`) leaves a hole
  in the file, or cuts its end, and is not noticed. The early returns of `common.c` (79, 92, 112) leave the archive open.
* Display. `switch_tabview` during a flush or the clean-up of a refresh loses its invalidation
  (`lv_refr.c:212`) and the old page stays; `clscr` before `disp_init` fails an assertion
  (`DEV_Config.c:38`), and so do `clscr` and every flush when the panel could not be attached, which
  `disp_init` only logs (`lv_port_disp.c:56-60`); the wait for BUSY has no time limit (`EPD_2in7_V2.c:102`); a flush that puts the panel to sleep between the two calls of `clscr`
  loses the clear; a failed allocation in `disp_flush` never reports the flush as ready, LVGL
  spins, and with it the idle thread never runs and the device cannot sleep.
* Sensors. `gzp6816d_readsls` reports success with a buffer of zeros when its command could not be
  sent; a missing SHT30 fails an assertion in main (`ele_ds.c:176`); `devices_init` clears the size of a
  pointer (`ele_ds.c:412`, harmless); when it fails, main returns and leaves `g_ele_ds` pointing to its stack (`main.c:27-34`).

## Proofs

`StorageProofs` proves of the ring buffer, for every pool size, byte set and request size, that the ring buffer
implements a bounded queue (`ImplementsFifo`: `Spec => FifoSpec`) and `RingInvariant`. The
mapping reads the queue off pool, indices and mirrors. It rests on three facts proved by arithmetic on the
places of the pool: what a put stores behind the bytes held is appended to them
(`PutAppends`), a get takes the oldest and leaves the rest (`GetTakes`), and moving an index
by a length moves the distance between the two by that length, mirrors
included (`WriteMoves`, `ReadMoves`). The invariant is `TypeOK` with `MirrorOrder`: without
the order of the indices the length computed from them could be negative or exceed the pool.

`RecvPipelineProofs` proves, for every pool size, block size and stream length, and
under the assumption `Quiet` (an optimised build, or parsing that never sleeps):

* `PipelineInvariant`: `Spec => []IndInv`,
* `TypeCorrect`, `BytesInOrder`, `NoMissedWakeup`: `TypeOK`, `InOrder`, `NoStrandedData`,
* `DropsOnlyWhenFull`: the action property `DropOnlyWhenFull`.

`InOrder` is not inductive by itself: that a get returns the next bytes depends on
what is in the pool. `IndInv` adds that the indices and mirrors count the unread bytes
(`Occupancy`), that the pool holds them and, during a put, the copied block behind
them (`PoolHoldsStream`), what a put relies on at each step (`PutInProgress`), and which
preemptions there are (`Preemption`). There is one lemma per action; the lemma about
the get is the only one that needs `Quiet`. The assumptions on the constants are
`RecvPipelineAssumption`: positive sizes and the two names of a build.
`NeverLeavesPool` (`Spec => []StaysInPool`) needs no `Quiet`. `StaysInPool` is inductive by
itself, because any two indices inside the pool, whatever the mirrors, give a length
between 0 and `BufferSize`, and each index is moved by one thread only.

`ClientParseProofs` proves, for any set of messages, any links and any buffer size, the
invariants `OwnsItsFile`, `CleanStart`, `RestsInNoneOrData` and `StoredAsReceived` (`FileOwned`,
`StartsClean`, `Rests`, `Stores`) and the action property `OnlyAppends` (`Appends`). They
need each other: a block is appended to the right file only if the message began clean and the
descriptor is its own. `ParserInv` adds `Control` (a call that ends well leaves NONE or DATA)
and `Receiving` (a message in progress has an accepted header; weather received lies
inside what is stored; an update without a block has no file open). One lemma per action;
`CountStep` and `ClearedInv` hold what several of them share. The assumption is
`ClientParseAssumption`: known types, bounded data, blocks no longer than the buffer.

`CrcHolds` (`CrcAccepts`) relates the two ends of the link, and needs an invariant of its own beside
`ParserInv`. `DeliveryInv` follows a message from the server to the file: every header in the
stream is whole and has its data behind it (`Framed`), so has a header in the buffer (`HeaderAtHand`); the
block at hand continues what was received, and the stream continues the block (`DataAtHand`); what was
handed over is what the message begins with, and all of it when the message is finished (`HandedOver`). With
`StoredAsReceived` the file that is read back then is the data the header announced. `FramedSent`
says that a message added to the stream keeps it framed, `FramedRest` that a block taken from it
does, as long as the block ends where headers and messages do.

`StorageProofs` proves of the configuration, for every number of saves and power failures and any calls on the flash that fail:
`ConfigInvariant` (`ConfigInv`), `FileIsTheLastSave` (`FileIsLastSave`), `StaysConfigured`
(`ConfiguredUnlessSpoilt`) and the action property `RestartRestoresLastSave` (`RestartRestores`).
`FileIsLastSave` needs strengthening because a close makes durable what an
earlier step wrote: `ConfigInv` says what is pending at each step of a save, that a
save is only begun with settings (so that a start that could not read its file does not destroy it), that there is no file
only while no save has completed, and that a start in which nothing failed has its flash mounted. The assumption is that the text "none", which stands for
an empty field, is not a memo or a weather report.

`SleepProofs` proves of the power manager, for every set of periodic threads, every delay and any number of
commands, whether alarms can be set or not: `SchedulerWorkConserving`, `StopAlwaysHasWakeup`, `AwakeIsRestored` and
`SleepOnlyOnRequest`. `StopHasWakeup` is the one that is far from inductive: the alarm may fire
and the idle thread enter STOP again. `PInv` therefore says that while NONE is not
requested the alarm is armed, or could not be set, or its interrupt is pending, or idle is out for good because it is suspended
and no tick will resume it (`Wakeup`, `IdleIsOut`), and that the masked section belongs to a
suspended idle thread (`Masked`). The lemma `Scheduling` says once what every caller of `rt_schedule` needs.

`SleepProofs` proves of the alarm service, for any alarms, intervals and delays and a day of any length:
`NoDanglingCurrent` (`CurrentIsListed`) and `RtcHoldsStarted` (`ArmedForStarted`), from `AInv`, which adds
what each step of a command relies on (`Command`), that a started alarm is the current one
with its time of day in the RTC (`Armed`), and what a pending event stands for (`Pending`). `AlarmsNeverMissed`
(`NeverMissed`) has a hypothesis about time, `Prompt`: the service thread is late by at most 2 s and at most
`RT_ALARM_DELAY`, and no alarm is set less than `CommandLag + RT_ALARM_DELAY` ahead. `TInv` adds
that an alarm being started is still ahead and that one being handled is inside its window. The
constants need `Day <= MaxTime`: time runs for a day at least.

`StationProofs` proves, for any pages and any number of passes, updates and commands:
`RefreshIsScheduled` (`RefreshScheduled`), `FirstPictureHasData` (`DataBeforeDisplay`),
`PanelShowsWidgets` (`PanelShowsUi`) and the action properties `NoOlderLabel` (`LabelMovesForward`)
and `NoAssertionAfterStart` (`AssertionsHold`). `SInv` says in which order the device starts (`Began`), what
holds in each phase of a refresh (`Phase`), and that label, value already read and reading are ordered
(`ShtForward`, `PressForward`; the pressure alone may be zero again). For the panel, `Awaited`
says that it updates only while LVGL waits for it and `Fresh` that what is neither
invalid nor being flushed is on it; both are needed while nothing disturbs a refresh only. That no assertion fails needs the part of `Phase` that
says when the panel is attached.

The three modules about untar prove, for any packages, any size of a block, any cuts and spoilt headers and
any calls that fail:

* `NoOtherLeak` (`StreamsAccounted`). The hard part is that microtar's unsigned `remaining_data` does not
  wrap. A read that fails in `mtar_next`, whose result untar ignores, leaves microtar's position one block ahead of the
  stream's, so that the loop reads one header and the first read of data another block. `Position` says
  that this block is the same header, or no header at all, since data follow the header of a member that
  has any (`Stands`, `AtHeader`, `InData`); otherwise nothing is left to be read. All of that holds until a seek of
  `mtar_next` fails (`astray`); a seek that fails elsewhere ends the command.
* `OnlyPrefixes` (`FilesArePrefixes`). `Written` adds what a copy in progress has written: bytes of the member in
  order, from the part already read, and all of that part while no write has failed; a command that is `astray` has the name in `mixed`. `AppendInOrder` says that the next chunk, or a piece of it, keeps the order.
* `Extracts` (`ExtractsExactly`). Undisturbed, untar finds the j-th member at its place in the archive, and
  when it gets there every regular member before it is in its file, but for those that a later member of the same
  name replaced (`Extracting`, `Kept`).

`MicrotarProofs` has what they share: what the functions of microtar read at any place of an archive (`Reads`),
and that the archive is well formed (`AllLayouts`): every member is at the place the sizes of those before it
give, a header with its data behind it, and what is received of an archive, cut or spoilt, holds nothing else. The
layout is a recursive function, so this is an induction over the members. The library's induction
theorems take an operator and cannot be used by the provers; `SetInduction`, the same for a set of numbers,
is proved from the fact that the naturals are well founded. `UntarProofs` has `UntarInvariant` (`UInv`:
`Archived`, `Work`, `Doubts`, `Streams`, and `Position` while not `astray`) and the first two theorems, `UntarFilesProofs` the third.
`UntarAssumption` says only that the bounds are natural numbers, that a block has a byte at least and that a package is a
sequence of members whose sizes fit an `int`.

Every invariant, every action property and the refinement that the passing runs check is proved, those of
`pipeline_release` under `Quiet` and `NeverMissed` under `Prompt`. Only model-checked are the liveness
properties, because fairness is outside the proof system's reach: `EveryByteParsed`, `CallReturns`,
`MessageEnds`, `EveryMessageStored`, `StopEnds`, `SecondEntryRestores`, `EveryAlarmRings`, `UntarReturns`,
`RefreshEnds` and `ClearEnds`.
The invariants used in the proofs were also checked by TLC on the instances of the runs.

## Not modelled

* cJSON, the FAT file system, the AT socket layer and the parts of LVGL and of the RTOS kernel that are not
  named above are external; they appear as the nondeterminism their callers see.
  Null-pointer checks of arguments, allocation failures at start-up and logging are left out.
* `alarm/ele_ds_alarm.c`: `ele_ds_alarm_init` has no caller (its only one, `ele_ds.c:445`, is commented out).
  The beeper package is used by it only.
* Keys: the scan is one of the periodic threads of `PowerManager`; what a key does is a log
  line, and the MFBD package that debounces is not in the tree.
* The weather table is a constant and a linear search; the SGP30 sensor is not in the build.
* Of rt-thread's `pm.c` the console commands (lines 1032-1256), the modes nothing requests and device
  callbacks, of which none is registered; of `alarm.c` repeating alarms and `rt_alarm_control`; of
  the ring buffer the calls the application does not make; of microtar the writing half.
* Pixels: drawing, and the geometry of a window (`EPD_2IN7_V2_Display_Partial` takes an exclusive
  end where LVGL's areas include it, so the last line and column of an area are not sent). A
  preemption in the middle of LVGL's rendering, in the reset delays of the panel driver and
  between the pins of one SPI command is not modelled, nor one in the three waits of `EPD_2IN7_V2_Init`
  (`EPD_2in7_V2.c:196, 199, 222`), which is one step: after the reset BUSY is low and each wait only passes
  20 ms, and a command the other thread sends in between leaves the panel as one sent before or after would (a panel
  put to sleep in between loses the rest, as it loses the clear that follows). Of `ele_ds_epaper_init` the failing
  `rt_spi_configure` is left out: it only stores the settings while the flash owns the bus.
* Formulas and registers of the sensors, layouts of the pages.

## Plan

1. A composition of `RecvPipeline`, `ClientParse` and `ConfigStore` over an abstract queue.
2. An abstract store (one durable configuration, replaced atomically) that `ConfigStore` implements
   when no save is cut short.
