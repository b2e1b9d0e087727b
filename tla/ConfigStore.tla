---------------------------- MODULE ConfigStore ----------------------------
(***************************************************************************)
(* device_cfg, the copy of the configuration in memory, and the file       *)
(* /sysfile/config it is saved in and loaded from when the device starts   *)
(* (dfscfg.c).  Power may fail between any two steps: a save truncates the *)
(* file when it opens it, and the new contents are on the flash only when  *)
(* the file is closed.  Any call on the flash may fail; the code looks at  *)
(* the results of dfs_mount, access, open and read, and at no other.       *)
(*                                                                         *)
(* A configuration is its settings (Wi-Fi, server, alarm, city), software  *)
(* version, memo, and weather: the forecast, which the JSON file keeps, and *)
(* the details, which it does not.                                         *)
(***************************************************************************)
EXTENDS Integers

CONSTANTS
  Memo,          \* memos the server may send
  Weather,       \* weather the server may send
  MaxSaves,      \* bound: saves in one behaviour
  MaxCuts,       \* bound: power failures in one behaviour
  CutInSave,     \* TRUE: power may also fail while the file is being saved
  FlashMayFail   \* TRUE: every call on the flash may fail

ASSUME ConfigStoreAssumption ==
  /\ "none" \notin Memo \cup Weather
  /\ MaxSaves \in Nat /\ MaxCuts \in Nat
  /\ CutInSave \in BOOLEAN /\ FlashMayFail \in BOOLEAN

VARIABLES
  pc,         \* "off", "start" (mounted or not), "run", or a step of write_ele_ds_cfg
  cfg,        \* device_cfg
  file,       \* /sysfile/config
  pending,    \* contents written to the open file, not yet on the flash
  mounted,    \* the file system is mounted
  saves, cuts,\* counters for the bounds
  saved,      \* configuration of the last save that completed (auxiliary)
  spoilt,     \* the last save was cut short or did not reach the flash (auxiliary)
  failed      \* a call on the flash failed in this start (auxiliary)

storeVars == <<pc, cfg, file, pending, mounted, saves, cuts, saved, spoilt, failed>>

Cfg == [settings : {"zero", "default", "edited"}, version : {"zero", "soft", "junk"},
        memo : Memo \cup {"none"}, forecast : Weather \cup {"none"}, details : Weather \cup {"none"}]

\* device_cfg before it is initialised or loaded.
Zero == [settings |-> "zero", version |-> "zero", memo |-> "none", forecast |-> "none",
         details |-> "none"]

init_ele_ds_cfg == [Zero EXCEPT !.settings = "default", !.version = "soft"]

\* What a save keeps.
ele_ds_cfg_to_json(c) == [c EXCEPT !.details = "none"]

\* What a load of the file yields.  The version is looked up in the root object,
\* where no save puts it, and read through the null pointer that returns.
json_to_ele_ds_cfg(json) == [json EXCEPT !.version = "junk"]

FileOf(kind, json) == [kind |-> kind, json |-> json]
File == [kind : {"absent", "empty", "part", "whole"}, json : Cfg]

\* A device that has never been started, its flash formatted.
StoreInit ==
  /\ pc = "off" /\ cfg = Zero
  /\ file = FileOf("absent", Zero) /\ pending = FileOf("empty", Zero)
  /\ mounted = FALSE
  /\ saves = 0 /\ cuts = 0
  /\ saved = Zero /\ spoilt = FALSE /\ failed = FALSE

----------------------------------------------------------------------------
(* Starting: mnt_init, sysfile_init *)

\* The flash is mounted.  If that fails it is formatted, which may fail too, and
\* mounted again, which nobody depends on: sysfile_init is called in any case.
mnt_init ==
  /\ pc = "off" /\ pc' = "start"
  /\ \/ /\ mounted' = TRUE /\ failed' = FALSE
        /\ UNCHANGED <<file, saved, spoilt>>
     \/ /\ FlashMayFail
        /\ mounted' \in BOOLEAN /\ failed' = TRUE
        /\ \/ file' = FileOf("absent", Zero) /\ saved' = Zero /\ spoilt' = FALSE
           \/ UNCHANGED <<file, saved, spoilt>>
  /\ UNCHANGED <<cfg, pending, saves, cuts>>

Accessible == mounted /\ file.kind # "absent"

\* access finds no file, or fails: the defaults are taken and saved (init_cfgfile).
BootFirst ==
  /\ pc = "start"
  /\ ~ Accessible \/ FlashMayFail
  /\ failed' = (failed \/ Accessible)
  /\ cfg' = init_ele_ds_cfg
  /\ pc' = "open"
  /\ UNCHANGED <<file, pending, mounted, saves, cuts, saved, spoilt>>

\* Mutant: the memo is not loaded.
read_ele_ds_cfg_NoMemo ==
  \/ /\ cfg' = IF file.kind = "whole" THEN [json_to_ele_ds_cfg(file.json) EXCEPT !.memo = "none"]
               ELSE cfg
     /\ UNCHANGED failed
  \/ FlashMayFail /\ failed' = TRUE /\ UNCHANGED cfg

\* An empty or incomplete file leaves device_cfg as it is, and so does one that
\* open or read fails on.
read_ele_ds_cfg ==
  \/ /\ cfg' = IF file.kind = "whole" THEN json_to_ele_ds_cfg(file.json) ELSE cfg
     /\ UNCHANGED failed
  \/ FlashMayFail /\ failed' = TRUE /\ UNCHANGED cfg

\* Mutant: what was loaded is saved again.
BootAgain_Saves ==
  /\ pc = "start" /\ Accessible
  /\ read_ele_ds_cfg
  /\ pc' = "open"
  /\ UNCHANGED <<file, pending, mounted, saves, cuts, saved, spoilt>>

\* There is a file: it is read, and the result of the read is not looked at.
BootAgain ==
  /\ pc = "start" /\ Accessible
  /\ read_ele_ds_cfg
  /\ pc' = "run"
  /\ UNCHANGED <<file, pending, mounted, saves, cuts, saved, spoilt>>

----------------------------------------------------------------------------
(* Running: messages of the server (th_recv_parse) *)

\* Without settings there is no Wi-Fi and no server to hear from.
Connected == pc = "run" /\ cfg.settings # "zero"

\* parse_msgtype: a memo is copied into device_cfg.
ReceiveMemo(memo) ==
  /\ Connected
  /\ cfg' = [cfg EXCEPT !.memo = memo]
  /\ UNCHANGED <<pc, file, pending, mounted, saves, cuts, saved, spoilt, failed>>

\* CRS_DATA: weather is copied into device_cfg, which is then saved.
ReceiveWeather(weather) ==
  /\ Connected
  /\ saves < MaxSaves
  /\ cfg' = [cfg EXCEPT !.forecast = weather, !.details = weather]
  /\ pc' = "open" /\ saves' = saves + 1
  /\ UNCHANGED <<file, pending, mounted, cuts, saved, spoilt, failed>>

\* The owner edits the settings in the file by hand (external).
Edit ==
  /\ pc = "run" /\ mounted /\ file.kind = "whole"
  /\ file' = [file EXCEPT !.json.settings = "edited"]
  /\ saved' = file'.json
  /\ UNCHANGED <<pc, cfg, pending, mounted, saves, cuts, spoilt, failed>>

----------------------------------------------------------------------------
(* write_ele_ds_cfg *)

\* open with O_CREAT and O_TRUNC; the directory entry of a new file may stay in
\* the cache for now.  If open fails the configuration is not saved.
Open ==
  /\ pc = "open"
  /\ \/ /\ mounted
        /\ \/ file' = FileOf("empty", Zero)
           \/ file.kind = "absent" /\ UNCHANGED file
        /\ pc' = "write"
     \/ /\ FlashMayFail \/ ~ mounted
        /\ pc' = "run" /\ UNCHANGED file
  /\ UNCHANGED <<cfg, pending, mounted, saves, cuts, saved, spoilt, failed>>

\* write; nobody looks at how much it stored.
Write ==
  /\ pc = "write"
  /\ \/ pending' = FileOf("whole", ele_ds_cfg_to_json(cfg))
     \/ /\ FlashMayFail
        /\ pending' \in {FileOf("empty", Zero), FileOf("part", Zero)}
  /\ pc' = "close"
  /\ UNCHANGED <<cfg, file, mounted, saves, cuts, saved, spoilt, failed>>

\* Mutant: what was written is never brought to the flash.
Close_NoSync ==
  /\ pc = "close" /\ pc' = "run"
  /\ spoilt' = (pending.kind # "whole")
  /\ saved' = IF pending.kind = "whole" THEN cfg ELSE saved
  /\ UNCHANGED <<cfg, file, pending, mounted, saves, cuts, failed>>

\* What was written reaches the flash, unless close fails.
Close ==
  /\ pc = "close" /\ pc' = "run"
  /\ \/ /\ file' = pending
        /\ spoilt' = (pending.kind # "whole")
        /\ saved' = IF pending.kind = "whole" THEN cfg ELSE saved
     \/ /\ FlashMayFail
        /\ spoilt' = TRUE
        /\ UNCHANGED <<file, saved>>
  /\ UNCHANGED <<cfg, pending, mounted, saves, cuts, failed>>

Saving == pc \in {"write", "close"}

\* Power fails: memory is lost, the flash stays.
PowerOff ==
  /\ pc # "off" /\ cuts < MaxCuts
  /\ CutInSave \/ ~ Saving
  /\ pc' = "off" /\ cfg' = Zero /\ mounted' = FALSE
  /\ spoilt' = (spoilt \/ Saving)
  /\ cuts' = cuts + 1
  /\ UNCHANGED <<file, pending, saves, saved, failed>>

----------------------------------------------------------------------------
StoreNext ==
  \/ mnt_init \/ BootFirst \/ BootAgain
  \/ \E memo \in Memo : ReceiveMemo(memo)
  \/ \E weather \in Weather : ReceiveWeather(weather)
  \/ Edit
  \/ Open \/ Write \/ Close
  \/ PowerOff

StoreSpec == StoreInit /\ [][StoreNext]_storeVars

----------------------------------------------------------------------------
StoreTypeOK ==
  /\ pc \in {"off", "start", "run", "open", "write", "close"}
  /\ cfg \in Cfg /\ saved \in Cfg
  /\ file \in File /\ pending \in File
  /\ saves \in 0 .. MaxSaves /\ cuts \in 0 .. MaxCuts
  /\ mounted \in BOOLEAN /\ spoilt \in BOOLEAN /\ failed \in BOOLEAN

\* The file is the last save that completed or, after one that was cut short or
\* did not reach the flash, no configuration at all: never a mixture of two saves.
FileIsLastSave ==
  /\ file.kind = "whole" => file.json = ele_ds_cfg_to_json(saved)
  /\ file.kind \in {"empty", "part"} /\ ~ Saving => spoilt

\* A device runs without settings only if its last save was spoilt, or if a call
\* on the flash failed when it started (sysfile_init ignores what read_ele_ds_cfg
\* returns).  Such a start costs no more than itself: a configuration without
\* settings is never saved over the file, whatever fails.
ConfiguredUnlessSpoilt ==
  /\ pc = "run" /\ cfg.settings = "zero" => spoilt \/ failed
  /\ file.kind = "whole" => file.json.settings # "zero"

\* The inductive invariant behind the two: what a save in progress will store,
\* and that there is no file only while no save has completed.
ConfigInv ==
  /\ StoreTypeOK
  /\ FileIsLastSave
  /\ ConfiguredUnlessSpoilt
  /\ pc \in {"off", "start"} => cfg = Zero
  /\ pc \in {"open", "write", "close"} => cfg.settings # "zero"
  /\ Saving => file.kind \in {"absent", "empty"}
  /\ pc = "close" => /\ pending.kind = "whole" => pending.json = ele_ds_cfg_to_json(cfg)
                     /\ pending.kind # "absent"
  /\ file.kind = "absent" => saved = Zero
  /\ file.kind = "whole" => saved.settings # "zero"
  /\ pc = "start" /\ ~ failed => mounted

\* A start in which no call on the flash fails brings back the settings, the memo
\* and the forecast of the last save that completed, unless a later one was
\* spoilt; the defaults replace them only where no save has ever completed.
RestartRestores ==
  [][(pc = "start" /\ pc' \notin {"start", "off"} /\ ~ spoilt /\ ~ failed') =>
       \/ pc' = "open" /\ saved = Zero
       \/ /\ pc' = "run"
          /\ cfg'.settings = saved.settings
          /\ cfg'.memo = saved.memo
          /\ cfg'.forecast = saved.forecast]_storeVars
============================================================================
