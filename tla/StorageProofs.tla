--------------------------- MODULE StorageProofs ---------------------------
(***************************************************************************)
(* The two stores of the client, each on its own.                          *)
(*                                                                         *)
(* The ring buffer, for every size of the pool and of the requests:        *)
(* with its mirror bits it implements a bounded first-in first-out queue.  *)
(*                                                                         *)
(* The configuration, for every number of saves and power failures, and    *)
(* every set of memos and weather reports: the file is the last complete   *)
(* save or recognisably spoilt, and a restart brings its contents back.    *)
(***************************************************************************)
EXTENDS RingBuffer, ConfigStore, TLAPS

----------------------------------------------------------------------------
(* The configuration and its file *)

USE ConfigStoreAssumption

\* The zeroed configuration, and the files that hold none.
LEMMA ZeroFacts ==
  /\ Zero \in Cfg /\ Zero.settings = "zero"
  /\ \A kind \in {"absent", "empty", "part", "whole"}, c \in Cfg :
       /\ FileOf(kind, c) \in File
       /\ FileOf(kind, c).kind = kind /\ FileOf(kind, c).json = c
<1>1. Zero \in Cfg /\ Zero.settings = "zero"
  BY DEF Zero, Cfg
<1> QED
  BY <1>1 DEF File, FileOf

\* What ele_ds_cfg_to_json leaves alone.
LEMMA KeptByJson ==
  ASSUME NEW c \in Cfg
  PROVE  /\ ele_ds_cfg_to_json(c) \in Cfg
         /\ ele_ds_cfg_to_json(c).settings = c.settings
BY Zenon DEF ele_ds_cfg_to_json, Cfg

\* A device never started has neither a configuration nor a file.
LEMMA InitConfigInv == StoreInit => ConfigInv
<1> SUFFICES ASSUME StoreInit PROVE ConfigInv
  OBVIOUS
<1>1. file \in File /\ pending \in File /\ file.kind = "absent" /\ pending.kind = "empty"
  BY ZeroFacts DEF StoreInit
<1>2. 0 \in 0 .. MaxSaves /\ 0 \in 0 .. MaxCuts
  OBVIOUS
<1>3. StoreTypeOK
  BY <1>1, <1>2, ZeroFacts, Zenon DEF StoreInit, StoreTypeOK
<1> QED
  BY <1>1, <1>3, ZeroFacts DEF StoreInit, ConfigInv, FileIsLastSave, ConfiguredUnlessSpoilt, Saving

\* Mounting, and formatting a flash that cannot be mounted: the file is there as
\* it was, or gone with the last save.
LEMMA MountStep == ASSUME ConfigInv, mnt_init PROVE ConfigInv'
<1> USE DEF ConfigInv, FileIsLastSave, ConfiguredUnlessSpoilt, Saving
<1>1. mounted' \in BOOLEAN /\ failed' \in BOOLEAN /\ (~ failed' => mounted')
  BY Zenon DEF mnt_init
<1>2. CASE UNCHANGED <<file, saved, spoilt>>
  <2>1. StoreTypeOK'
    BY <1>1, <1>2, Zenon DEF StoreTypeOK, mnt_init
  <2> QED
    BY <1>1, <1>2, <2>1 DEF mnt_init
<1>3. CASE file' = FileOf("absent", Zero) /\ saved' = Zero /\ spoilt' = FALSE
  <2>1. file' \in File /\ file'.kind = "absent" /\ saved' \in Cfg
    BY <1>3, ZeroFacts
  <2>2. StoreTypeOK'
    BY <1>1, <1>3, <2>1, Zenon DEF StoreTypeOK, mnt_init
  <2> QED
    BY <1>1, <1>3, <2>1, <2>2 DEF mnt_init
<1>4. \/ UNCHANGED <<file, saved, spoilt>>
      \/ file' = FileOf("absent", Zero) /\ saved' = Zero /\ spoilt' = FALSE
  BY Zenon DEF mnt_init
<1> QED
  BY <1>2, <1>3, <1>4, Zenon

\* Starting from the defaults or from the file, with the conversions of the
\* configuration.
LEMMA BootStep == ASSUME ConfigInv, BootFirst \/ BootAgain PROVE ConfigInv'
<1> USE DEF ConfigInv, FileIsLastSave, ConfiguredUnlessSpoilt, Saving
<1>1. CASE BootFirst
  <2>1. init_ele_ds_cfg \in Cfg /\ init_ele_ds_cfg.settings = "default"
    BY Zenon DEF init_ele_ds_cfg, Zero, Cfg
  <2>2. failed' \in BOOLEAN
    BY <1>1, Zenon DEF BootFirst, StoreTypeOK
  <2>3. StoreTypeOK'
    BY <1>1, <2>1, <2>2, Zenon DEF BootFirst, StoreTypeOK
  <2> QED
    BY <1>1, <2>1, <2>3 DEF BootFirst
<1>2. CASE BootAgain
  <2>1. CASE failed' = TRUE /\ cfg' = cfg
    <3>1. StoreTypeOK'
      BY <1>2, <2>1, Zenon DEF BootAgain, StoreTypeOK
    <3> QED
      BY <1>2, <2>1, <3>1 DEF BootAgain
  <2>2. CASE file.kind = "whole" /\ cfg' = json_to_ele_ds_cfg(file.json) /\ failed' = failed
    <3>1. cfg' = json_to_ele_ds_cfg(ele_ds_cfg_to_json(saved)) /\ saved \in Cfg
      BY <2>2 DEF StoreTypeOK
    <3>2. cfg' \in Cfg /\ cfg'.settings = saved.settings
      BY ONLY <3>1, Zenon DEF json_to_ele_ds_cfg, ele_ds_cfg_to_json, Cfg
    <3>3. StoreTypeOK'
      BY <1>2, <2>2, <3>2, Zenon DEF BootAgain, StoreTypeOK
    <3> QED
      BY <1>2, <2>2, <3>2, <3>3 DEF BootAgain
  <2>3. CASE file.kind # "whole" /\ cfg' = cfg /\ failed' = failed
    <3>1. spoilt
      BY <1>2, <2>3 DEF BootAgain, Accessible, StoreTypeOK, File
    <3>2. StoreTypeOK'
      BY <1>2, <2>3, Zenon DEF BootAgain, StoreTypeOK
    <3> QED
      BY <1>2, <2>3, <3>1, <3>2 DEF BootAgain
  <2>4. \/ failed' = TRUE /\ cfg' = cfg
        \/ file.kind = "whole" /\ cfg' = json_to_ele_ds_cfg(file.json) /\ failed' = failed
        \/ file.kind # "whole" /\ cfg' = cfg /\ failed' = failed
    BY <1>2, Zenon DEF BootAgain, read_ele_ds_cfg
  <2> QED
    BY <2>1, <2>2, <2>3, <2>4, Zenon
<1> QED
  BY <1>1, <1>2

\* Messages of the server change device_cfg, not the file.
LEMMA ReceiveStep ==
  ASSUME ConfigInv,
         \/ \E memo \in Memo : ReceiveMemo(memo)
         \/ \E weather \in Weather : ReceiveWeather(weather)
  PROVE  ConfigInv'
<1> USE DEF ConfigInv, StoreTypeOK, FileIsLastSave, ConfiguredUnlessSpoilt, Saving, Connected
<1>1. ASSUME NEW memo \in Memo, ReceiveMemo(memo) PROVE ConfigInv'
  <2>1. cfg' \in Cfg /\ cfg'.settings = cfg.settings
    <3>1. cfg \in Cfg /\ cfg' = [cfg EXCEPT !.memo = memo]
      BY <1>1, Zenon DEF ReceiveMemo
    <3> QED
      BY ONLY <3>1, memo \in Memo DEF Cfg
  <2> QED
    BY <1>1, <2>1, Zenon DEF ReceiveMemo
<1>2. ASSUME NEW weather \in Weather, ReceiveWeather(weather) PROVE ConfigInv'
  <2>1. cfg' \in Cfg /\ cfg'.settings = cfg.settings
    <3>1. cfg \in Cfg /\ cfg' = [cfg EXCEPT !.forecast = weather, !.details = weather]
      BY <1>2, Zenon DEF ReceiveWeather
    <3> QED
      BY ONLY <3>1, weather \in Weather, Zenon DEF Cfg
  <2>2. saves' = saves + 1 /\ saves \in 0 .. MaxSaves /\ saves < MaxSaves
    BY <1>2, Zenon DEF ReceiveWeather
  <2>3. \A n \in 0 .. MaxSaves : n < MaxSaves => n + 1 \in 0 .. MaxSaves
    OBVIOUS
  <2>4. saves' \in 0 .. MaxSaves
    BY <2>2, <2>3, Zenon
  <2> QED
    BY <1>2, <2>1, <2>4, ZenonT(30) DEF ReceiveWeather
<1> QED
  BY <1>1, <1>2

\* Edited settings become the ones last saved.
LEMMA EditStep == ASSUME ConfigInv, Edit PROVE ConfigInv'
<1> DEFINE json == [file.json EXCEPT !.settings = "edited"]
<1>1. json \in Cfg /\ json.settings = "edited" /\ json.details = "none"
  BY DEF ConfigInv, StoreTypeOK, FileIsLastSave, ele_ds_cfg_to_json, Edit, Cfg, File
<1>2. json = ele_ds_cfg_to_json(json)
  BY <1>1, Zenon DEF ele_ds_cfg_to_json, Cfg
<1>3. file' \in File /\ file'.kind = "whole" /\ file'.json = json /\ saved' = json
  BY <1>1 DEF ConfigInv, StoreTypeOK, Edit, File
<1> HIDE DEF json
<1>4. StoreTypeOK'
  BY <1>1, <1>3, Zenon DEF ConfigInv, StoreTypeOK, Edit
<1> QED
  BY <1>1, <1>2, <1>3, <1>4
     DEF ConfigInv, FileIsLastSave, ConfiguredUnlessSpoilt, Saving, Edit

\* The three steps of a save: truncate, write, make durable.
LEMMA SaveStep == ASSUME ConfigInv, Open \/ Write \/ Close PROVE ConfigInv'
<1> USE DEF ConfigInv, FileIsLastSave, ConfiguredUnlessSpoilt, Saving
<1>1. CASE Open
  <2>1. file' = file \/ (file' \in File /\ file'.kind = "empty")
    BY <1>1, ZeroFacts DEF Open
  <2>2. StoreTypeOK'
    BY <1>1, <2>1, Zenon DEF Open, StoreTypeOK
  <2>3. \/ pc' = "run" /\ file' = file
        \/ pc' = "write" /\ file'.kind \in {"absent", "empty"}
    BY <1>1, <2>1, ZeroFacts DEF Open
  <2> QED
    BY <1>1, <2>1, <2>2, <2>3 DEF Open
<1>2. CASE Write
  <2>1. ele_ds_cfg_to_json(cfg) \in Cfg
    BY KeptByJson DEF StoreTypeOK
  <2>2. /\ pending' \in File /\ pending'.kind # "absent"
        /\ pending'.kind = "whole" => pending'.json = ele_ds_cfg_to_json(cfg)
    BY <1>2, <2>1, ZeroFacts DEF Write
  <2>3. StoreTypeOK'
    BY <1>2, <2>2, Zenon DEF Write, StoreTypeOK
  <2> QED
    BY <1>2, <2>2, <2>3, Zenon DEF Write
<1>3. CASE Close
  <2>1. StoreTypeOK'
    BY <1>3, Zenon DEF Close, StoreTypeOK
  <2>2. CASE file' = pending /\ pending.kind = "whole" /\ saved' = cfg /\ spoilt' = FALSE
    <3>1. file'.json = ele_ds_cfg_to_json(cfg) /\ file'.json.settings = cfg.settings
      BY <1>3, <2>2, KeptByJson DEF Close, StoreTypeOK
    <3> QED
      BY <1>3, <2>1, <2>2, <3>1 DEF Close
  <2>3. CASE file' \in {pending, file} /\ file'.kind # "whole" /\ saved' = saved /\ spoilt' = TRUE
    BY <1>3, <2>1, <2>3 DEF Close
  <2>4. file.kind # "whole"
    BY <1>3 DEF Close
  <2>5. \/ file' = pending /\ pending.kind = "whole" /\ saved' = cfg /\ spoilt' = FALSE
        \/ file' \in {pending, file} /\ file'.kind # "whole" /\ saved' = saved /\ spoilt' = TRUE
    <3>1. CASE file' = pending /\ spoilt' = (pending.kind # "whole")
               /\ saved' = IF pending.kind = "whole" THEN cfg ELSE saved
      <4>1. CASE pending.kind = "whole"
        BY <3>1, <4>1, Zenon
      <4>2. CASE pending.kind # "whole"
        BY <3>1, <4>2, Zenon
      <4> QED
        BY <4>1, <4>2
    <3>2. CASE spoilt' = TRUE /\ file' = file /\ saved' = saved
      BY <2>4, <3>2, Zenon
    <3> QED
      BY <1>3, <3>1, <3>2, Zenon DEF Close
  <2> QED
    BY <2>2, <2>3, <2>5, Zenon
<1> QED
  BY <1>1, <1>2, <1>3

\* Power fails; a save in progress is spoilt.
LEMMA PowerOffStep == ASSUME ConfigInv, PowerOff PROVE ConfigInv'
<1>1. cuts' \in 0 .. MaxCuts
  BY DEF ConfigInv, StoreTypeOK, PowerOff
<1>2. file.kind \in {"empty", "part"} => spoilt'
  BY Zenon DEF ConfigInv, FileIsLastSave, Saving, PowerOff
<1>3. StoreTypeOK'
  BY <1>1, ZeroFacts, Zenon DEF ConfigInv, StoreTypeOK, Saving, PowerOff
<1> QED
  BY <1>2, <1>3, ZeroFacts
     DEF ConfigInv, FileIsLastSave, ConfiguredUnlessSpoilt, Saving, PowerOff

\* Every reachable state of the configuration and its file satisfies the
\* inductive invariant, however often the power fails and wherever in a save, and
\* whichever calls on the flash fail.
THEOREM ConfigInvariant == StoreSpec => []ConfigInv
<1>1. ConfigInv /\ [StoreNext]_storeVars => ConfigInv'
  <2> SUFFICES ASSUME ConfigInv, [StoreNext]_storeVars PROVE ConfigInv'
    OBVIOUS
  <2>1. CASE UNCHANGED storeVars
    BY <2>1 DEF storeVars, ConfigInv, StoreTypeOK, FileIsLastSave, ConfiguredUnlessSpoilt, Saving
  <2> QED
    BY <2>1, MountStep, BootStep, ReceiveStep, EditStep, SaveStep, PowerOffStep DEF StoreNext
<1> QED
  BY <1>1, InitConfigInv, PTL DEF StoreSpec

\* The file never mixes two saves: it is the last complete one, or known spoilt.
THEOREM FileIsTheLastSave == StoreSpec => []FileIsLastSave
<1>1. ConfigInv => FileIsLastSave
  BY DEF ConfigInv
<1> QED
  BY <1>1, ConfigInvariant, PTL

\* A device runs without settings only after a spoilt save or a start that could
\* not use the flash, and never saves a configuration without them.
THEOREM StaysConfigured == StoreSpec => []ConfiguredUnlessSpoilt
<1>1. ConfigInv => ConfiguredUnlessSpoilt
  BY DEF ConfigInv
<1> QED
  BY <1>1, ConfigInvariant, PTL

\* A start that can use the flash restores the settings, the memo and the
\* forecast of the last save, or takes the defaults when there has been none.
THEOREM RestartRestoresLastSave == StoreSpec => RestartRestores
<1> DEFINE Restored == /\ pc' = "run"
                       /\ cfg'.settings = saved.settings
                       /\ cfg'.memo = saved.memo
                       /\ cfg'.forecast = saved.forecast
           Start == (pc = "start" /\ pc' \notin {"start", "off"} /\ ~ spoilt /\ ~ failed') =>
                      \/ pc' = "open" /\ saved = Zero
                      \/ Restored
<1>1. ConfigInv /\ [StoreNext]_storeVars => [Start]_storeVars
  <2> SUFFICES ASSUME ConfigInv, StoreNext, pc = "start", pc' \notin {"start", "off"},
                      ~ spoilt, ~ failed'
               PROVE  \/ pc' = "open" /\ saved = Zero
                      \/ Restored
    OBVIOUS
  <2>1. CASE BootFirst
    <3>1. ~ failed /\ ~ Accessible
      BY <2>1 DEF BootFirst
    <3>2. file.kind = "absent"
      BY <3>1 DEF ConfigInv, Accessible
    <3> QED
      BY <2>1, <3>2 DEF BootFirst, ConfigInv
  <2>2. CASE BootAgain
    <3>1. file.kind = "whole" /\ file.json = ele_ds_cfg_to_json(saved)
      BY <2>2 DEF BootAgain, Accessible, ConfigInv, StoreTypeOK, FileIsLastSave, Saving, File
    <3>2. cfg' = json_to_ele_ds_cfg(ele_ds_cfg_to_json(saved)) /\ pc' = "run"
      BY <2>2, <3>1 DEF BootAgain, read_ele_ds_cfg
    <3> QED
      BY <3>2 DEF json_to_ele_ds_cfg, ele_ds_cfg_to_json, ConfigInv, StoreTypeOK, Cfg
  <2> QED
    BY <2>1, <2>2 DEF StoreNext, mnt_init, ReceiveMemo, ReceiveWeather, Connected, Edit, Open,
       Write, Close, PowerOff
<1> QED
  BY <1>1, ConfigInvariant, PTL DEF StoreSpec, RestartRestores
HIDE ConfigStoreAssumption

----------------------------------------------------------------------------
(* The ring buffer *)

USE RingBufferAssumption

\* The length of a sequence.
LEMMA Length == ASSUME NEW S, NEW s \in Seq(S) PROVE Len(s) \in Nat /\ (Len(s) = 0 => s = << >>)
OBVIOUS

\* A sequence behind another.
LEMMA Joined ==
  ASSUME NEW S, NEW s \in Seq(S), NEW t \in Seq(S)
  PROVE  /\ s \o t \in Seq(S) /\ Len(s \o t) = Len(s) + Len(t)
         /\ \A i \in 1 .. Len(s) + Len(t) :
               (s \o t)[i] = IF i <= Len(s) THEN s[i] ELSE t[i - Len(s)]
OBVIOUS

\* Two sequences that agree everywhere.
LEMMA SameSeq ==
  ASSUME NEW S, NEW s \in Seq(S), NEW t \in Seq(S), Len(s) = Len(t),
         \A i \in 1 .. Len(s) : s[i] = t[i]
  PROVE  s = t
OBVIOUS

\* An index moved n places on, around the end of the pool.
Wrapped(index, n) == IF index + n < BufferSize THEN index + n ELSE index + n - BufferSize

\* n bytes of a pool from index r on, as rt_ringbuffer_get copies them.
BytesOf(pool, r, n) ==
  [i \in 1 .. n |-> IF r + i - 1 < BufferSize THEN pool[r + i - 1]
                    ELSE pool[r + i - 1 - BufferSize]]

\* A pool with n bytes of ptr stored from index w on, as rt_ringbuffer_put does.
Stored(pool, w, ptr, n) ==
  [i \in Index |-> IF w <= i /\ i < w + n THEN ptr[i - w + 1]
                   ELSE IF i + BufferSize < w + n THEN ptr[i + BufferSize - w + 1]
                   ELSE pool[i]]

\* The bytes read are a sequence, each from its place in the pool.
LEMMA BytesOfType ==
  ASSUME NEW pool \in [Index -> Byte], NEW r \in Index, NEW n \in 0 .. BufferSize
  PROVE  /\ BytesOf(pool, r, n) \in Seq(Byte)
         /\ Len(BytesOf(pool, r, n)) = n
         /\ \A i \in 1 .. n : BytesOf(pool, r, n)[i] = pool[Wrapped(r, i - 1)]
<1>1. \A i \in 1 .. n : /\ Wrapped(r, i - 1) \in Index
                        /\ BytesOf(pool, r, n)[i] = pool[Wrapped(r, i - 1)]
  BY DEF BytesOf, Wrapped, Index
<1>2. BytesOf(pool, r, n) \in [1 .. n -> Byte]
  BY <1>1 DEF BytesOf
<1> QED
  BY <1>1, <1>2

\* What a put stores behind the n bytes held is appended to them.
LEMMA PutAppends ==
  ASSUME NEW pool \in [Index -> Byte], NEW r \in Index, NEW n \in 0 .. BufferSize,
         NEW ptr \in Seq(Byte), NEW m \in 0 .. BufferSize - n, m <= Len(ptr)
  PROVE  /\ Stored(pool, Wrapped(r, n), ptr, m) \in [Index -> Byte]
         /\ BytesOf(Stored(pool, Wrapped(r, n), ptr, m), r, n + m)
              = BytesOf(pool, r, n) \o SubSeq(ptr, 1, m)
<1> DEFINE w == Wrapped(r, n)
           new == Stored(pool, w, ptr, m)
           before == BytesOf(pool, r, n)
           after == BytesOf(new, r, n + m)
           added == SubSeq(ptr, 1, m)
<1>1. w \in Index
  BY DEF Wrapped, Index
<1>2. new \in [Index -> Byte]
  BY <1>1 DEF Stored, Index
<1>3. n + m \in 0 .. BufferSize
  OBVIOUS
<1>4. added \in Seq(Byte) /\ Len(added) = m /\ \A i \in 1 .. m : added[i] = ptr[i]
  OBVIOUS
<1>5. /\ before \in Seq(Byte) /\ Len(before) = n
      /\ \A i \in 1 .. n : before[i] = pool[Wrapped(r, i - 1)]
  BY BytesOfType
<1>6. /\ after \in Seq(Byte) /\ Len(after) = n + m
      /\ \A i \in 1 .. n + m : after[i] = new[Wrapped(r, i - 1)]
  <2> HIDE DEF new
  <2> QED
    BY <1>2, <1>3, BytesOfType, Zenon
<1>7. \A i \in 1 .. n : after[i] = before[i]
  <2> SUFFICES ASSUME NEW i \in 1 .. n PROVE after[i] = before[i]
    OBVIOUS
  <2>1. /\ Wrapped(r, i - 1) \in Index
        /\ ~ (w <= Wrapped(r, i - 1) /\ Wrapped(r, i - 1) < w + m)
        /\ ~ (Wrapped(r, i - 1) + BufferSize < w + m)
    BY DEF Wrapped, Index
  <2>2. new[Wrapped(r, i - 1)] = pool[Wrapped(r, i - 1)]
    BY <2>1 DEF Stored
  <2> QED
    BY <1>5, <1>6, <2>2
<1>8. \A i \in 1 .. m : after[n + i] = added[i]
  <2> SUFFICES ASSUME NEW i \in 1 .. m PROVE after[n + i] = added[i]
    OBVIOUS
  <2> DEFINE k == Wrapped(r, n + i - 1)
  <2>1. /\ k \in Index
        /\ \/ w <= k /\ k < w + m /\ k - w + 1 = i
           \/ ~ (w <= k /\ k < w + m) /\ k + BufferSize < w + m /\ k + BufferSize - w + 1 = i
    BY DEF Wrapped, Index
  <2>2. new[k] = ptr[i]
    BY <2>1 DEF Stored
  <2> QED
    BY <1>4, <1>6, <2>2
<1> HIDE DEF before, after, added
<1>9. /\ before \o added \in Seq(Byte) /\ Len(before \o added) = n + m
      /\ \A i \in 1 .. n + m :
            (before \o added)[i] = IF i <= n THEN before[i] ELSE added[i - n]
  <2>1. before \in Seq(Byte) /\ added \in Seq(Byte) /\ Len(before) = n /\ Len(added) = m
    BY <1>4, <1>5
  <2>2. /\ before \o added \in Seq(Byte)
        /\ Len(before \o added) = Len(before) + Len(added)
        /\ \A i \in 1 .. Len(before) + Len(added) :
              (before \o added)[i] = IF i <= Len(before) THEN before[i]
                                     ELSE added[i - Len(before)]
    BY <2>1, Joined, Zenon
  <2> QED
    BY <2>1, <2>2, Zenon
<1>10. \A i \in 1 .. n + m : after[i] = (before \o added)[i]
  <2> SUFFICES ASSUME NEW i \in 1 .. n + m PROVE after[i] = (before \o added)[i]
    BY Zenon
  <2>1. CASE i <= n
    <3>1. i \in 1 .. n
      BY <2>1
    <3>2. (before \o added)[i] = before[i]
      BY <2>1, <1>9, Zenon
    <3> QED
      BY <3>1, <3>2, <1>7, Zenon
  <2>2. CASE i > n
    <3>1. i - n \in 1 .. m /\ n + (i - n) = i
      BY <2>2
    <3>2. after[n + (i - n)] = added[i - n]
      BY <3>1, <1>8
    <3>3. (before \o added)[i] = added[i - n]
      <4>1. ~ (i <= n)
        BY <2>2
      <4> QED
        BY <4>1, <1>9, Zenon
    <3> QED
      BY <3>1, <3>2, <3>3, Zenon
  <2>3. i <= n \/ i > n
    OBVIOUS
  <2> QED
    BY <2>1, <2>2, <2>3, Zenon
<1>11. after = before \o added
  BY <1>6, <1>9, <1>10, SameSeq, Zenon
<1> QED
  BY <1>2, <1>11 DEF before, after, added

\* A get hands out the first m of the n bytes held, the others stay.
LEMMA GetTakes ==
  ASSUME NEW pool \in [Index -> Byte], NEW r \in Index, NEW n \in 0 .. BufferSize,
         NEW m \in 0 .. n
  PROVE  /\ BytesOf(pool, r, m) = SubSeq(BytesOf(pool, r, n), 1, m)
         /\ BytesOf(pool, Wrapped(r, m), n - m) = SubSeq(BytesOf(pool, r, n), m + 1, n)
<1> DEFINE held == BytesOf(pool, r, n)
           taken == BytesOf(pool, r, m)
           r2 == Wrapped(r, m)
           left == BytesOf(pool, r2, n - m)
<1>0. m \in 0 .. BufferSize /\ n - m \in 0 .. BufferSize
  OBVIOUS
<1>1. /\ held \in Seq(Byte) /\ Len(held) = n
      /\ \A i \in 1 .. n : held[i] = pool[Wrapped(r, i - 1)]
  BY BytesOfType
<1>2. /\ taken \in Seq(Byte) /\ Len(taken) = m
      /\ \A i \in 1 .. m : taken[i] = pool[Wrapped(r, i - 1)]
  BY <1>0, BytesOfType
<1>3. r2 \in Index
  BY DEF Wrapped, Index
<1>4. /\ left \in Seq(Byte) /\ Len(left) = n - m
      /\ \A i \in 1 .. n - m : left[i] = pool[Wrapped(r2, i - 1)]
  <2> HIDE DEF r2
  <2> QED
    BY <1>0, <1>3, BytesOfType, Zenon
<1>5. \A i \in 1 .. n - m : Wrapped(r2, i - 1) = Wrapped(r, m + i - 1)
  BY DEF Wrapped, Index
<1> HIDE DEF held, taken, r2, left
<1>6. \A i \in 1 .. n : held[i] \in Byte
  BY <1>1
<1>7. taken = SubSeq(held, 1, m)
  <2>1. /\ SubSeq(held, 1, m) \in Seq(Byte) /\ Len(SubSeq(held, 1, m)) = m
        /\ \A i \in 1 .. m : SubSeq(held, 1, m)[i] = held[i]
    BY <1>1
  <2>2. \A i \in 1 .. m : taken[i] = SubSeq(held, 1, m)[i]
    BY <1>1, <1>2, <2>1
  <2> QED
    BY <1>2, <2>1, <2>2, SameSeq, Zenon
<1>8. left = SubSeq(held, m + 1, n)
  <2>1. /\ SubSeq(held, m + 1, n) \in Seq(Byte) /\ Len(SubSeq(held, m + 1, n)) = n - m
        /\ \A i \in 1 .. n - m : SubSeq(held, m + 1, n)[i] = held[m + i]
    BY <1>1, SMTT(20)
  <2>2. \A i \in 1 .. n - m : left[i] = SubSeq(held, m + 1, n)[i]
    <3> SUFFICES ASSUME NEW i \in 1 .. n - m PROVE left[i] = SubSeq(held, m + 1, n)[i]
      OBVIOUS
    <3>1. m + i \in 1 .. n
      OBVIOUS
    <3>2. held[m + i] = pool[Wrapped(r, m + i - 1)]
      <4> DEFINE k == m + i
      <4> HIDE DEF k
      <4>1. k \in 1 .. n
        BY <3>1 DEF k
      <4>2. held[k] = pool[Wrapped(r, k - 1)]
        BY <1>1, <4>1, Zenon
      <4> QED
        BY <4>2 DEF k
    <3>3. left[i] = pool[Wrapped(r, m + i - 1)]
      BY <1>4, <1>5, Zenon
    <3> QED
      BY <2>1, <3>2, <3>3, Zenon
  <2> QED
    BY <1>4, <2>1, <2>2, SameSeq
<1> QED
  BY <1>7, <1>8 DEF held, taken, r2, left

-----------------------------------------------------------------------------
(* What the indices and their mirrors say. *)

\* Bytes between two indices with their mirrors, and the order MirrorOrder states.
Between(rm, r, wm, w) == IF rm = wm THEN w - r ELSE BufferSize - r + w
InOrderOfMirrors(rm, r, wm, w) == IF rm = wm THEN r <= w ELSE w <= r

\* The mirror of an index that is moved n places on.
Flipped(mirror, index, n) == IF StaysInMirror(index, n) THEN mirror ELSE 1 - mirror

\* Ordered indices are at most BufferSize apart, and the distance leads from one to the other.
LEMMA BetweenType ==
  ASSUME NEW rm \in {0, 1}, NEW r \in Index, NEW wm \in {0, 1}, NEW w \in Index,
         InOrderOfMirrors(rm, r, wm, w)
  PROVE  /\ Between(rm, r, wm, w) \in 0 .. BufferSize
         /\ w = Wrapped(r, Between(rm, r, wm, w))
BY DEF Between, InOrderOfMirrors, Wrapped, Index

\* Moving the write index over n free places.
LEMMA WriteMoves ==
  ASSUME NEW rm \in {0, 1}, NEW r \in Index, NEW wm \in {0, 1}, NEW w \in Index,
         InOrderOfMirrors(rm, r, wm, w),
         NEW n \in 0 .. BufferSize - Between(rm, r, wm, w)
  PROVE  /\ Wrapped(w, n) \in Index /\ Flipped(wm, w, n) \in {0, 1}
         /\ InOrderOfMirrors(rm, r, Flipped(wm, w, n), Wrapped(w, n))
         /\ Between(rm, r, Flipped(wm, w, n), Wrapped(w, n)) = Between(rm, r, wm, w) + n
BY DEF Between, InOrderOfMirrors, Wrapped, Flipped, StaysInMirror, Index

\* Moving the read index over n of the bytes held.
LEMMA ReadMoves ==
  ASSUME NEW rm \in {0, 1}, NEW r \in Index, NEW wm \in {0, 1}, NEW w \in Index,
         InOrderOfMirrors(rm, r, wm, w),
         NEW n \in 0 .. Between(rm, r, wm, w)
  PROVE  /\ Wrapped(r, n) \in Index /\ Flipped(rm, r, n) \in {0, 1}
         /\ InOrderOfMirrors(Flipped(rm, r, n), Wrapped(r, n), wm, w)
         /\ Between(Flipped(rm, r, n), Wrapped(r, n), wm, w) = Between(rm, r, wm, w) - n
BY DEF Between, InOrderOfMirrors, Wrapped, Flipped, StaysInMirror, Index

\* The inductive invariant.
RingInv == TypeOK /\ MirrorOrder

\* rt_ringbuffer_data_len is the distance of the indices.
LEMMA DataLen ==
  RingInv =>
    /\ InOrderOfMirrors(read_mirror, read_index, write_mirror, write_index)
    /\ rt_ringbuffer_data_len = Between(read_mirror, read_index, write_mirror, write_index)
<1> SUFFICES ASSUME RingInv
             PROVE /\ InOrderOfMirrors(read_mirror, read_index, write_mirror, write_index)
                   /\ rt_ringbuffer_data_len
                        = Between(read_mirror, read_index, write_mirror, write_index)
  OBVIOUS
<1> USE DEF RingInv, TypeOK, MirrorOrder, Between, InOrderOfMirrors, Index
<1>0. InOrderOfMirrors(read_mirror, read_index, write_mirror, write_index)
  OBVIOUS
<1>1. CASE rt_ringbuffer_status = "EMPTY"
  <2>1. rt_ringbuffer_data_len = 0
    BY <1>1 DEF rt_ringbuffer_data_len
  <2> QED
    BY <1>0, <1>1, <2>1 DEF rt_ringbuffer_status
<1>2. CASE rt_ringbuffer_status = "FULL"
  <2>1. rt_ringbuffer_data_len = BufferSize
    BY <1>2 DEF rt_ringbuffer_data_len
  <2> QED
    BY <1>0, <1>2, <2>1 DEF rt_ringbuffer_status
<1>3. CASE rt_ringbuffer_status = "HALFFULL"
  <2>1. rt_ringbuffer_data_len = IF write_index > read_index
                                 THEN write_index - read_index
                                 ELSE BufferSize - (read_index - write_index)
    BY <1>3 DEF rt_ringbuffer_data_len
  <2> QED
    BY <1>0, <1>3, <2>1 DEF rt_ringbuffer_status
<1> QED
  BY <1>1, <1>2, <1>3 DEF rt_ringbuffer_status

\* The bytes held, read off the fields.
LEMMA ContentsAre ==
  RingInv => Contents = BytesOf(buffer_ptr, read_index,
                                Between(read_mirror, read_index, write_mirror, write_index))
BY DataLen DEF Contents, Taken, BytesOf

-----------------------------------------------------------------------------
(* The calls. *)

\* rt_ringbuffer_put keeps the invariant and appends to the queue what fits.
LEMMA PutStep ==
  ASSUME RingInv, NEW ptr \in Block, rt_ringbuffer_put(ptr)
  PROVE  RingInv' /\ Fifo!Put(ptr)
<1> DEFINE n == Between(read_mirror, read_index, write_mirror, write_index)
           length == IF BufferSize - n < Len(ptr) THEN BufferSize - n ELSE Len(ptr)
<1>1. ptr \in Seq(Byte) /\ Len(ptr) \in 1 .. MaxRequest
  <2>1. PICK k \in 1 .. MaxRequest : ptr \in [1 .. k -> Byte]
    BY DEF Block
  <2> QED
    BY <2>1
<1>2. /\ buffer_ptr \in [Index -> Byte]
      /\ read_mirror \in {0, 1} /\ write_mirror \in {0, 1}
      /\ read_index \in Index /\ write_index \in Index
      /\ InOrderOfMirrors(read_mirror, read_index, write_mirror, write_index)
  BY DataLen DEF RingInv, TypeOK
<1>3. /\ n \in 0 .. BufferSize /\ write_index = Wrapped(read_index, n)
      /\ rt_ringbuffer_space_len = BufferSize - n
  BY <1>2, BetweenType, DataLen DEF rt_ringbuffer_space_len
<1> HIDE DEF n
<1>4. /\ length \in 0 .. BufferSize - n /\ length <= Len(ptr)
      /\ length \in 0 .. MaxRequest
  BY <1>1, <1>3
<1>5. /\ accepted' = length
      /\ read_mirror' = read_mirror /\ read_index' = read_index /\ got' = got
  BY <1>3 DEF rt_ringbuffer_put
<1>6. /\ write_index' = Wrapped(write_index, length)
      /\ write_mirror' = Flipped(write_mirror, write_index, length)
      /\ buffer_ptr' = Stored(buffer_ptr, write_index, ptr, length)
  <2>1. CASE BufferSize - n = 0
    <3>1. length = 0
      BY <2>1, <1>1
    <3>2. UNCHANGED <<buffer_ptr, write_mirror, write_index>>
      BY <2>1, <1>3 DEF rt_ringbuffer_put
    <3>3. Wrapped(write_index, 0) = write_index /\ StaysInMirror(write_index, 0)
      BY <1>2 DEF Wrapped, StaysInMirror, Index
    <3>4. Stored(buffer_ptr, write_index, ptr, 0) = buffer_ptr
      BY <1>2 DEF Stored, Index
    <3> QED
      BY <3>1, <3>2, <3>3, <3>4 DEF Flipped
  <2>2. CASE BufferSize - n # 0
    <3>1. /\ buffer_ptr' = Copied(write_index, ptr, length)
          /\ \/ /\ StaysInMirror(write_index, length)
                /\ write_index' = write_index + length
                /\ write_mirror' = write_mirror
             \/ /\ ~ StaysInMirror(write_index, length)
                /\ write_mirror' = 1 - write_mirror
                /\ write_index' = length - (BufferSize - write_index)
      BY <2>2, <1>3 DEF rt_ringbuffer_put
    <3>2. Wrapped(write_index, length) = IF StaysInMirror(write_index, length)
                                         THEN write_index + length
                                         ELSE length - (BufferSize - write_index)
      <4> HIDE DEF length
      <4> QED
        BY <1>2, <1>4 DEF Wrapped, StaysInMirror, Index
    <3> HIDE DEF length
    <3> QED
      BY <3>1, <3>2 DEF Flipped, Copied, Stored
  <2> QED
    BY <2>1, <2>2
<1> HIDE DEF length
<1>7. /\ write_index' \in Index /\ write_mirror' \in {0, 1}
      /\ InOrderOfMirrors(read_mirror, read_index, write_mirror', write_index')
      /\ Between(read_mirror, read_index, write_mirror', write_index') = n + length
  BY <1>2, <1>4, <1>6, WriteMoves DEF n
<1>8. /\ buffer_ptr' \in [Index -> Byte]
      /\ BytesOf(buffer_ptr', read_index, n + length)
           = BytesOf(buffer_ptr, read_index, n) \o SubSeq(ptr, 1, length)
  BY <1>1, <1>2, <1>3, <1>4, <1>6, PutAppends, SMTT(20)
<1>9. RingInv'
  <2>1. TypeOK'
    BY <1>2, <1>4, <1>5, <1>7, <1>8 DEF RingInv, TypeOK, Index
  <2>2. MirrorOrder'
    BY <1>5, <1>7 DEF MirrorOrder, InOrderOfMirrors
  <2> QED
    BY <2>1, <2>2 DEF RingInv
<1>10. Contents = BytesOf(buffer_ptr, read_index, n)
  BY ContentsAre DEF n
<1>11. Contents' = BytesOf(buffer_ptr', read_index, n + length)
  <2>1. (RingInv => Contents = BytesOf(buffer_ptr, read_index,
                     Between(read_mirror, read_index, write_mirror, write_index)))'
    BY ContentsAre, PTL
  <2> QED
    BY <1>5, <1>7, <1>9, <2>1
<1>12. Len(Contents) = n
  BY <1>2, <1>3, <1>10, BytesOfType
<1>13. Fifo!Lesser(Len(ptr), BufferSize - n) = length
  BY <1>1, <1>3 DEF length, Fifo!Lesser
<1> QED
  BY <1>5, <1>8, <1>9, <1>10, <1>11, <1>12, <1>13, Zenon DEF Fifo!Put

\* rt_ringbuffer_get keeps the invariant and takes from the front of the queue.
LEMMA GetStep ==
  ASSUME RingInv, NEW request \in 1 .. MaxRequest, rt_ringbuffer_get(request)
  PROVE  RingInv' /\ Fifo!Get(request)
<1> DEFINE n == Between(read_mirror, read_index, write_mirror, write_index)
           length == IF n < request THEN n ELSE request
<1>2. /\ buffer_ptr \in [Index -> Byte]
      /\ read_mirror \in {0, 1} /\ write_mirror \in {0, 1}
      /\ read_index \in Index /\ write_index \in Index
      /\ InOrderOfMirrors(read_mirror, read_index, write_mirror, write_index)
  BY DataLen DEF RingInv, TypeOK
<1>3. n \in 0 .. BufferSize /\ rt_ringbuffer_data_len = n
  BY <1>2, BetweenType, DataLen
<1> HIDE DEF n
<1>4. length \in 0 .. n /\ length \in 0 .. BufferSize /\ length \in 0 .. MaxRequest
  BY <1>3
<1>5. /\ got' = BytesOf(buffer_ptr, read_index, length)
      /\ buffer_ptr' = buffer_ptr /\ accepted' = accepted
      /\ write_mirror' = write_mirror /\ write_index' = write_index
  BY <1>3 DEF rt_ringbuffer_get, Taken, BytesOf
<1>6. /\ read_index' = Wrapped(read_index, length)
      /\ read_mirror' = Flipped(read_mirror, read_index, length)
  <2>1. CASE n = 0
    <3>1. length = 0
      BY <2>1
    <3>2. UNCHANGED <<read_mirror, read_index>>
      BY <2>1, <1>3 DEF rt_ringbuffer_get
    <3>3. Wrapped(read_index, 0) = read_index /\ StaysInMirror(read_index, 0)
      BY <1>2 DEF Wrapped, StaysInMirror, Index
    <3> QED
      BY <3>1, <3>2, <3>3 DEF Flipped
  <2>2. CASE n # 0
    <3>1. \/ /\ StaysInMirror(read_index, length)
             /\ read_index' = read_index + length
             /\ read_mirror' = read_mirror
          \/ /\ ~ StaysInMirror(read_index, length)
             /\ read_mirror' = 1 - read_mirror
             /\ read_index' = length - (BufferSize - read_index)
      BY <2>2, <1>3 DEF rt_ringbuffer_get
    <3>2. Wrapped(read_index, length) = IF StaysInMirror(read_index, length)
                                        THEN read_index + length
                                        ELSE length - (BufferSize - read_index)
      <4> HIDE DEF length
      <4> QED
        BY <1>2, <1>4 DEF Wrapped, StaysInMirror, Index
    <3> HIDE DEF length
    <3> QED
      BY <3>1, <3>2 DEF Flipped
  <2> QED
    BY <2>1, <2>2
<1> HIDE DEF length
<1>7. /\ read_index' \in Index /\ read_mirror' \in {0, 1}
      /\ InOrderOfMirrors(read_mirror', read_index', write_mirror, write_index)
      /\ Between(read_mirror', read_index', write_mirror, write_index) = n - length
  BY <1>2, <1>4, <1>6, ReadMoves DEF n
<1>8. /\ BytesOf(buffer_ptr, read_index, length)
           = SubSeq(BytesOf(buffer_ptr, read_index, n), 1, length)
      /\ BytesOf(buffer_ptr, read_index', n - length)
           = SubSeq(BytesOf(buffer_ptr, read_index, n), length + 1, n)
  BY <1>2, <1>3, <1>4, <1>6, GetTakes, Zenon
<1>9. RingInv'
  <2>1. got' \in Seq(Byte) /\ Len(got') <= MaxRequest
    <3>1. got' \in Seq(Byte) /\ Len(got') = length
      BY <1>2, <1>4, <1>5, BytesOfType
    <3> QED
      BY <1>4, <3>1
  <2>2. TypeOK'
    BY <1>2, <1>5, <1>7, <2>1 DEF RingInv, TypeOK, Index
  <2>3. MirrorOrder'
    BY <1>5, <1>7 DEF MirrorOrder, InOrderOfMirrors
  <2> QED
    BY <2>2, <2>3 DEF RingInv
<1>10. Contents = BytesOf(buffer_ptr, read_index, n)
  BY ContentsAre DEF n
<1>11. Contents' = BytesOf(buffer_ptr, read_index', n - length)
  <2>1. (RingInv => Contents = BytesOf(buffer_ptr, read_index,
                     Between(read_mirror, read_index, write_mirror, write_index)))'
    BY ContentsAre, PTL
  <2> QED
    BY <1>5, <1>7, <1>9, <2>1
<1>12. Len(Contents) = n
  BY <1>2, <1>3, <1>10, BytesOfType
<1>13. Fifo!Lesser(request, n) = length
  BY <1>3 DEF length, Fifo!Lesser
<1> QED
  BY <1>5, <1>8, <1>9, <1>10, <1>11, <1>12, <1>13 DEF Fifo!Get

\* An empty ring buffer is an empty queue.
LEMMA InitStep == Init => RingInv /\ Fifo!Init
<1> SUFFICES ASSUME Init PROVE RingInv /\ Fifo!Init
  OBVIOUS
<1>1. RingInv
  BY DEF Init, rt_ringbuffer_init, RingInv, TypeOK, MirrorOrder, Index
<1>2. Contents \in Seq(Byte) /\ Len(Contents) = 0
  <2>1. Contents = BytesOf(buffer_ptr, read_index, 0)
    BY <1>1, ContentsAre DEF Init, rt_ringbuffer_init, Between
  <2> QED
    BY <1>1, <2>1, BytesOfType DEF RingInv, TypeOK
<1>3. Contents = << >>
  BY <1>2, Length
<1> QED
  BY <1>1, <1>3 DEF Init, Fifo!Init

\* Every step of the ring buffer is one of the queue, or changes nothing.
LEMMA NextStep == RingInv /\ [Next]_vars => RingInv' /\ [Fifo!Next]_(Fifo!vars)
<1> SUFFICES ASSUME RingInv, [Next]_vars PROVE RingInv' /\ [Fifo!Next]_(Fifo!vars)
  OBVIOUS
<1>1. ASSUME NEW ptr \in Block, rt_ringbuffer_put(ptr)
      PROVE  RingInv' /\ [Fifo!Next]_(Fifo!vars)
  BY <1>1, PutStep DEF Block, Fifo!Next, Fifo!Block
<1>2. ASSUME NEW request \in 1 .. MaxRequest, rt_ringbuffer_get(request)
      PROVE  RingInv' /\ [Fifo!Next]_(Fifo!vars)
  BY <1>2, GetStep DEF Fifo!Next
<1>3. CASE UNCHANGED vars
  <2>1. RingInv'
    BY <1>3 DEF vars, RingInv, TypeOK, MirrorOrder, Index
  <2>2. Contents' = Contents
    BY <1>3 DEF vars, Contents, Taken, rt_ringbuffer_data_len, rt_ringbuffer_status
  <2> QED
    BY <1>3, <2>1, <2>2 DEF vars, Fifo!vars
<1> QED
  BY <1>1, <1>2, <1>3 DEF Next

\* The indices stay inside the pool (TypeOK), and between them and their mirrors lie
\* between 0 and BufferSize bytes, whatever is put and taken.
THEOREM RingInvariant == Spec => [](TypeOK /\ MirrorOrder)
<1>1. Init => RingInv
  BY InitStep
<1>2. RingInv /\ [Next]_vars => RingInv'
  BY NextStep
<1> QED
  BY <1>1, <1>2, PTL DEF Spec, RingInv

\* The ring buffer implements the bounded first-in first-out queue, for every size of
\* the pool and of the requests.
THEOREM ImplementsFifo == Spec => FifoSpec
<1>1. Init => RingInv /\ Fifo!Init
  BY InitStep
<1>2. RingInv /\ [Next]_vars => RingInv' /\ [Fifo!Next]_(Fifo!vars)
  BY NextStep
<1> QED
  BY <1>1, <1>2, PTL DEF Spec, FifoSpec, Fifo!Spec
============================================================================
