---------------------------- MODULE UntarProofs ----------------------------
(***************************************************************************)
(* The invariant of untar, and what it leaves in the files, for any        *)
(* packages, any size of a block and any number of commands, faults and    *)
(* streams.                                                                *)
(***************************************************************************)
EXTENDS MicrotarProofs

USE Sizes, SMTT(30)

-----------------------------------------------------------------------------
(* untar. *)

\* Where microtar stands, unless a seek of mtar_next failed.  A failed read of mtar_next,
\* whose result untar ignores, leaves the two positions a block apart.
Position ==
    ~ astray =>
        /\ pc = "loop" => /\ tar.remaining_data = 0
                          /\ \/ tar.pos = tar.fpos \/ tar.pos = tar.fpos + Blk
                             \/ tar.fpos + Blk > Bytes
        /\ pc \in {"create", "copy", "skip"} =>
              \E j \in 1 .. Len(members), q \in Nat :
                 /\ h = HeaderBlock(members[j]) /\ Stands(tar, rest, members[j], q)
                 /\ rest <= h.size /\ (pc = "create" => rest = h.size /\ tar.remaining_data = 0)
                 /\ pc # "skip" <=> h.type = "TREG"
        /\ pc = "next" => tar.remaining_data = 0 /\ tar.pos = tar.fpos

\* The variables untar works with.
Work ==
    /\ tar \in TarType /\ rest \in 0 .. IntMax /\ h.size \in 0 .. IntMax
    /\ DOMAIN files = Name /\ faults \in 0 .. MaxFaults

Step == {"idle", "loop", "create", "copy", "skip", "next", "return"}

Code == {"ESUCCESS", "EREADFAIL", "ESEEKFAIL", "EBADCHKSUM", "ENULLRECORD", "EOPENFAIL", "-1"}

\* The streams: only a copy has an output; a command ends at most once without closing.
Streams ==
    /\ pc \in Step /\ ret \in Code /\ out \in BOOLEAN /\ fds \in 0 .. FdMax
    /\ runs \in 0 .. MaxRuns /\ leaks \in 0 .. runs
    /\ out <=> pc = "copy"
    /\ pc \in {"idle", "return"} => fds = leaks
    /\ pc \notin {"idle", "return"} => fds = leaks + 1 + (IF out THEN 1 ELSE 0) /\ leaks < runs

\* The doubtful files have names, and without a fault there are none.
Doubts ==
    /\ astray \in BOOLEAN /\ mixed \subseteq Name /\ holes \subseteq Name
    /\ pc \in {"create", "copy"} => h.name \in Name
    /\ faults = 0 => ~ astray /\ holes = {}

UInv == Archived /\ Work /\ Position /\ Streams /\ Doubts

\* Only a new command has a new archive.
LEMMA ArchivedStep == ASSUME LayoutsHold, Archived, [Next]_vars PROVE Archived'
<1>1. CASE UNCHANGED <<members, archive>>
  BY <1>1 DEF Archived
<1>2. ASSUME NEW ms \in Packages, NEW a \in Received(ms), NEW f, OpenTar(ms, a, f)
      PROVE  Archived'
  <2>1. archive' = a /\ members' = ms
    BY <1>2 DEF OpenTar
  <2> QED
    BY <2>1 DEF Archived, LayoutsHold
<1>3. CASE untar \/ UNCHANGED vars
  BY <1>1, <1>3, Zenon DEF untar, vars, ReadHeader, NextMember, Copy, Skip, CreateFile, Report
<1> QED
  BY <1>2, <1>3 DEF Next

\* The faults of each step.
LEMMA FaultSets ==
    /\ HeaderFaults \cup {OpenFault} \subseteq AFault /\ HeaderFaults \subseteq AFault
    /\ {OpenFault} \subseteq AFault /\ NextFaults \subseteq AFault /\ NoFault \in AFault
    /\ \A size \in Nat : DataFaults(size) \subseteq AFault /\ DataFaults(size) \cup WriteFaults(size) \subseteq AFault
    /\ \A f \in NextFaults \cup {NoFault} : f.call = "header" => f.moved = 0 \/ f.moved = Blk
<1>1. ASSUME NEW size \in Nat, NEW call \in {"header", "data"} PROVE ReadFaults(call, size) \subseteq AFault
  BY <1>1 DEF ReadFaults, AFault
<1>2. ASSUME NEW call \in {"back", "on", "past", "again"} PROVE SeekFault(call) \in AFault
  BY <1>2 DEF SeekFault, AFault
<1>3. OpenFault \in AFault /\ NoFault \in AFault
  BY DEF OpenFault, NoFault, AFault
<1>4. HeaderFaults \subseteq AFault
  BY <1>1, <1>2 DEF HeaderFaults
<1>5. NextFaults \subseteq AFault
  BY <1>2, <1>4 DEF NextFaults
<1>6. ASSUME NEW size \in Nat PROVE DataFaults(size) \subseteq AFault /\ WriteFaults(size) \subseteq AFault
  <2>1. DataFaults(size) \subseteq AFault
    BY <1>1, <1>2, <1>4, <1>6 DEF DataFaults
  <2>2. WriteFaults(size) \subseteq AFault
    BY <1>6 DEF WriteFaults, AFault
  <2> QED
    BY <2>1, <2>2
<1>7. ASSUME NEW f \in NextFaults \cup {NoFault}, f.call = "header" PROVE f.moved = 0 \/ f.moved = Blk
  BY <1>7 DEF NextFaults, HeaderFaults, ReadFaults, SeekFault, NoFault
<1> QED
  BY <1>3, <1>4, <1>5, <1>6, <1>7, Zenon

\* Faults stay within their bound, and are counted.
LEMMA FaultCounts ==
    ASSUME faults \in 0 .. MaxFaults, NEW fs \in SUBSET AFault, NEW f \in May(fs), Counts(f)
    PROVE  /\ faults' \in 0 .. MaxFaults /\ f \in AFault /\ f \in fs \cup {NoFault}
           /\ faults' = 0 => f = NoFault /\ faults = 0
<1>1. f \in fs \cup {NoFault} /\ (f # NoFault => faults < MaxFaults)
  BY DEF May
<1>2. f \in AFault
  BY <1>1, FaultSets
<1>3. faults' = IF f = NoFault THEN faults ELSE faults + 1
  BY DEF Counts
<1> QED
  BY <1>1, <1>2, <1>3

\* While the archive is the same, microtar stands in it where it stood.
LEMMA StandsNext ==
    ASSUME UNCHANGED archive, NEW m, NEW q, Stands(tar', rest', m, q)
    PROVE  Stands(tar, rest, m, q)'
BY DEF Stands, AtHeader, InData, Here

\* A header that is read is that of a member.
LEMMA HeaderRead ==
    ASSUME Archived, NEW t \in TarType, NEW f \in AFault, NEW r, r = mtar_read_header(t, f),
           r.err = "ESUCCESS"
    PROVE  r.h.size \in 0 .. IntMax /\ r.h.name \in Name
<1>1. HeadersRead
  BY Reads
<1>2. ReadsHeader(t, f)
  BY <1>1, Zenon DEF HeadersRead
<1>3. t.fpos + Blk <= Bytes /\ RawAt(t.fpos).kind = "header" /\ r.h = RawAt(t.fpos)
  BY <1>2 DEF ReadsHeader
<1>4. t.fpos \in Nat
  BY DEF TarType
<1>5. PICK j \in 1 .. Len(members) : RawAt(t.fpos) = HeaderBlock(members[j])
  BY <1>3, <1>4, HeaderAt, Zenon
<1>6. members[j] \in Member
  BY ArchiveType
<1> QED
  BY <1>3, <1>5, <1>6 DEF HeaderBlock, Member

\* A read of untar for a member.
LEMMA ReadCode ==
    ASSUME UInv, rest > 0, NEW f \in AFault, NEW d, d = mtar_read_data(tar, SmallerOf(rest, Blk), f)
    PROVE  /\ d.tar \in TarType /\ d.err \in Errors
           /\ rest - SmallerOf(rest, Blk) \in 0 .. rest
           /\ \A j \in 1 .. Len(members), q \in Nat : Stands(tar, rest, members[j], q) =>
                 /\ d.err = "ESUCCESS" => Passes(d, rest, SmallerOf(rest, Blk), members[j], q)
                 /\ f.call = "none" /\ Whole(members[j], q) => d.err = "ESUCCESS"
<1> DEFINE size == SmallerOf(rest, Blk)
<1>1. tar \in TarType /\ rest \in Nat /\ Archived
  BY DEF UInv, Work
<1>2. size \in 0 .. rest /\ size \in Nat
  BY <1>1 DEF SmallerOf
<1>3. d = mtar_read_data(tar, size, f) /\ size = SmallerOf(rest, Blk)
  OBVIOUS
<1> HIDE DEF size
<1>4. DataRead
  BY <1>1, Reads, Zenon
<1>5. d.tar \in TarType /\ d.err \in Errors
  BY <1>1, <1>2, <1>3, <1>4, Zenon DEF DataRead, TypesKept
<1>6. ASSUME NEW j \in 1 .. Len(members), NEW q \in Nat, Stands(tar, rest, members[j], q)
      PROVE  /\ d.err = "ESUCCESS" => Passes(d, rest, size, members[j], q)
             /\ f.call = "none" /\ Whole(members[j], q) => d.err = "ESUCCESS"
  <2>1. members[j] \in Member /\ rest \in Nat \ {0}
    BY <1>1, ArchiveType
  <2>2. ReadsData(tar, rest, members[j], q, f)
    BY <1>1, <1>4, <1>6, <2>1, Zenon DEF DataRead
  <2> QED
    BY <1>3, <2>2, Zenon DEF ReadsData
<1>7. rest - size \in 0 .. rest
  BY <1>1, <1>2
<1> QED
  BY <1>3, <1>5, <1>6, <1>7

\* The faults of a pass over the data.
LEMMA CopyFault ==
    ASSUME UInv, NEW f \in May(DataFaults(SmallerOf(rest, Blk)) \cup WriteFaults(SmallerOf(rest, Blk))), Copy(f)
    PROVE  /\ faults' \in 0 .. MaxFaults /\ f \in AFault
           /\ faults' = faults \/ (f # NoFault /\ faults' = faults + 1)
           /\ rest > 0 => faults' = IF f = NoFault THEN faults ELSE faults + 1
           /\ f.call = "fwrite" => f.moved \in 0 .. SmallerOf(rest, Blk) - 1
<1> DEFINE size == SmallerOf(rest, Blk)
<1>1. rest \in Nat /\ faults \in 0 .. MaxFaults /\ size \in Nat
  BY DEF UInv, Work, SmallerOf
<1>2. DataFaults(size) \cup WriteFaults(size) \subseteq AFault
  BY <1>1, FaultSets, Zenon
<1>3. f \in DataFaults(size) \cup WriteFaults(size) \cup {NoFault} /\ (f # NoFault => faults < MaxFaults)
  BY DEF May
<1>4. f \in AFault
  BY <1>2, <1>3, FaultSets
<1>5. \/ rest = 0 /\ faults' = faults
      \/ rest > 0 /\ faults' = IF f = NoFault THEN faults ELSE faults + 1
  BY Zenon DEF Copy, Counts
<1>6. f.call = "fwrite" => f.moved \in 0 .. size - 1
  BY <1>3 DEF DataFaults, WriteFaults, HeaderFaults, ReadFaults, SeekFault, NoFault
<1> HIDE DEF size
<1>7. f.call = "fwrite" => f.moved \in 0 .. SmallerOf(rest, Blk) - 1
  BY <1>6 DEF size
<1> QED
  BY <1>1, <1>3, <1>4, <1>5, <1>7

LEMMA SkipFault ==
    ASSUME UInv, NEW f \in May(DataFaults(SmallerOf(rest, Blk))), Skip(f)
    PROVE  /\ faults' \in 0 .. MaxFaults /\ f \in AFault
           /\ faults' = faults \/ (f # NoFault /\ faults' = faults + 1)
           /\ rest > 0 => faults' = IF f = NoFault THEN faults ELSE faults + 1
<1> DEFINE size == SmallerOf(rest, Blk)
<1>1. rest \in Nat /\ faults \in 0 .. MaxFaults /\ size \in Nat
  BY DEF UInv, Work, SmallerOf
<1>2. DataFaults(size) \subseteq AFault
  BY <1>1, FaultSets, Zenon
<1>3. f \in DataFaults(size) \cup {NoFault} /\ (f # NoFault => faults < MaxFaults)
  BY DEF May
<1>4. f \in AFault
  BY <1>2, <1>3, FaultSets
<1>5. \/ rest = 0 /\ faults' = faults
      \/ rest > 0 /\ faults' = IF f = NoFault THEN faults ELSE faults + 1
  BY Zenon DEF Skip, Counts
<1> QED
  BY <1>1, <1>3, <1>4, <1>5

\* microtar's state keeps its order.
LEMMA WorkStep == UInv /\ Archived' /\ [Next]_vars => Work' /\ Position'
\* The variables, before a step and after one.
<1>Known. ASSUME UInv
          PROVE  /\ tar \in TarType /\ rest \in 0 .. IntMax /\ h.size \in 0 .. IntMax
                 /\ DOMAIN files = Name /\ faults \in 0 .. MaxFaults /\ Archived
  BY <1>Known DEF UInv, Work
<1>WorkNext. ASSUME tar' \in TarType, rest' \in 0 .. IntMax, h'.size \in 0 .. IntMax,
                    DOMAIN files' = Name, faults' \in 0 .. MaxFaults
             PROVE  Work'
  BY <1>WorkNext DEF Work
\* The position, before a step and after one.
<1>InMember. ASSUME UInv, ~ astray, pc \in {"create", "copy", "skip"}
             PROVE  \E j \in 1 .. Len(members), q \in Nat :
                       /\ h = HeaderBlock(members[j]) /\ Stands(tar, rest, members[j], q)
                       /\ rest <= h.size /\ (pc = "create" => rest = h.size /\ tar.remaining_data = 0)
                       /\ pc # "skip" <=> h.type = "TREG"
  BY <1>InMember DEF UInv, Position
<1>InLoop. ASSUME UInv, ~ astray, pc \in {"loop", "next"}
           PROVE  /\ tar.remaining_data = 0
                  /\ \/ tar.pos = tar.fpos
                     \/ pc = "loop" /\ (tar.pos = tar.fpos + Blk \/ tar.fpos + Blk > Bytes)
  BY <1>InLoop DEF UInv, Position
<1>Outside. ASSUME pc' \in {"idle", "return"} \/ astray' PROVE Position'
  BY <1>Outside DEF Position
<1>AtLoop. ASSUME pc' \in {"loop", "next"}, tar'.remaining_data = 0,
                  \/ tar'.pos = tar'.fpos
                  \/ pc' = "loop" /\ (tar'.pos = tar'.fpos + Blk \/ tar'.fpos + Blk > Bytes')
           PROVE  Position'
  BY <1>AtLoop DEF Position
\* The position in a member, after a step that leaves the archive alone.
<1>PositionNext. ASSUME UNCHANGED <<members, archive>>, pc' \in {"create", "copy", "skip"},
                        NEW j \in 1 .. Len(members), NEW q \in Nat,
                        h' = HeaderBlock(members[j]), Stands(tar', rest', members[j], q),
                        rest' <= h'.size, pc' = "create" => rest' = h'.size /\ tar'.remaining_data = 0,
                        pc' # "skip" <=> h'.type = "TREG"
                 PROVE  Position'
  <2> USE <1>PositionNext
  <2> DEFINE m == members[j]
  <2>1. Stands(tar, rest, m, q)'
    BY StandsNext
  <2>2. members' = members /\ m' = m
    OBVIOUS
  <2> QED
    BY <2>1, <2>2 DEF Position
\* The header read in the loop, and the place microtar has then.
<1>LoopStands. ASSUME Archived, NEW t \in TarType, NEW u \in TarType, t.fpos + Blk <= Bytes,
                      RawAt(t.fpos).kind = "header", t.pos = t.fpos \/ t.pos = t.fpos + Blk,
                      u.remaining_data = 0, u.pos = t.pos, u.fpos = t.pos
               PROVE  \E j \in 1 .. Len(members), q \in Nat :
                         /\ RawAt(t.fpos) = HeaderBlock(members[j]) /\ members[j] \in Member
                         /\ Stands(u, members[j].size, members[j], q)
                         /\ t.pos = t.fpos => t.fpos = Blk * q
  <2> USE <1>LoopStands
  <2>1. t.fpos \in Nat
    BY DEF TarType
  <2>2. PICK j \in 1 .. Len(members), k \in Nat :
           t.fpos = Blk * k /\ RawAt(t.fpos) = HeaderBlock(members[j]) /\ Here(members[j], k)
    BY <2>1, HeaderAt, Zenon
  <2> DEFINE m == members[j]
  <2>3. m \in Member /\ m.size \in Nat /\ BlocksOf(m) \in Nat /\ m.size <= Blk * BlocksOf(m)
    BY ArchiveType, BlocksHold
  <2>4. t.fpos = Blk * k /\ RawAt(t.fpos) = HeaderBlock(m) /\ Here(m, k)
    BY <2>2
  <2> HIDE DEF m
  <2>5. CASE t.pos = t.fpos
    <3>1. AtHeader(u, m.size, m, k)
      BY <2>4, <2>5 DEF AtHeader
    <3> QED
      BY <2>3, <2>4, <2>5, <3>1 DEF m, Stands
  <2>6. CASE t.pos = t.fpos + Blk
    <3>1. k + 1 \in Nat /\ Blk * (k + 1) = Blk * k + Blk /\ Blk * k \in Nat
      BY Multiples
    <3>2. ASSUME m.size # 0, k + 1 + 1 <= Len(archive) PROVE archive[k + 1 + 1].kind # "header"
      <4>1. BlocksOf(m) # 0
        <5>1. BlocksOf(m) = 0 => Blk * BlocksOf(m) = 0
          OBVIOUS
        <5> QED
          BY <2>3, <3>2, <5>1
      <4>2. 1 \in 1 .. BlocksOf(m)
        BY <2>3, <4>1
      <4>3. archive[k + 1 + 1] = Block(m, 1)
        <5>1. \A i \in 1 .. BlocksOf(m) :
                 k + 1 + i <= Len(archive) => archive[k + 1 + i] = Block(m, i)
          BY <2>4, Zenon DEF Here
        <5> QED
          BY <3>2, <4>2, <5>1, Zenon
      <4> QED
        BY <4>3 DEF Block
    <3>3. AtHeader(u, m.size, m, k + 1)
      BY <2>4, <2>6, <3>1, <3>2 DEF AtHeader
    <3>4. t.pos # t.fpos
      BY <2>1, <2>6
    <3> QED
      BY <2>3, <2>4, <3>1, <3>3, <3>4 DEF m, Stands
  <2> QED
    BY <2>5, <2>6
\* mtar_open reads the first header.
<1>OpenStep. ASSUME UInv, Archived', NEW ms, NEW a, NEW f \in May(HeaderFaults \cup {OpenFault}),
                    OpenTar(ms, a, f)
             PROVE  Work' /\ Position'
  <2> USE <1>OpenStep
  <2>1. UNCHANGED <<h, rest, files>> /\ pc' \in {"loop", "return"} /\ Counts(f)
    BY DEF OpenTar
  <2>2. faults' \in 0 .. MaxFaults /\ f \in AFault
    BY <2>1, FaultCounts, FaultSets, <1>Known
  <2>3. CASE UNCHANGED tar /\ pc' = "return"
    BY <2>1, <2>2, <2>3, <1>Known, <1>WorkNext, <1>Outside
  <2> DEFINE r == mtar_read_header(Closed, f)
  <2>4. CASE tar' = r'.tar /\ (pc' = "loop" => r'.err = "ESUCCESS")
    <3>3. HeadersRead'
      BY Reads, PTL
    <3>4. Closed \in TarType /\ Closed.pos = 0 /\ Closed.fpos = 0 /\ Closed.remaining_data = 0
      BY DEF Closed, TarType, Word
    <3>5. ReadsHeader(Closed, f)'
      BY <2>2, <3>3, <3>4 DEF HeadersRead
    <3>6. /\ r'.tar \in TarType /\ r'.tar.remaining_data = 0
          /\ r'.err = "ESUCCESS" => r'.tar.pos = r'.tar.fpos
      BY <3>4, <3>5 DEF ReadsHeader
    <3> HIDE DEF r
    <3>7. Work'
      BY <2>1, <2>2, <2>4, <3>6, <1>Known, <1>WorkNext
    <3>8. Position'
      BY <2>1, <2>4, <3>6, <1>Outside, <1>AtLoop
    <3> QED
      BY <3>7, <3>8
  <2> QED
    BY <2>3, <2>4 DEF OpenTar
\* The loop reads a header, which a first read of data finds again or not at all.
<1>HeaderStep. ASSUME UInv, NEW f \in May(HeaderFaults), ReadHeader(f) PROVE Work' /\ Position'
  <2> USE <1>HeaderStep
  <2> DEFINE r == mtar_read_header(tar, f)
  <2>1. /\ Counts(f) /\ pc = "loop" /\ tar' = r.tar /\ UNCHANGED <<members, archive, files, astray>>
        /\ \/ /\ r.err = "ESUCCESS" /\ h' = r.h /\ rest' = r.h.size
              /\ pc' = IF r.h.type = "TREG" THEN "create" ELSE "skip"
           \/ r.err # "ESUCCESS" /\ pc' = "return" /\ UNCHANGED <<h, rest>>
    BY DEF ReadHeader, Returns, doubt
  <2>2. faults' \in 0 .. MaxFaults /\ f \in AFault
    BY <2>1, FaultCounts, FaultSets, <1>Known
  <2>3. ReadsHeader(tar, f)
    BY <2>2, Reads, <1>Known DEF HeadersRead
  <2>4. /\ r.tar \in TarType /\ r.tar.remaining_data = tar.remaining_data
        /\ r.err = "ESUCCESS" =>
              /\ tar.fpos + Blk <= Bytes /\ RawAt(tar.fpos).kind = "header"
              /\ r.h = RawAt(tar.fpos)
              /\ r.tar.pos = tar.pos /\ r.tar.fpos = tar.pos
    BY <2>3 DEF ReadsHeader
  <2>5. r.err = "ESUCCESS" => r.h.size \in 0 .. IntMax
    BY <2>2, <1>Known, HeaderRead
  <2> HIDE DEF r
  <2>8. Work'
    BY <2>1, <2>2, <2>4, <2>5, <1>Known, <1>WorkNext
  <2>6. CASE r.err # "ESUCCESS" \/ astray
    BY <2>1, <2>6, <2>8, <1>Outside
  <2>7. CASE r.err = "ESUCCESS" /\ ~ astray
    <3>1. (tar.pos = tar.fpos \/ tar.pos = tar.fpos + Blk) /\ tar.remaining_data = 0
      <4>1. tar.fpos \in Nat /\ tar.pos \in Nat /\ Bytes \in Nat
        BY ArchiveType, <1>Known DEF TarType
      <4> QED
        BY <2>1, <2>4, <2>7, <4>1, <1>InLoop
    <3>2. tar'.remaining_data = 0 /\ tar'.pos = tar.pos /\ tar'.fpos = tar.pos /\ tar' \in TarType
      BY <2>1, <2>4, <2>7, <3>1
    <3>3. PICK j \in 1 .. Len(members), q \in Nat :
             /\ RawAt(tar.fpos) = HeaderBlock(members[j]) /\ members[j] \in Member
             /\ Stands(tar', members[j].size, members[j], q)
      BY <2>4, <2>7, <3>1, <3>2, <1>LoopStands, <1>Known, Zenon
    <3>4. h' = HeaderBlock(members[j]) /\ rest' = members[j].size /\ h'.size = members[j].size
          /\ h'.size \in Nat
      BY <2>1, <2>4, <2>7, <3>3 DEF HeaderBlock, Member
    <3>5. pc' = IF h'.type = "TREG" THEN "create" ELSE "skip"
      BY <2>1, <2>7
    <3>6. /\ UNCHANGED <<members, archive>> /\ pc' \in {"create", "copy", "skip"}
          /\ h' = HeaderBlock(members[j]) /\ Stands(tar', rest', members[j], q)
          /\ rest' <= h'.size /\ (pc' = "create" => rest' = h'.size /\ tar'.remaining_data = 0)
          /\ pc' # "skip" <=> h'.type = "TREG"
      <4>1. rest' <= h'.size /\ rest' = h'.size
        BY <3>4
      <4>2. Stands(tar', rest', members[j], q)
        BY <3>3, <3>4, Zenon
      <4>3. pc' \in {"create", "copy", "skip"} /\ (pc' # "skip" <=> h'.type = "TREG")
        BY <3>5
      <4> QED
        BY <2>1, <3>2, <3>4, <4>1, <4>2, <4>3, Zenon
    <3>7. Position'
      BY <3>6, <1>PositionNext, Zenon
    <3> QED
      BY <2>8, <3>7
  <2> QED
    BY <2>6, <2>7
\* mtar_next, whose failure untar does not see.
<1>NextStep. ASSUME UInv, NEW f \in May(NextFaults), NextMember(f) PROVE Work' /\ Position'
  <2> USE <1>NextStep
  <2> DEFINE r == mtar_read_header(tar, f)
             n == mtar_next(tar, f)
             to == r.tar.pos + round_up(r.h.size) + Blk
             k == mtar_seek(r.tar, to, f, "on")
  <2>1. /\ Counts(f) /\ pc = "next" /\ pc' = "loop" /\ tar' = n.tar
        /\ UNCHANGED <<archive, files, h, rest>>
    BY DEF NextMember
  <2>10. astray' <=> astray \/ n.err = "ESEEKFAIL"
    BY Zenon DEF NextMember
  <2>2. faults' \in 0 .. MaxFaults /\ f \in AFault /\ (f.call = "header" => f.moved = 0 \/ f.moved = Blk)
    <3>1. faults' \in 0 .. MaxFaults /\ f \in AFault /\ f \in NextFaults \cup {NoFault}
      BY <2>1, FaultCounts, FaultSets, <1>Known
    <3> QED
      BY <3>1, FaultSets, Zenon
  <2>3. ReadsHeader(tar, f)
    BY <2>2, Reads, <1>Known DEF HeadersRead
  <2>4. /\ r.tar \in TarType /\ r.tar.remaining_data = tar.remaining_data
        /\ r.err \notin {"EREADFAIL", "ESEEKFAIL"} => r.tar.pos = tar.pos /\ r.tar.fpos = tar.pos
        /\ r.err = "EREADFAIL" =>
              /\ r.tar.pos = tar.pos + Blk
              /\ (f.call = "header" /\ r.tar.fpos = tar.fpos + f.moved) \/ r.tar.fpos = Bytes
    BY <2>3 DEF ReadsHeader
  <2>5. r.err = "ESUCCESS" => r.h.size \in 0 .. IntMax
    BY <2>2, <1>Known, HeaderRead
  <2>6. /\ r.err # "ESUCCESS" => n.tar = r.tar /\ n.err = r.err
        /\ r.err = "ESUCCESS" => n = k
    BY DEF mtar_next
  <2>7. k = mtar_seek(r.tar, to, f, "on")
    OBVIOUS
  <2> HIDE DEF r, n, k
  <2>8. CASE r.err = "ESUCCESS"
    <3>1. to \in Nat
      <4>1. r.tar.pos \in Nat /\ r.h.size \in Nat
        BY <2>4, <2>5, <2>8 DEF TarType
      <4>2. round_up(r.h.size) \in Nat
        BY <4>1 DEF round_up
      <4> QED
        BY <4>1, <4>2
    <3> HIDE DEF to
    <3>2. /\ k.tar \in TarType /\ k.tar.pos = to /\ k.tar.remaining_data = r.tar.remaining_data
          /\ k.err # "ESEEKFAIL" => k.tar.fpos = to
      <4>1. r.tar \in TarType
        BY <2>4
      <4> QED
        BY ONLY <2>7, <3>1, <4>1, SeekMoves
    <3>3. tar' = k.tar /\ n.err = k.err
      BY <2>1, <2>6, <2>8
    <3>4. Work'
      BY <2>1, <2>2, <3>2, <3>3, <1>Known, <1>WorkNext
    <3>5. CASE astray'
      BY <3>4, <3>5, <1>Outside
    <3>6. CASE ~ astray'
      <4>1. ~ astray /\ k.err # "ESEEKFAIL"
        BY <2>10, <3>3, <3>6
      <4>2. tar.remaining_data = 0
        BY <2>1, <4>1, <1>InLoop
      <4>3. Position'
        BY <2>1, <2>4, <3>2, <3>3, <4>1, <4>2, <1>AtLoop
      <4> QED
        BY <3>4, <4>3
    <3> QED
      BY <3>5, <3>6
  <2>9. CASE r.err # "ESUCCESS"
    <3>1. tar' = r.tar /\ n.err = r.err
      BY <2>1, <2>6, <2>9
    <3>4. Work'
      BY <2>1, <2>2, <2>4, <3>1, <1>Known, <1>WorkNext
    <3>5. CASE astray'
      BY <3>4, <3>5, <1>Outside
    <3>6. CASE ~ astray'
      <4>1. ~ astray /\ r.err # "ESEEKFAIL"
        BY <2>10, <3>1, <3>6
      <4>2. tar.remaining_data = 0 /\ tar.pos = tar.fpos /\ tar.fpos \in Nat
        BY <2>1, <4>1, <1>Known, <1>InLoop DEF TarType
      <4>3. \/ r.tar.pos = r.tar.fpos \/ r.tar.pos = r.tar.fpos + Blk
            \/ r.tar.fpos + Blk > Bytes
        <5>1. Bytes \in Nat
          BY ArchiveType, <1>Known
        <5> QED
          BY <2>2, <2>4, <4>1, <4>2, <5>1
      <4>4. Bytes' = Bytes
        BY <2>1 DEF Bytes
      <4>5. Position'
        BY <2>1, <2>4, <3>1, <4>2, <4>3, <4>4, <1>AtLoop
      <4> QED
        BY <3>4, <4>5
    <3> QED
      BY <3>5, <3>6
  <2> QED
    BY <2>8, <2>9
\* A pass over the data of a member.
<1>DataStep. ASSUME UInv, pc \in {"copy", "skip"}, rest > 0, UNCHANGED <<members, archive, h, astray>>,
                    DOMAIN files' = Name, NEW f \in AFault, faults' \in 0 .. MaxFaults, NEW d,
                    d = mtar_read_data(tar, SmallerOf(rest, Blk), f), tar' = d.tar,
                    \/ d.err = "ESUCCESS" /\ rest' = rest - SmallerOf(rest, Blk) /\ UNCHANGED pc
                    \/ d.err # "ESUCCESS" /\ rest' = rest /\ pc' = "return"
             PROVE  Work' /\ Position'
  <2> USE <1>DataStep
  <2>1. /\ d.tar \in TarType /\ d.err \in Errors
        /\ rest - SmallerOf(rest, Blk) \in 0 .. rest
        /\ \A j \in 1 .. Len(members), q \in Nat : Stands(tar, rest, members[j], q) =>
              /\ d.err = "ESUCCESS" => Passes(d, rest, SmallerOf(rest, Blk), members[j], q)
              /\ f.call = "none" /\ Whole(members[j], q) => d.err = "ESUCCESS"
    BY ReadCode, Zenon
  <2>2. rest \in 0 .. IntMax /\ h.size \in 0 .. IntMax /\ rest' \in 0 .. IntMax /\ rest' <= rest
    <3>1. rest \in 0 .. IntMax /\ h.size \in 0 .. IntMax
      BY <1>Known
    <3>2. rest' = rest \/ rest' \in 0 .. rest
      BY <2>1
    <3> QED
      BY <3>1, <3>2
  <2>3. Work'
    BY <2>1, <2>2, <1>Known, <1>WorkNext
  <2>4. CASE d.err = "ESUCCESS" /\ ~ astray
    <3>0. PICK j \in 1 .. Len(members), q \in Nat :
             /\ h = HeaderBlock(members[j]) /\ Stands(tar, rest, members[j], q)
             /\ rest <= h.size /\ (pc # "skip" <=> h.type = "TREG")
      BY <2>4, <1>InMember
    <3>1. Stands(tar', rest', members[j], q)
      BY <2>1, <2>4, <3>0 DEF Passes
    <3>2. h' = h /\ pc' = pc /\ rest' <= h.size
      BY <2>2, <2>4, <3>0
    <3> QED
      BY <2>3, <3>0, <3>1, <3>2, <1>PositionNext
  <2>5. CASE d.err # "ESUCCESS" \/ astray
    BY <2>3, <2>5, <1>Outside
  <2> QED
    BY <2>4, <2>5
<1> SUFFICES ASSUME UInv, Archived', [Next]_vars PROVE Work' /\ Position'
  OBVIOUS
<1>2. ASSUME NEW ms, NEW a, NEW f \in May(HeaderFaults \cup {OpenFault}), OpenTar(ms, a, f)
      PROVE  Work' /\ Position'
  BY <1>2, <1>OpenStep
<1>3. ASSUME NEW f \in May(HeaderFaults), ReadHeader(f) PROVE Work' /\ Position'
  BY <1>3, <1>HeaderStep
<1>9. ASSUME NEW f \in May(NextFaults), NextMember(f) PROVE Work' /\ Position'
  BY <1>9, <1>NextStep
<1>4. ASSUME NEW f \in May({OpenFault}), CreateFile(f) PROVE Work' /\ Position'
  <2>1. DOMAIN files' = Name /\ UNCHANGED <<members, archive, tar, h, rest, astray>>
        /\ pc = "create" /\ pc' \in {"copy", "return"} /\ Counts(f)
    BY <1>4, <1>Known DEF CreateFile, Returns
  <2>4. faults' \in 0 .. MaxFaults
    BY <2>1, <1>4, FaultCounts, FaultSets, <1>Known
  <2>2. Work'
    BY <2>1, <2>4, <1>Known, <1>WorkNext
  <2>3. CASE pc' = "copy" /\ ~ astray
    <3>1. PICK j \in 1 .. Len(members), q \in Nat :
             /\ h = HeaderBlock(members[j]) /\ Stands(tar, rest, members[j], q)
             /\ rest <= h.size /\ h.type = "TREG"
      BY <2>1, <2>3, <1>InMember
    <3> QED
      BY <2>1, <2>2, <2>3, <3>1, <1>PositionNext
  <2> QED
    BY <2>1, <2>2, <2>3, <1>Outside
<1>5. ASSUME NEW f \in AFault, faults' \in 0 .. MaxFaults, Copy(f) \/ Skip(f)
      PROVE  Work' /\ Position'
  <2>1. pc \in {"copy", "skip"} /\ UNCHANGED <<members, archive, h, astray>> /\ DOMAIN files' = Name
    <3>1. DOMAIN files = Name
      BY <1>Known
    <3> QED
      BY <1>5, <3>1, Zenon DEF Copy, Skip, doubt
  <2>2. CASE rest = 0
    <3>1. UNCHANGED <<tar, rest, faults>> /\ pc' = "next"
      BY <1>5, <2>2 DEF Copy, Skip
    <3>2. Work'
      BY <2>1, <3>1, <1>Known, <1>WorkNext
    <3>3. CASE ~ astray
      <4>1. PICK j \in 1 .. Len(members), q \in Nat : Stands(tar, rest, members[j], q)
        BY <2>1, <3>3, <1>InMember
      <4>2. tar.remaining_data = 0 /\ tar.pos = tar.fpos
        BY <2>2, <4>1 DEF Stands, AtHeader, InData
      <4> QED
        BY <3>1, <3>2, <4>2, <1>AtLoop
    <3> QED
      BY <2>1, <3>2, <3>3, <1>Outside
  <2>3. CASE rest > 0
    <3> DEFINE d == mtar_read_data(tar, SmallerOf(rest, Blk), f)
    <3>1. /\ tar' = d.tar
          /\ \/ d.err = "ESUCCESS" /\ rest' = rest - SmallerOf(rest, Blk) /\ UNCHANGED pc
             \/ d.err # "ESUCCESS" /\ rest' = rest /\ pc' = "return"
      BY <1>5, <2>3 DEF Copy, Skip, Returns
    <3>2. d = mtar_read_data(tar, SmallerOf(rest, Blk), f)
      OBVIOUS
    <3> HIDE DEF d
    <3> QED
      BY <1>5, <2>1, <2>3, <3>1, <3>2, <1>DataStep
  <2> QED
    BY <2>2, <2>3, <1>Known
<1>6. CASE Report
  <2>1. UNCHANGED <<tar, rest, h, files, faults>> /\ pc' = "idle"
    BY <1>6 DEF Report, world
  <2> QED
    BY <2>1, <1>Known, <1>WorkNext, <1>Outside
<1>8. CASE UNCHANGED vars
  <2>0. UNCHANGED <<members, archive, tar, rest, h, files, faults, pc, astray>>
    BY <1>8 DEF vars, world, doubt
  <2>1. Bytes' = Bytes
    BY <2>0 DEF Bytes
  <2>2. Position'
    <3>1. CASE ~ astray /\ pc \in {"create", "copy", "skip"}
      <4>1. PICK j \in 1 .. Len(members), q \in Nat :
               /\ h = HeaderBlock(members[j]) /\ Stands(tar, rest, members[j], q)
               /\ rest <= h.size /\ (pc = "create" => rest = h.size /\ tar.remaining_data = 0)
               /\ pc # "skip" <=> h.type = "TREG"
        BY <3>1, <1>InMember
      <4> QED
        BY <2>0, <3>1, <4>1, <1>PositionNext
    <3>2. CASE astray \/ pc \notin {"create", "copy", "skip"}
      BY <2>0, <2>1, <3>2 DEF UInv, Position
    <3> QED
      BY <3>1, <3>2
  <2> QED
    BY <2>0, <2>2, <1>Known, <1>WorkNext
<1>10. ASSUME NEW f \in May(DataFaults(SmallerOf(rest, Blk)) \cup WriteFaults(SmallerOf(rest, Blk))), Copy(f)
       PROVE  Work' /\ Position'
  <2>1. faults' \in 0 .. MaxFaults /\ f \in AFault
    BY <1>10, CopyFault, Zenon
  <2> QED
    BY <1>5, <1>10, <2>1, Zenon
<1>11. ASSUME NEW f \in May(DataFaults(SmallerOf(rest, Blk))), Skip(f) PROVE Work' /\ Position'
  BY <1>5, <1>11, SkipFault
<1> QED
  BY <1>2, <1>3, <1>4, <1>6, <1>8, <1>9, <1>10, <1>11 DEF Next, untar

\* The streams stay accounted for.
LEMMA StreamsStep == UInv /\ Archived' /\ [Next]_vars => Streams'
\* Every early return closes the output, and all but those of a failing member the archive.
<1>ReturnStreams. ASSUME Streams, pc \notin {"idle", "return"}, UNCHANGED runs,
                         NEW code \in Code, NEW open \in BOOLEAN, Returns(code, open)
                  PROVE  Streams'
  <2> USE <1>ReturnStreams
  <2>1. /\ pc' = "return" /\ ret' = code /\ ~ out'
        /\ fds' = leaks' /\ leaks' \in {leaks, leaks + 1}
    BY DEF Returns, Streams
  <2>2. out' \in BOOLEAN
    BY Zenon DEF Returns
  <2>3. leaks' \in 0 .. runs /\ fds' \in 0 .. FdMax
    BY DEF Returns, Streams
  <2> QED
    BY <2>1, <2>2, <2>3 DEF Streams, Step
<1> SUFFICES ASSUME UInv, Archived', [Next]_vars PROVE Streams'
  OBVIOUS
<1>0. Streams /\ faults \in 0 .. MaxFaults
  BY DEF UInv, Work
<1>1. CASE UNCHANGED <<pc, ret, out, fds, runs, leaks>>
  BY <1>0, <1>1 DEF Streams
<1>2. ASSUME NEW ms, NEW a, NEW f \in May(HeaderFaults \cup {OpenFault}), OpenTar(ms, a, f)
      PROVE  Streams'
  <2> DEFINE r == mtar_read_header(Closed, f)
  <2>1. pc = "idle" /\ runs < MaxRuns /\ runs' = runs + 1 /\ UNCHANGED <<out, leaks>> /\ Counts(f)
    BY <1>2 DEF OpenTar
  <2>2. \/ ret' = "EOPENFAIL" /\ pc' = "return" /\ UNCHANGED fds
        \/ fds < FdMax /\ r'.err = "ESUCCESS" /\ pc' = "loop" /\ fds' = fds + 1 /\ ret' = ret
        \/ r'.err # "ESUCCESS" /\ pc' = "return" /\ fds' = fds /\ ret' = r'.err
    BY <1>2 DEF OpenTar
  <2>3. f \in AFault
    BY <1>0, <1>2, <2>1, FaultCounts, FaultSets
  <2>4. HeadersRead'
    BY Reads, PTL
  <2>5. Closed \in TarType
    BY DEF Closed, TarType, Word
  <2>6. r'.err \in Errors
    BY <2>3, <2>4, <2>5 DEF HeadersRead, ReadsHeader
  <2> HIDE DEF r
  <2>7. CASE ret' = "EOPENFAIL" /\ pc' = "return" /\ UNCHANGED fds
    BY <1>0, <2>1, <2>7 DEF Streams, Step, Code
  <2>8. CASE fds < FdMax /\ r'.err = "ESUCCESS" /\ pc' = "loop" /\ fds' = fds + 1 /\ ret' = ret
    BY <1>0, <2>1, <2>8 DEF Streams, Step, Code
  <2>9. CASE r'.err # "ESUCCESS" /\ pc' = "return" /\ fds' = fds /\ ret' = r'.err
    BY <1>0, <2>1, <2>6, <2>9 DEF Streams, Step, Code, Errors
  <2> QED
    BY <2>2, <2>7, <2>8, <2>9, Zenon
<1>3. ASSUME NEW f, ReadHeader(f) PROVE Streams'
  <2>1. CASE Returns("ESUCCESS", FALSE)
    BY <1>0, <1>3, <2>1, <1>ReturnStreams, Zenon DEF ReadHeader, Code
  <2>2. CASE UNCHANGED <<ret, fds, out, leaks, runs>> /\ pc' \in {"create", "skip"}
    BY <1>0, <1>3, <2>2 DEF ReadHeader, Streams, Step
  <2> QED
    BY <1>3, <2>1, <2>2, Zenon DEF ReadHeader
<1>4. ASSUME NEW f, NextMember(f) PROVE Streams'
  <2>1. pc = "next" /\ pc' = "loop" /\ UNCHANGED <<ret, fds, out, runs, leaks>>
    BY <1>4, Zenon DEF NextMember
  <2> QED
    BY <1>0, <2>1 DEF Streams, Step
<1>5. ASSUME NEW f, CreateFile(f) PROVE Streams'
  <2>1. CASE Returns("-1", TRUE)
    BY <1>0, <1>5, <2>1, <1>ReturnStreams, Zenon DEF CreateFile, Code
  <2>2. CASE fds < FdMax /\ fds' = fds + 1 /\ out' = TRUE /\ pc' = "copy" /\ UNCHANGED <<ret, leaks>>
    <3>1. out' \in BOOLEAN /\ out' = TRUE /\ pc = "create" /\ UNCHANGED runs
      BY <1>5, <2>2, Zenon DEF CreateFile
    <3> QED
      BY <1>0, <2>2, <3>1 DEF Streams, Step
  <2> QED
    BY <1>5, <2>1, <2>2, Zenon DEF CreateFile
<1>6. ASSUME NEW f \in AFault, Copy(f) \/ Skip(f) PROVE Streams'
  <2> DEFINE d == mtar_read_data(tar, SmallerOf(rest, Blk), f)
  <2>1. pc \in {"copy", "skip"} /\ UNCHANGED runs
    BY <1>6, Zenon DEF Copy, Skip
  <2>2. \/ rest > 0 /\ d.err # "ESUCCESS" /\ Returns(d.err, TRUE)
        \/ rest > 0 /\ UNCHANGED <<pc, ret, fds, out, leaks>>
        \/ pc = "copy" /\ fds' = fds - 1 /\ out' = FALSE /\ pc' = "next" /\ UNCHANGED <<ret, leaks>>
        \/ pc = "skip" /\ pc' = "next" /\ UNCHANGED <<ret, fds, out, leaks>>
    BY <1>6, Zenon DEF Copy, Skip
  <2>3. CASE rest > 0 /\ d.err # "ESUCCESS" /\ Returns(d.err, TRUE)
    <3>1. d.err \in Errors
      <4>1. d = mtar_read_data(tar, SmallerOf(rest, Blk), f) /\ rest > 0
        BY <2>3
      <4> HIDE DEF d
      <4> QED
        BY <1>6, <4>1, ReadCode, Zenon
    <3>2. d.err \in Code /\ TRUE \in BOOLEAN
      BY <3>1 DEF Errors, Code
    <3> QED
      BY <1>0, <2>1, <2>3, <3>2, <1>ReturnStreams, Zenon
  <2>4. CASE UNCHANGED <<pc, ret, fds, out, leaks>>
    BY <1>1, <2>1, <2>4
  <2>5. CASE pc = "copy" /\ fds' = fds - 1 /\ out' = FALSE /\ pc' = "next" /\ UNCHANGED <<ret, leaks>>
    <3>1. out' \in BOOLEAN /\ out' = FALSE
      BY <2>5, Zenon
    <3> QED
      BY <1>0, <2>1, <2>5, <3>1 DEF Streams, Step
  <2>6. CASE pc = "skip" /\ pc' = "next" /\ UNCHANGED <<ret, fds, out, leaks>>
    BY <1>0, <2>1, <2>6 DEF Streams, Step
  <2> QED
    BY <2>2, <2>3, <2>4, <2>5, <2>6, Zenon
<1>7. CASE Report
  BY <1>0, <1>7 DEF Report, world, Streams, Step
<1>8. CASE UNCHANGED vars
  BY <1>1, <1>8 DEF vars, world
<1>9. ASSUME NEW f \in May(DataFaults(SmallerOf(rest, Blk)) \cup WriteFaults(SmallerOf(rest, Blk))), Copy(f)
      PROVE  Streams'
  BY <1>6, <1>9, CopyFault, Zenon
<1>10. ASSUME NEW f \in May(DataFaults(SmallerOf(rest, Blk))), Skip(f) PROVE Streams'
  BY <1>6, <1>10, SkipFault, Zenon
<1> QED
  BY <1>2, <1>3, <1>4, <1>5, <1>7, <1>8, <1>9, <1>10 DEF Next, untar

\* Without a fault nothing is in doubt.
LEMMA DoubtsStep == UInv /\ Archived' /\ [Next]_vars => Doubts'
<1> SUFFICES ASSUME UInv, Archived', [Next]_vars PROVE Doubts'
  OBVIOUS
<1>0. Doubts /\ tar \in TarType /\ faults \in 0 .. MaxFaults /\ rest \in 0 .. IntMax /\ Archived
  BY DEF UInv, Work
<1>1. ASSUME UNCHANGED <<astray, mixed, holes>>, faults' = 0 => faults = 0,
             pc' \in {"create", "copy"} => h'.name \in Name
      PROVE  Doubts'
  BY <1>0, <1>1, Zenon DEF Doubts
<1>2. ASSUME NEW ms, NEW a, NEW f \in May(HeaderFaults \cup {OpenFault}), OpenTar(ms, a, f)
      PROVE  Doubts'
  <2>1. Counts(f) /\ astray' = FALSE /\ UNCHANGED <<mixed, holes>> /\ pc' \in {"loop", "return"}
    BY <1>2 DEF OpenTar
  <2>2. faults' = 0 => faults = 0
    BY <1>0, <1>2, <2>1, FaultCounts, FaultSets
  <2>3. pc' \notin {"create", "copy"}
    BY <2>1
  <2> QED
    BY <1>0, <2>1, <2>2, <2>3, Zenon DEF Doubts
<1>3. ASSUME NEW f \in May(HeaderFaults), ReadHeader(f) PROVE Doubts'
  <2> DEFINE r == mtar_read_header(tar, f)
  <2>1. /\ Counts(f) /\ UNCHANGED <<astray, mixed, holes>>
        /\ (r.err = "ESUCCESS" /\ h' = r.h) \/ pc' = "return"
    BY <1>3, Zenon DEF ReadHeader, Returns, doubt
  <2>2. (faults' = 0 => faults = 0) /\ f \in AFault
    BY <1>0, <1>3, <2>1, FaultCounts, FaultSets
  <2>3. r.err = "ESUCCESS" => r.h.name \in Name
    BY <1>0, <2>2, HeaderRead
  <2> HIDE DEF r
  <2>4. pc' \in {"create", "copy"} => h'.name \in Name
    BY <2>1, <2>3
  <2> QED
    BY <1>1, <2>1, <2>2, <2>4, Zenon
<1>4. ASSUME NEW f \in May(NextFaults), NextMember(f) PROVE Doubts'
  <2>1. Counts(f) /\ UNCHANGED <<mixed, holes>> /\ pc' = "loop"
        /\ astray' = (astray \/ mtar_next(tar, f).err = "ESEEKFAIL")
    BY <1>4 DEF NextMember
  <2>2. faults' = 0 => faults = 0 /\ f = NoFault
    BY <1>0, <1>4, <2>1, FaultCounts, FaultSets
  <2>3. f = NoFault => mtar_next(tar, f).err # "ESEEKFAIL"
    BY DEF mtar_next, mtar_seek, mtar_read_header, tread, raw_to_header, NoFault
  <2>4. pc' \notin {"create", "copy"}
    BY <2>1
  <2> QED
    BY <1>0, <2>1, <2>2, <2>3, <2>4, Zenon DEF Doubts
<1>5. ASSUME NEW f \in May({OpenFault}), CreateFile(f) PROVE Doubts'
  <2>1. Counts(f) /\ UNCHANGED <<astray, h>> /\ pc = "create" /\ (holes' = holes \/ holes' = holes \ {h.name})
        /\ mixed' \in {mixed, mixed \ {h.name}, mixed \cup {h.name}}
    BY <1>5, Zenon DEF CreateFile
  <2>2. faults' = 0 => faults = 0
    BY <1>0, <1>5, <2>1, FaultCounts, FaultSets
  <2>3. h.name \in Name /\ mixed' \subseteq Name /\ holes' \subseteq holes
    BY <1>0, <2>1 DEF Doubts
  <2>4. holes' \subseteq Name /\ (faults' = 0 => ~ astray /\ holes' = {}) /\ h'.name \in Name
    BY <1>0, <2>1, <2>2, <2>3 DEF Doubts
  <2> QED
    BY <1>0, <2>1, <2>3, <2>4, Zenon DEF Doubts
<1>6. ASSUME NEW f \in May(DataFaults(SmallerOf(rest, Blk)) \cup WriteFaults(SmallerOf(rest, Blk))), Copy(f)
      PROVE  Doubts'
  <2> DEFINE size == SmallerOf(rest, Blk)
             stored == IF f.call = "fwrite" THEN f.moved ELSE size
  <2>1. /\ pc = "copy" /\ UNCHANGED <<h, astray, mixed>> /\ size \in Nat
        /\ holes' = holes \/ (rest > 0 /\ stored < size /\ holes' = holes \cup {h.name})
    <3>1. size \in Nat
      BY <1>0 DEF SmallerOf
    <3> QED
      BY <1>6, <3>1, Zenon DEF Copy
  <2>2. /\ faults' = faults \/ (f # NoFault /\ faults' = faults + 1)
        /\ rest > 0 => faults' = IF f = NoFault THEN faults ELSE faults + 1
    BY <1>6, CopyFault, Zenon
  <2>3. f = NoFault => stored = size
    BY DEF NoFault
  <2> HIDE DEF size, stored
  <2>4. h.name \in Name /\ holes' \subseteq Name /\ h'.name \in Name
    BY <1>0, <2>1 DEF Doubts
  <2>5. faults' = 0 => faults = 0 /\ holes' = holes
    BY <1>0, <2>1, <2>2, <2>3
  <2> QED
    BY <1>0, <2>1, <2>4, <2>5, Zenon DEF Doubts
<1>7. ASSUME NEW f \in May(DataFaults(SmallerOf(rest, Blk))), Skip(f) PROVE Doubts'
  <2>1. UNCHANGED <<astray, mixed, holes>> /\ pc' \in {"skip", "next", "return"}
    BY <1>7, Zenon DEF Skip, Returns, doubt
  <2>2. faults' = faults \/ faults' = faults + 1
    BY <1>7, SkipFault, Zenon
  <2>3. (faults' = 0 => faults = 0) /\ pc' \notin {"create", "copy"}
    BY <1>0, <2>1, <2>2
  <2> QED
    BY <1>1, <2>1, <2>3, Zenon
<1>8. CASE Report \/ UNCHANGED vars
  <2>1. UNCHANGED <<astray, mixed, holes, faults, h>> /\ (pc' = "idle" \/ pc' = pc)
    BY <1>8, Zenon DEF Report, vars, world, doubt
  <2>2. pc' \in {"create", "copy"} => h'.name \in Name
    BY <1>0, <2>1 DEF Doubts
  <2> QED
    BY <1>1, <2>1, <2>2, Zenon
<1> QED
  BY <1>2, <1>3, <1>4, <1>5, <1>6, <1>7, <1>8 DEF Next, untar

-----------------------------------------------------------------------------
(* The files. *)

\* What a copy has written: bytes of the member in their order, and all that was read of
\* it unless a write failed.  After a failed seek of mtar_next it may be another's.
Written ==
    pc = "copy" =>
        /\ astray => h.name \in mixed
        /\ ~ astray => /\ InOrder(files[h.name], h.name, h.size - rest)
                       /\ h.name \notin holes => files[h.name] = SubSeq(Content(h), 1, h.size - rest)

\* A prefix of a member, and what a read that continues it makes of it.
LEMMA Prefixes ==
    ASSUME NEW m \in Member, NEW n \in 0 .. m.size
    PROVE  /\ Len(SubSeq(Content(m), 1, n)) = n
           /\ SubSeq(Content(m), 1, 0) = <<>>
           /\ SubSeq(Content(m), 1, m.size) = Content(m)
           /\ \A k \in 0 .. m.size - n :
                 SubSeq(Content(m), 1, n) \o SubSeq(Content(m), n + 1, n + k) = SubSeq(Content(m), 1, n + k)
<1> DEFINE c == Content(m)
<1>1. c \in Seq(AByte) /\ Len(c) = m.size /\ m.size \in Nat /\ n \in Nat
  BY ContentBytes DEF Member
<1> HIDE DEF c
<1>2. Len(SubSeq(c, 1, n)) = n /\ SubSeq(c, 1, 0) = <<>> /\ SubSeq(c, 1, m.size) = c
  BY <1>1
<1>3. ASSUME NEW k \in 0 .. m.size - n
      PROVE  SubSeq(c, 1, n) \o SubSeq(c, n + 1, n + k) = SubSeq(c, 1, n + k)
  <2> DEFINE a == SubSeq(c, 1, n)
             b == SubSeq(c, n + 1, n + k)
             d == SubSeq(c, 1, n + k)
  <2>1. k \in Nat /\ n + k <= m.size
    BY <1>1
  <2>2. a \in Seq(AByte) /\ Len(a) = n /\ \A i \in 1 .. n : a[i] = c[i]
    BY <1>1
  <2>3. b \in Seq(AByte) /\ Len(b) = k /\ \A i \in 1 .. k : b[i] = c[n + i]
    BY <1>1, <2>1
  <2>4. d \in Seq(AByte) /\ Len(d) = n + k /\ \A i \in 1 .. n + k : d[i] = c[i]
    BY <1>1, <2>1
  <2> HIDE DEF a, b, d
  <2>5. /\ a \o b \in Seq(AByte) /\ Len(a \o b) = n + k
        /\ \A i \in 1 .. n + k : (a \o b)[i] = IF i <= n THEN a[i] ELSE b[i - n]
    <3>1. a \in Seq(AByte) /\ b \in Seq(AByte) /\ Len(a) = n /\ Len(b) = k
      BY <2>2, <2>3
    <3>2. /\ a \o b \in Seq(AByte) /\ Len(a \o b) = Len(a) + Len(b)
          /\ \A i \in 1 .. Len(a) + Len(b) : (a \o b)[i] = IF i <= Len(a) THEN a[i] ELSE b[i - Len(a)]
      BY ONLY <3>1, Joined, Zenon
    <3> QED
      BY ONLY <3>1, <3>2, Zenon
  <2>6. ASSUME NEW i \in 1 .. n + k PROVE (a \o b)[i] = d[i]
    <3>1. CASE i <= n
      <4>1. i \in 1 .. n
        BY <3>1
      <4>2. (a \o b)[i] = a[i]
        BY <2>5, <3>1
      <4> QED
        BY <2>2, <2>4, <4>1, <4>2
    <3>2. CASE i > n
      <4> DEFINE j == i - n
      <4>1. j \in 1 .. k /\ n + j = i /\ ~ (i <= n)
        BY <1>1, <2>1, <3>2
      <4>2. (a \o b)[i] = b[j]
        BY <2>5, <4>1
      <4> HIDE DEF j
      <4>3. b[j] = c[n + j]
        BY <2>3, <4>1
      <4> QED
        BY <2>4, <4>1, <4>2, <4>3
    <3>3. i <= n \/ i > n
      BY <1>1, <2>1
    <3> QED
      BY <3>1, <3>2, <3>3, Zenon
  <2>7. a \o b = d
    <3>1. /\ a \o b \in Seq(AByte) /\ d \in Seq(AByte) /\ Len(a \o b) = Len(d)
          /\ \A i \in 1 .. Len(a \o b) : (a \o b)[i] = d[i]
      BY <2>4, <2>5, <2>6, Zenon
    <3> QED
      BY <3>1, SameSeq, Zenon
  <2> QED
    BY <2>7 DEF a, b, d
<1> QED
  BY <1>2, <1>3 DEF c

\* More bytes of a member are still in order.
LEMMA InOrderMore ==
    ASSUME NEW s, NEW x, NEW n \in Nat, NEW k \in Nat, n <= k, InOrder(s, x, n)
    PROVE  InOrder(s, x, k)
<1>1. s \in Seq({x} \X (1 .. n)) /\ \A i, l \in 1 .. Len(s) : i < l => s[i][2] < s[l][2]
  BY Zenon DEF InOrder
<1>2. ASSUME NEW b \in {x} \X (1 .. n) PROVE b \in {x} \X (1 .. k)
  <2>1. b = <<b[1], b[2]>> /\ b[1] \in {x} /\ b[2] \in 1 .. n
    OBVIOUS
  <2>2. b[2] \in 1 .. k
    BY <2>1
  <2> QED
    BY <2>1, <2>2
<1> DEFINE S == {x} \X (1 .. n)
           T == {x} \X (1 .. k)
<1>3. s \in Seq(S) /\ \A b \in S : b \in T
  BY <1>1, <1>2
<1> HIDE DEF S, T
<1>4. s \in Seq(T)
  BY <1>3
<1> QED
  BY <1>1, <1>4 DEF InOrder, T

\* After the first n bytes of m, of which s are stored, a read brings d, the next ones.
Continues(s, d, m, n, size) ==
    /\ m \in Member /\ n \in Nat /\ size \in Nat /\ n + size <= m.size
    /\ InOrder(s, m.name, n) /\ d = SubSeq(Content(m), n + 1, n + size)

\* Whatever part of that is stored, the bytes stay in order.
LEMMA AppendInOrder ==
    ASSUME NEW s, NEW d, NEW m, NEW n, NEW size, Continues(s, d, m, n, size)
    PROVE  \A k \in 0 .. size : /\ InOrder(s \o SubSeq(d, 1, k), m.name, n + size)
                                /\ SubSeq(d, 1, size) = d
<1> SUFFICES ASSUME NEW k \in 0 .. size
             PROVE  InOrder(s \o SubSeq(d, 1, k), m.name, n + size) /\ SubSeq(d, 1, size) = d
  OBVIOUS
<1>0. /\ m \in Member /\ n \in Nat /\ size \in Nat /\ n + size <= m.size
      /\ InOrder(s, m.name, n) /\ d = SubSeq(Content(m), n + 1, n + size)
  BY Zenon DEF Continues
<1> USE <1>0
<1> DEFINE x == m.name
           to == n + size
           S == {x} \X (1 .. to)
           t == SubSeq(d, 1, k)
<1>1. d \in Seq(AByte) /\ Len(d) = size /\ \A i \in 1 .. size : d[i] = <<x, n + i>>
  <2>1. /\ SubSeq(Content(m), n + 1, n + size) \in Seq(AByte)
        /\ Len(SubSeq(Content(m), n + 1, n + size)) = size
        /\ \A i \in 1 .. size : SubSeq(Content(m), n + 1, n + size)[i] = <<m.name, n + i>>
    BY PartOfContent, Zenon
  <2> QED
    BY <2>1, Zenon
<1>2. to \in Nat /\ n <= to
  OBVIOUS
<1>3. SubSeq(d, 1, size) = d
  BY <1>1
<1>4. InOrder(s, x, to)
  BY <1>2, InOrderMore
<1>5. s \in Seq(S) /\ (\A i, l \in 1 .. Len(s) : i < l => s[i][2] < s[l][2]) /\ Len(s) \in Nat
  BY <1>4 DEF InOrder
<1>6. \A i \in 1 .. Len(s) : s[i][2] \in 1 .. n
  <2>1. s \in Seq({x} \X (1 .. n))
    BY Zenon DEF InOrder
  <2> QED
    BY <2>1
<1>7. ASSUME NEW i \in 1 .. k PROVE d[i] = <<x, n + i>> /\ <<x, n + i>> \in S
  <2>1. i \in 1 .. size /\ n + i \in 1 .. to
    OBVIOUS
  <2>2. <<x, n + i>> \in S
    <3> DEFINE y == n + i
    <3>1. y \in 1 .. to
      BY <2>1
    <3> HIDE DEF y, to, x
    <3>2. <<x, y>> \in {x} \X (1 .. to)
      BY <3>1
    <3> QED
      BY <3>2, Zenon DEF y
  <2> QED
    BY <1>1, <2>1, <2>2, Zenon
<1>8. t \in Seq(S) /\ Len(t) = k /\ \A i \in 1 .. k : t[i] = <<x, n + i>>
  <2> HIDE DEF S
  <2>1. 1 \in Int /\ k \in Int /\ \A i \in 1 .. k : d[i] \in S
    <3>1. \A i \in 1 .. k : d[i] \in S
      BY <1>7, Zenon
    <3> QED
      BY <3>1
  <2>2. /\ t \in Seq(S) /\ Len(t) = IF 1 <= k THEN k - 1 + 1 ELSE 0
        /\ \A i \in 1 .. k - 1 + 1 : t[i] = d[1 + i - 1]
    BY ONLY <2>1, Part
  <2> HIDE DEF t
  <2>3. Len(t) = k
    BY <2>2
  <2>4. ASSUME NEW i \in 1 .. k PROVE t[i] = <<x, n + i>>
    <3>1. i \in 1 .. k - 1 + 1 /\ 1 + i - 1 = i
      OBVIOUS
    <3>2. t[i] = d[i]
      BY <2>2, <3>1
    <3> QED
      BY <1>7, <3>2, Zenon
  <2> QED
    BY <2>2, <2>3, <2>4
<1> DEFINE c == s \o t
<1> HIDE DEF S, t
<1>9. /\ c \in Seq(S) /\ Len(c) = Len(s) + Len(t)
      /\ \A i \in 1 .. Len(s) + Len(t) : c[i] = IF i <= Len(s) THEN s[i] ELSE t[i - Len(s)]
  <2>1. s \in Seq(S) /\ t \in Seq(S)
    BY <1>5, <1>8
  <2> QED
    BY ONLY <2>1, Joined, Zenon
<1> HIDE DEF c
<1> DEFINE w == Len(s)
<1>10. w \in Nat /\ w = Len(s)
  BY <1>5
<1> HIDE DEF w, x
<1>11. ASSUME NEW i \in 1 .. w PROVE c[i] = s[i] /\ s[i][2] \in 1 .. n
  <2>1. i \in 1 .. Len(s) + Len(t) /\ i <= Len(s)
    BY <1>8, <1>10
  <2> QED
    BY <1>6, <1>9, <1>10, <2>1
<1>12. ASSUME NEW i \in w + 1 .. w + k PROVE c[i][2] = n + i - w
  <2> DEFINE g == i - w
  <2>1. g \in 1 .. k /\ g = i - Len(s) /\ i \in 1 .. Len(s) + Len(t) /\ ~ (i <= Len(s)) /\ n + g = n + i - w
    BY <1>8, <1>10
  <2> HIDE DEF g
  <2>2. c[i] = t[g]
    BY <1>9, <2>1
  <2>3. t[g] = <<x, n + g>>
    BY <1>8, <2>1
  <2> QED
    BY <2>1, <2>2, <2>3
<1>13. ASSUME NEW i \in 1 .. w + k, NEW l \in 1 .. w + k, i < l PROVE c[i][2] < c[l][2]
  <2>1. CASE l <= w
    <3>1. i \in 1 .. w /\ l \in 1 .. w
      BY <1>10, <1>13, <2>1
    <3>2. c[i] = s[i] /\ c[l] = s[l]
      BY <1>11, <3>1
    <3> QED
      BY <1>5, <1>10, <1>13, <3>1, <3>2
  <2>2. CASE i <= w /\ l > w
    <3>1. i \in 1 .. w /\ l \in w + 1 .. w + k
      BY <1>10, <1>13, <2>2
    <3>2. c[i][2] \in 1 .. n /\ c[l][2] = n + l - w
      BY <1>11, <1>12, <3>1
    <3> QED
      BY <1>10, <3>1, <3>2
  <2>3. CASE i > w
    <3>1. i \in w + 1 .. w + k /\ l \in w + 1 .. w + k
      BY <1>10, <1>13, <2>3
    <3>2. c[i][2] = n + i - w /\ c[l][2] = n + l - w
      BY <1>12, <3>1
    <3> QED
      BY <1>10, <1>13, <3>1, <3>2
  <2>4. l <= w \/ (i <= w /\ l > w) \/ i > w
    BY <1>10
  <2> QED
    BY <2>1, <2>2, <2>3, <2>4, Zenon
<1>14. Len(c) = w + k
  BY <1>8, <1>9, <1>10
<1>15. InOrder(c, x, to)
  BY <1>9, <1>13, <1>14, Zenon DEF InOrder, S
<1> QED
  BY <1>3, <1>15 DEF c, t, x

\* The file x holds bytes of one member, and a prefix of it unless a write failed.
HoldsMember(x) ==
    \E ms \in Packages : \E i \in Regular(ms) :
        /\ ms[i].name = x
        /\ InOrder(files[x], x, ms[i].size)
        /\ x \notin holes => files[x] = SubSeq(Content(ms[i]), 1, Len(files[x]))

\* A step that writes one file.
LEMMA PrefixNext ==
    ASSUME FilesArePrefixes, DOMAIN files = Name, NEW x \in Name, NEW v,
           files' = [files EXCEPT ![x] = v],
           \A y \in Name \ {x} : (y \in mixed' <=> y \in mixed) /\ (y \in holes' <=> y \in holes),
           x \in mixed' \/ HoldsMember(x)'
    PROVE  FilesArePrefixes'
<1>1. ASSUME NEW y \in Name \ mixed', files'[y] # NoFile PROVE HoldsMember(y)'
  <2>1. CASE y = x
    BY <1>1, <2>1, Zenon
  <2>2. CASE y # x
    <3>1. files'[y] = files[y] /\ y \in Name \ mixed /\ (y \in holes' <=> y \in holes)
      BY <1>1, <2>2
    <3>2. HoldsMember(y)
      BY <1>1, <3>1, Zenon DEF FilesArePrefixes, HoldsMember
    <3> QED
      BY <3>1, <3>2, Zenon DEF HoldsMember
  <2> QED
    BY <2>1, <2>2
<1> QED
  BY <1>1, Zenon DEF FilesArePrefixes, HoldsMember

\* What a member that is copied is.
LEMMA Copied ==
    ASSUME UInv, ~ astray, pc \in {"create", "copy"}
    PROVE  \E j \in Regular(members), q \in Nat :
              /\ j \in 1 .. Len(members) /\ members[j] \in Member /\ members \in Packages
              /\ h = HeaderBlock(members[j])
              /\ h.name = members[j].name /\ h.size = members[j].size
              /\ Content(h) = Content(members[j])
              /\ Stands(tar, rest, members[j], q) /\ rest <= members[j].size
              /\ pc = "create" => rest = members[j].size
<1>1. PICK j \in 1 .. Len(members), q \in Nat :
         /\ h = HeaderBlock(members[j]) /\ Stands(tar, rest, members[j], q) /\ rest <= h.size
         /\ (pc = "create" => rest = h.size) /\ h.type = "TREG"
  BY DEF UInv, Position
<1>2. members[j] \in Member /\ members \in Packages
  <2>1. members[j] \in Member
    BY ArchiveType DEF UInv
  <2>2. members # <<>>
    BY <1>1
  <2> QED
    BY <2>1, <2>2 DEF UInv, Archived
<1> DEFINE m == members[j]
<1>3. h.name = m.name /\ h.size = m.size /\ h.type = m.type
  BY <1>1 DEF HeaderBlock
<1>4. Content(h) = Content(m)
  BY <1>3 DEF Content
<1>5. j \in Regular(members)
  BY <1>1, <1>3 DEF Regular
<1> QED
  BY <1>1, <1>2, <1>3, <1>4, <1>5

\* Every step keeps what is written.
LEMMA WrittenStep ==
    ASSUME UInv, Written, FilesArePrefixes, [Next]_vars PROVE Written' /\ FilesArePrefixes'
<1>0. DOMAIN files = Name /\ rest \in 0 .. IntMax /\ (pc \in {"create", "copy"} => h.name \in Name)
  BY DEF UInv, Work, Doubts
\* A step that leaves the files and what is copied alone.
<1>Same. ASSUME UNCHANGED <<files, mixed, holes>>, pc' = "copy" => pc = "copy" /\ UNCHANGED <<h, rest, astray>>
         PROVE  Written' /\ FilesArePrefixes'
  <2> USE <1>Same
  <2>1. FilesArePrefixes'
    BY Zenon DEF FilesArePrefixes
  <2>2. CASE pc' = "copy"
    <3>1. Content(h)' = Content(h)
      BY <2>2 DEF Content
    <3>2. /\ pc = "copy" /\ astray' = astray /\ mixed' = mixed /\ holes' = holes /\ files' = files
          /\ h' = h /\ rest' = rest
      BY <2>2
    <3>3. Written'
      BY <3>1, <3>2, Zenon DEF Written
    <3> QED
      BY <2>1, <3>3
  <2>3. CASE pc' # "copy"
    BY <2>1, <2>3, Zenon DEF Written
  <2> QED
    BY <2>2, <2>3, Zenon
\* A pass of the copying loop.
<1>CopyStep. ASSUME rest > 0, NEW f \in May(DataFaults(SmallerOf(rest, Blk)) \cup WriteFaults(SmallerOf(rest, Blk))),
                    Copy(f)
             PROVE  Written' /\ FilesArePrefixes'
  <2> USE <1>CopyStep
  <2> DEFINE size == SmallerOf(rest, Blk)
             d == mtar_read_data(tar, SmallerOf(rest, Blk), f)
             stored == IF f.call = "fwrite" THEN f.moved ELSE size
             v == files[h.name] \o SubSeq(d.data, 1, stored)
  <2>1. /\ pc = "copy" /\ UNCHANGED <<members, archive, h, astray, mixed>>
        /\ \/ /\ d.err = "ESUCCESS" /\ rest' = rest - size /\ pc' = pc
              /\ files' = [files EXCEPT ![h.name] = v]
              /\ holes' = IF stored < size THEN holes \cup {h.name} ELSE holes
           \/ d.err # "ESUCCESS" /\ pc' = "return" /\ UNCHANGED <<files, rest, holes>>
    <3>1. rest # 0
      BY <1>0
    <3> QED
      BY <3>1, Zenon DEF Copy, Returns
  <2>2. d = mtar_read_data(tar, SmallerOf(rest, Blk), f) /\ h.name \in Name
    BY <1>0, <2>1
  <2>3. f \in AFault /\ size \in Nat /\ stored \in 0 .. size /\ size <= rest /\ size = SmallerOf(rest, Blk)
    <3>1. f \in AFault /\ (f.call = "fwrite" => f.moved \in 0 .. SmallerOf(rest, Blk) - 1)
      BY CopyFault, Zenon
    <3>2. size \in Nat /\ size <= rest
      BY <1>0 DEF SmallerOf
    <3> QED
      BY <3>1, <3>2
  <2> HIDE DEF d, size, stored
  <2>4. CASE d.err # "ESUCCESS"
    <3>1. UNCHANGED <<files, mixed, holes>> /\ pc' # "copy"
      BY <2>1, <2>4
    <3> QED
      BY <3>1, <1>Same, Zenon
  <2>5. CASE d.err = "ESUCCESS"
    <3>1. /\ files' = [files EXCEPT ![h.name] = v] /\ rest' = rest - size /\ pc' = pc
          /\ holes' = IF stored < size THEN holes \cup {h.name} ELSE holes
      BY <2>1, <2>5, Zenon
    <3>2. /\ \A y \in Name \ {h.name} : (y \in mixed' <=> y \in mixed) /\ (y \in holes' <=> y \in holes)
          /\ h.name \notin holes' => h.name \notin holes /\ ~ (stored < size)
      <4>1. mixed' = mixed
        BY <2>1
      <4>2. CASE stored < size
        BY <3>1, <4>1, <4>2
      <4>3. CASE ~ (stored < size)
        BY <3>1, <4>1, <4>3
      <4> QED
        BY <4>2, <4>3, Zenon
    <3> HIDE DEF v
    <3>3. files'[h.name] = v /\ h' = h
      BY <1>0, <2>1, <2>2, <3>1
    <3>4. CASE astray
      <4>1. h.name \in mixed' /\ h'.name = h.name /\ astray' = astray
        BY <2>1, <3>4 DEF Written
      <4>2. FilesArePrefixes'
        BY <1>0, <2>2, <3>1, <3>2, <4>1, PrefixNext, Zenon
      <4>3. Written'
        BY <3>4, <4>1, Zenon DEF Written
      <4> QED
        BY <4>2, <4>3
    <3>5. CASE ~ astray
      <4>1. PICK j \in Regular(members), q \in Nat :
               /\ j \in 1 .. Len(members) /\ members[j] \in Member /\ members \in Packages
               /\ h.name = members[j].name /\ h.size = members[j].size
               /\ Content(h) = Content(members[j])
               /\ Stands(tar, rest, members[j], q) /\ rest <= members[j].size
        BY <2>1, <3>5, Copied
      <4> DEFINE m == members[j]
                 done == m.size - rest
      <4>2. m \in Member /\ m.size \in Nat /\ done \in Nat /\ done + size <= m.size /\ done + size \in Nat
            /\ rest \in Nat /\ m.size - (rest - size) = done + size
        BY <1>0, <2>3, <4>1 DEF Member
      <4>3. d.data = SubSeq(Content(m), done + 1, done + size)
        <5>1. Passes(d, rest, SmallerOf(rest, Blk), members[j], q)
          BY <2>2, <2>3, <2>5, <4>1, ReadCode, Zenon
        <5> QED
          BY <2>3, <5>1 DEF Passes
      <4>4. /\ InOrder(files[h.name], h.name, h.size - rest)
            /\ h.name \notin holes => files[h.name] = SubSeq(Content(h), 1, h.size - rest)
        BY <2>1, <3>5, Zenon DEF Written
      <4>5. /\ InOrder(files[h.name], m.name, done)
            /\ h.name \notin holes => files[h.name] = SubSeq(Content(m), 1, done)
        BY <4>1, <4>4, Zenon
      <4> HIDE DEF m, done
      <4>6. InOrder(v, m.name, done + size) /\ SubSeq(d.data, 1, size) = d.data
        <5> DEFINE s == files[h.name]
                   data == d.data
        <5>1. /\ m \in Member /\ done \in Nat /\ size \in Nat /\ done + size <= m.size
              /\ InOrder(s, m.name, done) /\ stored \in 0 .. size
              /\ data = SubSeq(Content(m), done + 1, done + size)
          BY <2>3, <4>2, <4>3, <4>5
        <5>3. Continues(s, data, m, done, size)
          BY <5>1, Zenon DEF Continues
        <5> HIDE DEF s, data
        <5>2. \A k \in 0 .. size : /\ InOrder(s \o SubSeq(data, 1, k), m.name, done + size)
                                   /\ SubSeq(data, 1, size) = data
          BY ONLY <5>3, AppendInOrder, Zenon
        <5> QED
          BY <5>1, <5>2, Zenon DEF v, s, data
      <4>7. h.name \notin holes' => v = SubSeq(Content(m), 1, done + size)
        <5> SUFFICES ASSUME h.name \notin holes' PROVE v = SubSeq(Content(m), 1, done + size)
          OBVIOUS
        <5>1. stored = size
          BY <2>3, <3>2
        <5>2. v = SubSeq(Content(m), 1, done) \o SubSeq(Content(m), done + 1, done + size)
          BY <3>2, <4>3, <4>5, <4>6, <5>1, Zenon DEF v
        <5>3. done \in 0 .. m.size /\ size \in 0 .. m.size - done
          BY <2>3, <4>2
        <5> QED
          BY <4>2, <5>2, <5>3, Prefixes
      <4>8. h'.size - rest' = done + size /\ h'.name = h.name /\ h.name = m.name /\ Content(h)' = Content(m)
        <5>1. Content(h)' = Content(h)
          BY <3>3 DEF Content
        <5>2. h.size = m.size /\ h.name = m.name /\ Content(h) = Content(m)
          BY <4>1 DEF m
        <5> QED
          BY <3>1, <3>3, <4>2, <5>1, <5>2
      <4>9. Written'
        <5>1. astray' = astray /\ pc' = "copy"
          BY <2>1, <3>1
        <5> QED
          BY <3>3, <3>5, <4>6, <4>7, <4>8, <5>1, Zenon DEF Written
      <4>10. HoldsMember(h.name)'
        <5>1. InOrder(v, m.name, m.size)
          BY <4>2, <4>6, InOrderMore
        <5>2. h.name \notin holes' => v = SubSeq(Content(m), 1, Len(v))
          <6>1. done + size \in 0 .. m.size
            BY <4>2
          <6>2. Len(SubSeq(Content(m), 1, done + size)) = done + size
            BY <4>2, <6>1, Prefixes
          <6> QED
            BY <4>7, <6>2, Zenon
        <5>3. members[j].name = h.name /\ InOrder(files'[h.name], h.name, members[j].size)
              /\ (h.name \notin holes' => files'[h.name] = SubSeq(Content(members[j]), 1, Len(files'[h.name])))
          BY <3>3, <4>8, <5>1, <5>2, Zenon DEF m
        <5> QED
          BY <3>3, <4>1, <5>3, Zenon DEF HoldsMember
      <4>11. FilesArePrefixes'
        BY <1>0, <2>2, <3>1, <3>2, <3>3, <4>10, PrefixNext, Zenon
      <4> QED
        BY <4>9, <4>11
    <3> QED
      BY <3>4, <3>5
  <2> QED
    BY <2>4, <2>5
<1>1. ASSUME NEW ms, NEW a, NEW f, OpenTar(ms, a, f) PROVE Written' /\ FilesArePrefixes'
  <2>1. pc' # "copy" /\ UNCHANGED <<files, mixed, holes>>
    BY <1>1 DEF OpenTar
  <2> QED
    BY <2>1, <1>Same, Zenon
<1>2. ASSUME NEW f, ReadHeader(f) \/ NextMember(f) \/ Skip(f) PROVE Written' /\ FilesArePrefixes'
  <2>1. pc' # "copy" /\ UNCHANGED <<files, mixed, holes>>
    BY <1>2 DEF ReadHeader, NextMember, Skip, Returns, doubt
  <2> QED
    BY <2>1, <1>Same, Zenon
<1>4. ASSUME NEW f, CreateFile(f) PROVE Written' /\ FilesArePrefixes'
  <2>0. pc = "create" /\ UNCHANGED <<h, rest, astray>> /\ h.name \in Name
    BY <1>0, <1>4 DEF CreateFile
  <2>1. CASE pc' = "copy"
    <3>1. /\ files' = [files EXCEPT ![h.name] = <<>>]
          /\ mixed' = IF astray THEN mixed \cup {h.name} ELSE mixed \ {h.name}
          /\ holes' = holes \ {h.name}
      BY <1>4, <2>1 DEF CreateFile, Returns
    <3>2. \A y \in Name \ {h.name} : (y \in mixed' <=> y \in mixed) /\ (y \in holes' <=> y \in holes)
      BY <3>1
    <3>3. files'[h.name] = <<>>
      BY <1>0, <2>0, <3>1
    <3>4. CASE astray
      <4>1. h.name \in mixed' /\ h'.name = h.name /\ astray' = astray
        BY <2>0, <3>1, <3>4
      <4>2. FilesArePrefixes'
        BY <1>0, <2>0, <3>1, <3>2, <4>1, PrefixNext, Zenon
      <4>3. Written'
        BY <3>4, <4>1, Zenon DEF Written
      <4> QED
        BY <4>2, <4>3
    <3>5. CASE ~ astray
      <4>1. PICK j \in Regular(members) :
               /\ members[j] \in Member /\ members \in Packages
               /\ h.name = members[j].name /\ h.size = members[j].size
               /\ Content(h) = Content(members[j]) /\ rest = members[j].size
        BY <2>0, <3>5, Copied
      <4>2. members[j].size \in Nat
        BY <4>1 DEF Member
      <4>3. SubSeq(Content(members[j]), 1, 0) = <<>> /\ Len(<<>>) = 0
        <5>1. 0 \in 0 .. members[j].size
          BY <4>2
        <5> QED
          BY <4>1, <5>1, Prefixes
      <4>4. \A x, n : InOrder(<<>>, x, n)
        BY DEF InOrder
      <4>5. Content(h)' = Content(h)
        BY <2>0 DEF Content
      <4>6. h'.size - rest' = 0 /\ h' = h /\ astray' = astray
        BY <2>0, <4>1, <4>2
      <4>7. Written'
        BY <3>3, <3>5, <4>1, <4>3, <4>4, <4>5, <4>6, Zenon DEF Written
      <4>8. HoldsMember(h.name)'
        BY <3>3, <4>1, <4>3, <4>4, <4>6, Zenon DEF HoldsMember
      <4>9. FilesArePrefixes'
        BY <1>0, <2>0, <3>1, <3>2, <4>6, <4>8, PrefixNext, Zenon
      <4> QED
        BY <4>7, <4>9
    <3> QED
      BY <3>4, <3>5
  <2>2. CASE pc' # "copy"
    <3>1. UNCHANGED <<files, mixed, holes>>
      BY <1>4, <2>2, Zenon DEF CreateFile
    <3> QED
      BY <2>2, <3>1, <1>Same, Zenon
  <2> QED
    BY <2>1, <2>2
<1>5. ASSUME NEW f \in May(DataFaults(SmallerOf(rest, Blk)) \cup WriteFaults(SmallerOf(rest, Blk))), Copy(f)
      PROVE  Written' /\ FilesArePrefixes'
  <2>1. CASE rest = 0
    <3>1. pc' # "copy" /\ UNCHANGED <<files, mixed, holes>>
      BY <1>5, <2>1 DEF Copy
    <3> QED
      BY <3>1, <1>Same, Zenon
  <2>2. CASE rest > 0
    BY <1>5, <2>2, <1>CopyStep
  <2> QED
    BY <1>0, <2>1, <2>2
<1>7. CASE Report \/ UNCHANGED vars
  <2>1. UNCHANGED <<files, mixed, holes, h, rest, astray>> /\ (pc' = "copy" => pc = "copy")
    BY <1>7, Zenon DEF Report, vars, world, doubt
  <2> QED
    BY <2>1, <1>Same, Zenon
<1> QED
  BY <1>1, <1>2, <1>4, <1>5, <1>7, Zenon DEF Next, untar

-----------------------------------------------------------------------------
(* The theorems. *)

\* The invariant of archive, microtar and streams: whatever calls fail and whatever
\* the archive holds, microtar stands in the data of the member untar works on, unless
\* a seek of mtar_next failed.
THEOREM UntarInvariant == Spec => []UInv
<1>1. Init => UInv
  <2> SUFFICES ASSUME Init PROVE UInv
    OBVIOUS
  <2>1. Archived /\ Position
    BY DEF Init, Archived, Holds, Position
  <2>2. Work
    BY DEF Init, Work, Closed, TarType, NoHeader, Word
  <2>3. Streams
    <3>1. out \in BOOLEAN /\ out = FALSE
      BY Zenon DEF Init
    <3> QED
      BY <3>1 DEF Init, Streams, Step, Code
  <2>4. Doubts
    <3>1. astray \in BOOLEAN /\ ~ astray /\ mixed \subseteq Name /\ holes \subseteq Name /\ holes = {}
      BY Zenon DEF Init
    <3>2. pc \notin {"create", "copy"}
      BY DEF Init
    <3> QED
      BY <3>1, <3>2, Zenon DEF Doubts
  <2> QED
    BY <2>1, <2>2, <2>3, <2>4 DEF UInv
<1>2. UInv /\ [Next]_vars => UInv'
  <2> SUFFICES ASSUME UInv, [Next]_vars PROVE UInv'
    OBVIOUS
  <2>1. Archived'
    BY AllLayouts, ArchivedStep DEF UInv
  <2> QED
    BY <2>1, WorkStep, StreamsStep, DoubtsStep, Zenon DEF UInv
<1> QED
  BY <1>1, <1>2, PTL DEF Spec

\* Every path of untar closes the output file; between commands exactly the archives of
\* its early returns are open.  While untar reads a member, microtar's unsigned count is
\* 0 or what untar still wants, unless a seek of mtar_next failed.
THEOREM NoOtherLeak == Spec => []StreamsAccounted
<1>1. UInv => StreamsAccounted
  <2> SUFFICES ASSUME UInv PROVE StreamsAccounted
    OBVIOUS
  <2>1. TypeOK
    <3>1. out \in BOOLEAN /\ astray \in BOOLEAN /\ mixed \subseteq Name /\ holes \subseteq Name
      BY Zenon DEF UInv, Doubts, Streams
    <3>2. /\ tar \in [pos : Nat, last_header : Nat, remaining_data : 0 .. Word - 1, fpos : Nat]
          /\ rest \in 0 .. IntMax /\ h.size \in 0 .. IntMax
          /\ DOMAIN files = Name /\ faults \in 0 .. MaxFaults
      BY DEF UInv, Work, TarType
    <3>3. pc \in Step /\ ret \in Code /\ fds \in 0 .. FdMax /\ runs \in 0 .. MaxRuns /\ leaks \in 0 .. MaxRuns
      BY DEF UInv, Streams
    <3> QED
      BY <3>1, <3>2, <3>3, Zenon DEF TypeOK, Step, Code
  <2>2. /\ pc \in {"idle", "return"} => fds = leaks /\ ~ out
        /\ pc \notin {"idle", "return"} => fds = leaks + 1 + (IF out THEN 1 ELSE 0)
    BY DEF UInv, Streams
  <2>3. ASSUME ~ astray, pc \in {"create", "copy", "skip"}
        PROVE  tar.remaining_data \in {0, rest} /\ (pc = "create" => tar.remaining_data = 0)
    <3>1. PICK j \in 1 .. Len(members), q \in Nat :
             Stands(tar, rest, members[j], q) /\ (pc = "create" => tar.remaining_data = 0)
      BY <2>3 DEF UInv, Position
    <3> QED
      BY <3>1 DEF Stands, AtHeader, InData
  <2>4. ~ astray /\ pc \in {"loop", "next"} => tar.remaining_data = 0
    BY DEF UInv, Position
  <2>5. ~ astray /\ pc \in {"copy", "skip"} => tar.remaining_data \in {0, rest}
    BY <2>3
  <2>6. ~ astray /\ pc \in {"loop", "create", "next"} => tar.remaining_data = 0
    BY <2>3, <2>4
  <2> QED
    BY <2>1, <2>2, <2>5, <2>6, Zenon DEF StreamsAccounted
<1> QED
  BY <1>1, UntarInvariant, PTL

\* Whatever calls fail and whatever the archive lost: a file made while microtar was not
\* astray holds bytes of one regular member of its name in their order, and a prefix of
\* it unless one of its own writes failed.
THEOREM OnlyPrefixes == Spec => []FilesArePrefixes
<1>1. Init => Written /\ FilesArePrefixes
  BY DEF Init, Written, FilesArePrefixes
<1>2. UInv /\ Written /\ FilesArePrefixes /\ [Next]_vars => Written' /\ FilesArePrefixes'
  BY WrittenStep
<1> QED
  BY <1>1, <1>2, UntarInvariant, PTL DEF Spec
=============================================================================
