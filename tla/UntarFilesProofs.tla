-------------------------- MODULE UntarFilesProofs --------------------------
(***************************************************************************)
(* A full extraction: undisturbed, untar leaves all of every member in the *)
(* file system, for any packages and any size of a block.                  *)
(***************************************************************************)
EXTENDS UntarProofs

USE Sizes, SMTT(30)

-----------------------------------------------------------------------------
(* A full extraction. *)

Undisturbed == archive = Layout(members) /\ members # <<>> /\ faults = 0

\* The regular members before the j-th have their contents, but for those a member of
\* the same name before the b-th replaces.
Kept(j, b) ==
    \A i \in Regular(members) :
        i < j /\ (\A k \in Regular(members) : i < k /\ k < b => members[k].name # members[i].name)
            => files[members[i].name] = Content(members[i])

\* Undisturbed, untar works on one member after the other, and finds each at its place.
Extracting ==
    Undisturbed =>
        /\ pc = "loop" => \E j \in 1 .. Len(members) + 1 :
              tar.pos = Blk * Place(members, j) /\ tar.fpos = tar.pos /\ Kept(j, j)
        /\ pc \in {"create", "copy", "skip"} => \E j \in 1 .. Len(members) :
              /\ h = HeaderBlock(members[j]) /\ Stands(tar, rest, members[j], Place(members, j))
              /\ Kept(j, IF pc = "copy" THEN j + 1 ELSE j)
        /\ pc = "next" => \E j \in 1 .. Len(members) :
              tar.pos = Blk * Place(members, j) /\ tar.fpos = tar.pos /\ Kept(j + 1, j + 1)

\* Extracting and ExtractsExactly, by where a step leaves untar.
LEMMA Disturbed == ASSUME ~ Undisturbed' PROVE Extracting' /\ ExtractsExactly'
BY DEF Extracting, ExtractsExactly, Undisturbed

\* The command is over, with all members extracted if it succeeded,
LEMMA Over ==
    ASSUME pc' \in {"idle", "return"},
           \/ pc' = "idle" \/ ~ (leaks' < FdMax)
           \/ /\ ret' = "ESUCCESS"
              /\ \A i \in Latest(members') : files'[members'[i].name] = Content(members'[i])
    PROVE  Extracting' /\ ExtractsExactly'
<1>1. Extracting'
  BY DEF Extracting
<1> QED
  BY <1>1 DEF ExtractsExactly

\* or microtar stands between two members, each in its place,
LEMMA AtPlace ==
    ASSUME NEW j, tar'.pos = Blk * Place(members', j), tar'.fpos = tar'.pos,
           \/ pc' = "loop" /\ j \in 1 .. Len(members') + 1 /\ Kept(j, j)'
           \/ pc' = "next" /\ j \in 1 .. Len(members') /\ Kept(j + 1, j + 1)'
    PROVE  Extracting' /\ ExtractsExactly'
<1>1. Extracting'
  BY DEF Extracting
<1> QED
  BY <1>1 DEF ExtractsExactly

\* or in one of them.
LEMMA InMember ==
    ASSUME UNCHANGED <<members, archive>>, pc' \in {"create", "copy", "skip"},
           NEW j \in 1 .. Len(members), h' = HeaderBlock(members[j]),
           Stands(tar', rest', members[j], Place(members, j)),
           NEW b, b = (IF pc' = "copy" THEN j + 1 ELSE j), Kept(j, b)'
    PROVE  Extracting' /\ ExtractsExactly'
<1> DEFINE m == members[j]
           p == Place(members, j)
<1>1. Stands(tar, rest, m, p)' /\ m' = m /\ p' = p
  BY StandsNext
<1>2. Extracting'
  BY <1>1 DEF Extracting
<1> QED
  BY <1>2 DEF ExtractsExactly

\* The data of a member is rounded up to the blocks it has.
LEMMA RoundUp == ASSUME NEW m \in Member PROVE round_up(m.size) = Blk * BlocksOf(m)
<1> DEFINE n == m.size
           b == BlocksOf(m)
           y == n \div Blk
           r == n % Blk
<1>1. n \in Nat /\ b \in Nat /\ n <= Blk * b /\ Blk * b < n + Blk
  BY BlocksHold
<1>2. y \in Nat /\ r \in 0 .. Blk - 1 /\ n = Blk * y + r
  BY <1>1, Division, Zenon
<1>3. round_up(n) = n + ((Blk - r) % Blk)
  BY DEF round_up
<1> HIDE DEF n, b, y, r
<1>4. /\ Blk * y \in Nat /\ Blk * b \in Nat /\ Blk * (y + 1) = Blk * y + Blk
      /\ Blk * (y + 1) \in Nat /\ Blk * (y + 1 + 1) = Blk * (y + 1) + Blk
      /\ Blk * b < Blk * (y + 1) => b < y + 1
      /\ Blk * b < Blk * (y + 1 + 1) => b < y + 1 + 1
      /\ b < y => Blk * b + Blk <= Blk * y
      /\ b < y + 1 => Blk * b + Blk <= Blk * (y + 1)
  <2>1. y + 1 \in Nat /\ y + 1 + 1 \in Nat
    BY <1>2
  <2> QED
    BY <1>1, <1>2, <2>1, Multiples
<1> DEFINE yy == Blk * y
           bb == Blk * b
           zz == Blk * (y + 1)
<1>5. CASE r = 0
  <2>1. (Blk - r) % Blk = 0
    BY <1>5
  <2>2. b = y
    <3>1. bb < zz /\ ~ (bb + Blk <= yy)
      <4> HIDE DEF yy, bb, zz
      <4> QED
        BY <1>1, <1>2, <1>4, <1>5 DEF yy, bb, zz
    <3> QED
      BY <1>1, <1>2, <1>4, <3>1
  <2>3. round_up(n) = n /\ n = Blk * y
    BY <1>1, <1>2, <1>3, <1>4, <1>5, <2>1
  <2> QED
    BY <2>2, <2>3 DEF n, b
<1>6. CASE r # 0
  <2>1. (Blk - r) % Blk = Blk - r
    BY <1>2, <1>6
  <2>2. b = y + 1
    <3> DEFINE ww == Blk * (y + 1 + 1)
    <3>1. bb < ww /\ ~ (bb + Blk <= zz)
      <4> HIDE DEF yy, bb, zz, ww
      <4> QED
        BY <1>1, <1>2, <1>4, <1>6 DEF yy, bb, zz, ww
    <3> QED
      BY <1>1, <1>2, <1>4, <3>1
  <2>3. round_up(n) = Blk * (y + 1)
    <3> HIDE DEF yy, zz
    <3> QED
      BY <1>1, <1>2, <1>3, <1>4, <2>1 DEF yy, zz
  <2> QED
    BY <2>2, <2>3 DEF n, b
<1> QED
  BY <1>5, <1>6

\* In an intact archive every member is whole at its place, and the next one behind it.
InPlace ==
    Undisturbed =>
        /\ Len(members) >= 1 /\ Place(members, 1) = 0
        /\ \A j \in 1 .. Len(members) :
              /\ Place(members, j) \in Nat /\ Whole(members[j], Place(members, j))
              /\ Place(members, j + 1) = Place(members, j) + 1 + BlocksOf(members[j])
        /\ LET e == Place(members, Len(members) + 1) IN
           e \in Nat /\ e + 1 <= Len(archive) /\ archive[e + 1] = Null

\* Without a fault nothing is in doubt.
LEMMA Undoubted == ASSUME UInv, Undisturbed PROVE ~ astray /\ holes = {} /\ faults = 0
BY Zenon DEF UInv, Doubts, Undisturbed

\* Within a command a fault does not go away: in an undisturbed one no call fails.
LEMMA StaysDisturbed ==
    ASSUME UInv, UNCHANGED <<members, archive>>, Undisturbed',
           NEW fs \in SUBSET AFault, NEW f \in May(fs), Counts(f)
    PROVE  Undisturbed /\ ~ astray /\ faults' = 0 /\ f = NoFault /\ f.call = "none" /\ f \in AFault
<1>1. faults \in 0 .. MaxFaults /\ faults' = 0
  BY DEF UInv, Work, Undisturbed
<1>2. f = NoFault /\ faults = 0 /\ f \in AFault
  BY <1>1, FaultCounts
<1>3. Undisturbed
  BY <1>2 DEF Undisturbed
<1>4. f.call = "none"
  BY <1>2 DEF NoFault
<1> QED
  BY <1>1, <1>2, <1>3, <1>4, Undoubted

\* A header at its place is read, and microtar stays there.
LEMMA ReadsPlace ==
    ASSUME Archived, NEW t \in TarType, NEW f \in AFault, f.call = "none", NEW p \in Nat,
           t.pos = Blk * p, t.fpos = Blk * p, p + 1 <= Len(archive),
           NEW r, r = mtar_read_header(t, f)
    PROVE  /\ r.tar \in TarType /\ r.tar.remaining_data = t.remaining_data
           /\ r.err = raw_to_header(archive[p + 1])
           /\ r.tar.pos = Blk * p /\ r.tar.fpos = Blk * p
           /\ r.err = "ESUCCESS" => r.h = archive[p + 1]
<1>1. RawAt(t.fpos) = archive[p + 1] /\ t.fpos + Blk <= Bytes
  BY BlockAt
<1>2. ReadsHeader(t, f)
  BY Reads DEF HeadersRead
<1>3. r.err = raw_to_header(archive[p + 1])
  BY <1>1, <1>2 DEF ReadsHeader
<1>4. r.err \notin {"EREADFAIL", "ESEEKFAIL"}
  BY <1>3 DEF raw_to_header
<1> QED
  BY <1>1, <1>2, <1>3, <1>4 DEF ReadsHeader

\* The files a step may change are not among those that are kept.
LEMMA KeptNext ==
    ASSUME UNCHANGED members, NEW j, NEW b, NEW c, NEW l, Kept(j, b),
           \A i \in Regular(members) :
              i < l /\ (\A k \in Regular(members) : i < k /\ k < c => members[k].name # members[i].name)
                 => \/ /\ i < j /\ files'[members[i].name] = files[members[i].name]
                       /\ \A k \in Regular(members) : i < k /\ k < b => members[k].name # members[i].name
                    \/ files'[members[i].name] = Content(members[i])
    PROVE  Kept(l, c)'
<1>1. ASSUME NEW i \in Regular(members), i < l,
             \A k \in Regular(members) : i < k /\ k < c => members[k].name # members[i].name
      PROVE  files'[members[i].name] = Content(members[i])
  BY <1>1 DEF Kept
<1> QED
  BY <1>1 DEF Kept

\* Nothing is kept yet.
LEMMA KeptNone == Kept(1, 1)
BY DEF Kept, Regular

\* The same files are kept.
LEMMA KeptSame == ASSUME UNCHANGED <<members, files>>, NEW j, NEW b, Kept(j, b) PROVE Kept(j, b)'
BY DEF Kept

\* mtar_open finds the first member.
LEMMA OpenExtracting ==
    ASSUME UInv, Archived', InPlace', NEW ms, NEW a, NEW f \in May(HeaderFaults \cup {OpenFault}),
           OpenTar(ms, a, f)
    PROVE  Extracting' /\ ExtractsExactly'
<1> SUFFICES ASSUME Undisturbed' PROVE Extracting' /\ ExtractsExactly'
  BY Disturbed
<1>1. pc' \in {"loop", "return"} /\ pc = "idle" /\ leaks' = leaks /\ Counts(f)
  BY DEF OpenTar
<1>4. f = NoFault /\ f \in AFault
  <2>1. faults \in 0 .. MaxFaults /\ faults' = 0
    BY DEF UInv, Work, Undisturbed
  <2> QED
    BY <1>1, <2>1, FaultCounts, FaultSets
<1>5. f.call = "none" /\ f # OpenFault
  BY <1>4 DEF NoFault, OpenFault
<1>2. CASE fds >= FdMax
  <2>1. pc' = "return" /\ ~ (leaks' < FdMax)
    BY <1>1, <1>2 DEF OpenTar, UInv, Streams
  <2> QED
    BY <2>1, Over
<1>3. CASE fds < FdMax
  <2> DEFINE r == mtar_read_header(Closed, f)
  <2>1. /\ tar' = r'.tar
        /\ pc' = IF r'.err = "ESUCCESS" THEN "loop" ELSE "return"
    BY <1>3, <1>5 DEF OpenTar, UInv, Streams
  <2>2. pc' = "loop" /\ tar'.pos = Blk * Place(members', 1) /\ tar'.fpos = tar'.pos
    <3>2. HeadersRead'
      BY Reads, PTL
    <3>3. Closed \in TarType /\ Closed.pos = 0 /\ Closed.fpos = 0
      BY DEF Closed, TarType, Word
    <3>4. ReadsHeader(Closed, f)'
      BY <1>4, <3>2, <3>3 DEF HeadersRead
    <3>5. /\ Len(members') >= 1 /\ Place(members', 1) = 0 /\ Whole(members[1], Place(members, 1))'
      <4>1. /\ Len(members') >= 1 /\ Place(members', 1) = 0
            /\ \A j \in 1 .. Len(members') : Whole(members[j], Place(members, j))'
        BY DEF InPlace
      <4> QED
        BY <4>1 DEF Whole, Here
    <3>6. archive'[1] = HeaderBlock(members'[1]) /\ Len(archive') >= 1
      BY <3>5 DEF Whole, Here
    <3>7. RawAt(0)' = archive'[1] /\ 0 + Blk <= Bytes'
      <4>1. 0 % Blk = 0 /\ 0 \div Blk = 0
        OBVIOUS
      <4>2. RawAt(0)' = archive'[1]
        BY <4>1 DEF RawAt
      <4>3. Len(archive') \in Nat
        BY DEF Archived, Holds
      <4>4. Blk * 1 <= Blk * Len(archive')
        BY <3>6, <4>3, Multiples
      <4> QED
        BY <4>2, <4>4 DEF Bytes
    <3>8. raw_to_header(RawAt(0)') = "ESUCCESS"
      BY <3>6, <3>7 DEF raw_to_header, HeaderBlock
    <3>9. r'.err = "ESUCCESS" /\ r'.tar.pos = 0 /\ r'.tar.fpos = 0
      <4>1. r'.err = raw_to_header(RawAt(0)')
        BY <1>5, <3>3, <3>4, <3>7 DEF ReadsHeader
      <4> QED
        BY <3>3, <3>4, <3>8, <4>1 DEF ReadsHeader
    <3> QED
      BY <2>1, <3>5, <3>9
  <2>3. Kept(1, 1)'
    BY KeptNone, PTL
  <2>4. 1 \in 1 .. Len(members') + 1
    <3>1. members' \in Packages \cup {<<>>}
      BY DEF Archived
    <3>2. members' \in Seq(Member)
      <4>1. <<>> \in Seq(Member)
        OBVIOUS
      <4> QED
        BY <3>1, <4>1, UntarAssumption, Zenon
    <3> QED
      BY <3>2
  <2> QED
    BY <2>2, <2>3, <2>4, AtPlace
<1> QED
  BY <1>2, <1>3 DEF UInv, Streams

\* The loop finds the next member, or the null block behind the last.
LEMMA HeaderExtracting ==
    ASSUME UInv, InPlace, Extracting, NEW f \in May(HeaderFaults), ReadHeader(f)
    PROVE  Extracting' /\ ExtractsExactly'
<1> DEFINE r == mtar_read_header(tar, f)
<1>1. /\ Counts(f) /\ pc = "loop" /\ tar' = r.tar /\ UNCHANGED <<members, archive, files>>
      /\ \/ /\ r.err = "ESUCCESS" /\ h' = r.h /\ rest' = r.h.size
            /\ pc' = IF r.h.type = "TREG" THEN "create" ELSE "skip"
         \/ r.err # "ESUCCESS" /\ pc' = "return" /\ ret' = "ESUCCESS"
  BY DEF ReadHeader, Returns
<1>2. r = mtar_read_header(tar, f)
  OBVIOUS
<1> HIDE DEF r
<1> SUFFICES ASSUME Undisturbed' PROVE Extracting' /\ ExtractsExactly'
  BY Disturbed
<1>3. Undisturbed /\ ~ astray
  BY <1>1, FaultSets, StaysDisturbed
<1>4. f \in AFault /\ f.call = "none"
  BY <1>1, FaultSets, StaysDisturbed
<1>5. PICK j \in 1 .. Len(members) + 1 :
         tar.pos = Blk * Place(members, j) /\ tar.fpos = tar.pos /\ Kept(j, j)
  BY <1>1, <1>3 DEF Extracting
<1>6. InPlace /\ Archived /\ tar \in TarType /\ tar.remaining_data = 0
  BY <1>1, <1>3 DEF UInv, Work, Position
<1>7. Len(members) \in Nat
  BY <1>6, ArchiveType
<1> DEFINE p == Place(members, j)
           m == members[j]
<1>8. Kept(j, j)'
  BY <1>1, <1>5, KeptSame
<1>9. CASE j <= Len(members)
  <2>1. j \in 1 .. Len(members)
    BY <1>7, <1>9
  <2>2. p \in Nat /\ Here(m, p)
    BY <1>3, <1>6, <2>1 DEF InPlace, Whole
  <2>3. p + 1 <= Len(archive) /\ archive[p + 1] = HeaderBlock(m)
    BY <1>6, <2>2, ArchiveType DEF Here
  <2>4. raw_to_header(archive[p + 1]) = "ESUCCESS"
    BY <2>3 DEF raw_to_header, HeaderBlock
  <2>5. /\ r.tar.remaining_data = 0 /\ r.err = "ESUCCESS" /\ r.tar.pos = Blk * p
        /\ r.tar.fpos = Blk * p /\ r.h = HeaderBlock(m)
    <3> HIDE DEF p
    <3>1. tar.pos = Blk * p /\ tar.fpos = Blk * p
      BY <1>5 DEF p
    <3> QED
      BY <1>2, <1>4, <1>6, <2>2, <2>3, <2>4, <3>1, ReadsPlace
  <2>6. h' = HeaderBlock(m) /\ rest' = m.size /\ pc' \in {"create", "skip"}
    BY <1>1, <2>5 DEF HeaderBlock
  <2>7. Stands(tar', rest', m, p)
    BY <1>1, <2>2, <2>5, <2>6 DEF Stands, AtHeader
  <2> QED
    BY <1>1, <1>8, <2>1, <2>6, <2>7, InMember
<1>10. CASE j = Len(members) + 1
  <2>1. p \in Nat /\ p + 1 <= Len(archive) /\ archive[p + 1] = Null
    BY <1>3, <1>6, <1>10 DEF InPlace
  <2>2. raw_to_header(archive[p + 1]) # "ESUCCESS"
    BY <2>1 DEF raw_to_header, Null
  <2>3. r.err # "ESUCCESS"
    <3> HIDE DEF p
    <3>1. tar.pos = Blk * p /\ tar.fpos = Blk * p
      BY <1>5 DEF p
    <3>2. r.err = raw_to_header(archive[p + 1])
      BY <1>2, <1>4, <1>6, <2>1, <3>1, ReadsPlace
    <3> QED
      BY <2>2, <3>2
  <2>4. pc' = "return" /\ ret' = "ESUCCESS"
    BY <1>1, <2>3
  <2>5. ASSUME NEW i \in Latest(members) PROVE files'[members[i].name] = Content(members[i])
    <3>1. i \in Regular(members) /\ i < j
      BY <1>7, <1>10 DEF Latest, Regular
    <3>2. \A k \in Regular(members) : i < k /\ k < j => members[k].name # members[i].name
      BY <1>7, <3>1 DEF Latest, Regular
    <3> QED
      BY <1>1, <1>5, <3>1, <3>2 DEF Kept
  <2> QED
    BY <1>1, <2>4, <2>5, Over
<1> QED
  BY <1>7, <1>9, <1>10

\* mtar_next goes from the place of a member to that of the next.
LEMMA NextExtracting ==
    ASSUME UInv, InPlace, Extracting, NEW f \in May(NextFaults), NextMember(f)
    PROVE  Extracting' /\ ExtractsExactly'
<1> DEFINE r == mtar_read_header(tar, f)
           n == mtar_next(tar, f)
<1>1. /\ Counts(f) /\ pc = "next" /\ pc' = "loop" /\ tar' = n.tar
      /\ UNCHANGED <<members, archive, files>>
  BY DEF NextMember
<1>2. r = mtar_read_header(tar, f)
  OBVIOUS
<1> SUFFICES ASSUME Undisturbed' PROVE Extracting' /\ ExtractsExactly'
  BY Disturbed
<1>3. Undisturbed /\ ~ astray
  BY <1>1, FaultSets, StaysDisturbed
<1>4. f \in AFault /\ f.call = "none"
  BY <1>1, FaultSets, StaysDisturbed
<1>5. PICK j \in 1 .. Len(members) :
         tar.pos = Blk * Place(members, j) /\ tar.fpos = tar.pos /\ Kept(j + 1, j + 1)
  BY <1>1, <1>3 DEF Extracting
<1>6. InPlace /\ Archived /\ tar \in TarType
  BY DEF UInv, Work
<1>7. Len(members) \in Nat /\ members[j] \in Member
  BY <1>6, ArchiveType
<1> DEFINE p == Place(members, j)
           m == members[j]
           to == r.tar.pos + round_up(r.h.size) + Blk
           k == mtar_seek(r.tar, to, f, "on")
<1>8. p \in Nat /\ Here(m, p) /\ Place(members, j + 1) = p + 1 + BlocksOf(m)
  BY <1>3, <1>6 DEF InPlace, Whole
<1>9. p + 1 <= Len(archive) /\ archive[p + 1] = HeaderBlock(m)
  BY <1>6, <1>8, ArchiveType DEF Here
<1>10. raw_to_header(archive[p + 1]) = "ESUCCESS"
  BY <1>9 DEF raw_to_header, HeaderBlock
<1>11. n = k \/ r.err # "ESUCCESS"
  BY DEF mtar_next
<1>19. k = mtar_seek(r.tar, to, f, "on")
  OBVIOUS
<1> HIDE DEF r, n, k
<1>12. r.tar \in TarType /\ r.err = "ESUCCESS" /\ r.tar.pos = Blk * p /\ r.h = HeaderBlock(m)
  <2> HIDE DEF p
  <2>1. tar.pos = Blk * p /\ tar.fpos = Blk * p
    BY <1>5 DEF p
  <2> QED
    BY <1>2, <1>4, <1>6, <1>8, <1>9, <1>10, <2>1, ReadsPlace
<1>13. to \in Nat /\ to = Blk * Place(members, j + 1)
  <2> DEFINE b == BlocksOf(m)
  <2>1. round_up(r.h.size) = Blk * b
    BY <1>7, <1>12, RoundUp DEF HeaderBlock
  <2>2. b \in Nat
    BY <1>7, BlocksHold
  <2> HIDE DEF b, p
  <2>3. Blk * (p + 1 + b) = Blk * p + Blk * b + Blk
    BY <1>8, <2>2
  <2>4. Blk * p \in Nat /\ Blk * b \in Nat
    BY <1>8, <2>2, Multiples
  <2>5. Place(members, j + 1) = p + 1 + b
    BY <1>8 DEF b
  <2> DEFINE x == Blk * p
             y == Blk * b
  <2>6. to = x + y + Blk
    BY <1>12, <2>1
  <2>7. Blk * Place(members, j + 1) = x + y + Blk
    BY <2>3, <2>5
  <2> HIDE DEF x, y, to
  <2> QED
    BY <2>4, <2>6, <2>7 DEF x, y
<1> HIDE DEF to
<1>14. k.tar.pos = to /\ k.tar.fpos = to
  <2>1. r.tar \in TarType /\ to \in Nat /\ f.call # "on"
    BY <1>4, <1>12, <1>13
  <2> QED
    BY ONLY <1>19, <2>1, SeekMoves
<1>15. tar'.pos = Blk * Place(members, j + 1) /\ tar'.fpos = tar'.pos
  BY <1>1, <1>11, <1>12, <1>13, <1>14
<1>16. Kept(j + 1, j + 1)'
  BY <1>1, <1>5, KeptSame
<1>17. j + 1 \in 1 .. Len(members) + 1
  BY <1>7
<1> DEFINE i == j + 1
<1>18. tar'.pos = Blk * Place(members', i) /\ tar'.fpos = tar'.pos /\ Kept(i, i)' /\ i \in 1 .. Len(members') + 1
  BY <1>1, <1>15, <1>16, <1>17
<1> HIDE DEF i
<1> QED
  BY <1>1, <1>18, AtPlace

\* A file is made for a member, and does not replace what has to be kept.
LEMMA CreateExtracting ==
    ASSUME UInv, Extracting, NEW f \in May({OpenFault}), CreateFile(f)
    PROVE  Extracting' /\ ExtractsExactly'
<1>1. pc = "create" /\ UNCHANGED <<members, archive, tar, h, rest>> /\ Counts(f)
      /\ pc' \in {"copy", "return"}
  BY DEF CreateFile, Returns
<1> SUFFICES ASSUME Undisturbed' PROVE Extracting' /\ ExtractsExactly'
  BY Disturbed
<1>2. Undisturbed /\ ~ astray /\ f # OpenFault
  <2>1. Undisturbed /\ ~ astray /\ f = NoFault
    BY <1>1, FaultSets, StaysDisturbed
  <2> QED
    BY <2>1 DEF NoFault, OpenFault
<1>3. CASE pc' = "return"
  <2>1. fds >= FdMax /\ leaks' = leaks + 1
    BY <1>2, <1>3 DEF CreateFile, Returns
  <2>2. fds = leaks + 1 /\ fds \in Nat
    BY <1>1 DEF UInv, Streams
  <2>3. ~ (leaks' < FdMax)
    BY <2>1, <2>2
  <2> QED
    BY <1>3, <2>3, Over
<1>4. CASE pc' = "copy"
  <2>1. PICK j \in 1 .. Len(members) :
           /\ h = HeaderBlock(members[j]) /\ Stands(tar, rest, members[j], Place(members, j))
           /\ Kept(j, j)
    BY <1>1, <1>2 DEF Extracting
  <2> DEFINE m == members[j]
             p == Place(members, j)
  <2>2. h.type = "TREG"
    BY <1>1, <1>2 DEF UInv, Position
  <2>3. j \in Regular(members) /\ h.name = m.name
    BY <2>1, <2>2 DEF HeaderBlock, Regular
  <2>4. files' = [files EXCEPT ![m.name] = <<>>]
    BY <1>4, <2>3 DEF CreateFile, Returns
  <2>5. Kept(j, j + 1)'
    <3>1. ASSUME NEW i \in Regular(members), i < j,
                 \A k \in Regular(members) : i < k /\ k < j + 1 => members[k].name # members[i].name
          PROVE  /\ i < j /\ files'[members[i].name] = files[members[i].name]
                 /\ \A k \in Regular(members) : i < k /\ k < j => members[k].name # members[i].name
      <4>1. m.name # members[i].name
        BY <2>3, <3>1
      <4>2. \A k \in Regular(members) : k < j => k < j + 1
        BY DEF Regular
      <4> QED
        BY <2>4, <3>1, <4>1, <4>2
    <3> QED
      BY <1>1, <2>1, <3>1, KeptNext
  <2>6. Stands(tar', rest', m, p)
    BY <1>1, <2>1
  <2> QED
    BY <1>1, <1>4, <2>1, <2>5, <2>6, InMember
<1> QED
  BY <1>1, <1>3, <1>4

\* The loops that copy or skip the data end with the whole member.
LEMMA EndExtracting ==
    ASSUME UInv, Extracting, Written, NEW f, Copy(f) \/ Skip(f), rest = 0
    PROVE  Extracting' /\ ExtractsExactly'
<1>1. /\ pc \in {"copy", "skip"} /\ pc' = "next"
      /\ UNCHANGED <<members, archive, tar, files, faults>>
  BY DEF Copy, Skip
<1> SUFFICES ASSUME Undisturbed' PROVE Extracting' /\ ExtractsExactly'
  BY Disturbed
<1>2. Undisturbed /\ ~ astray /\ holes = {}
  <2>1. Undisturbed
    BY <1>1 DEF Undisturbed
  <2> QED
    BY <2>1, Undoubted
<1>3. PICK j \in 1 .. Len(members) :
         /\ h = HeaderBlock(members[j]) /\ Stands(tar, rest, members[j], Place(members, j))
         /\ Kept(j, IF pc = "copy" THEN j + 1 ELSE j)
  BY <1>1, <1>2 DEF Extracting
<1> DEFINE m == members[j]
           p == Place(members, j)
<1>4. m \in Member /\ m.size \in Nat
  BY ArchiveType DEF UInv, Member
<1>5. h.name = m.name /\ h.size = m.size /\ h.type = m.type
  BY <1>3 DEF HeaderBlock
<1>6. pc = "copy" <=> m.type = "TREG"
  BY <1>1, <1>2, <1>5 DEF UInv, Position
<1>7. tar.pos = Blk * p /\ tar.fpos = tar.pos
  BY <1>3 DEF Stands, AtHeader, InData
<1>8. ASSUME pc = "copy" PROVE files[m.name] = Content(m)
  <2>1. files[h.name] = SubSeq(Content(h), 1, m.size)
    <3>1. h.size - rest = m.size
      BY <1>4, <1>5
    <3>2. h.name \notin holes
      BY <1>2
    <3> QED
      BY <1>2, <1>8, <3>1, <3>2, Zenon DEF Written
  <2>2. Content(h) = Content(m)
    BY <1>5 DEF Content
  <2>3. SubSeq(Content(m), 1, m.size) = Content(m)
    BY <1>4, Prefixes
  <2> QED
    BY <1>5, <2>1, <2>2, <2>3
<1>9. Kept(j + 1, j + 1)'
  <2> DEFINE b == IF pc = "copy" THEN j + 1 ELSE j
  <2>1. Kept(j, b)
    BY <1>3
  <2>2. ASSUME NEW i \in Regular(members), i < j + 1,
               \A k \in Regular(members) : i < k /\ k < j + 1 => members[k].name # members[i].name
        PROVE  \/ /\ i < j /\ files'[members[i].name] = files[members[i].name]
                  /\ \A k \in Regular(members) : i < k /\ k < b => members[k].name # members[i].name
               \/ files'[members[i].name] = Content(members[i])
    <3>1. CASE i = j
      <4>1. pc = "copy"
        BY <1>6, <3>1 DEF Regular
      <4> QED
        BY <1>1, <1>8, <3>1, <4>1
    <3>2. CASE i # j
      <4>1. i < j
        BY <2>2, <3>2 DEF Regular
      <4>2. \A k \in Regular(members) : k < b => k < j + 1
        BY DEF Regular
      <4> QED
        BY <1>1, <2>2, <4>1, <4>2
    <3> QED
      BY <3>1, <3>2
  <2> HIDE DEF b
  <2>3. members' = members
    BY <1>1
  <2> DEFINE l == j + 1
  <2>4. \A i \in Regular(members) :
           i < l /\ (\A k \in Regular(members) : i < k /\ k < l => members[k].name # members[i].name)
              => \/ /\ i < j /\ files'[members[i].name] = files[members[i].name]
                    /\ \A k \in Regular(members) : i < k /\ k < b => members[k].name # members[i].name
                 \/ files'[members[i].name] = Content(members[i])
    BY <2>2
  <2> HIDE DEF l
  <2>5. Kept(l, l)'
    BY <2>1, <2>3, <2>4, KeptNext
  <2> QED
    BY <2>5 DEF l
<1> QED
  BY <1>1, <1>7, <1>9, AtPlace

\* A pass over the data of a member that is whole does not fail.
LEMMA DataExtracting ==
    ASSUME UInv, InPlace, Extracting, rest > 0, NEW fs \in SUBSET AFault, NEW f \in May(fs),
           Copy(f) \/ Skip(f)
    PROVE  Extracting' /\ ExtractsExactly'
<1> DEFINE d == mtar_read_data(tar, SmallerOf(rest, Blk), f)
           size == SmallerOf(rest, Blk)
<1>1. /\ pc \in {"copy", "skip"} /\ Counts(f) /\ UNCHANGED <<members, archive, h>>
      /\ tar' = d.tar
      /\ \/ d.err = "ESUCCESS" /\ rest' = rest - size /\ pc' = pc
         \/ d.err # "ESUCCESS" /\ pc' = "return"
  <2>1. rest # 0
    BY DEF UInv, Work
  <2> QED
    BY <2>1, Zenon DEF Copy, Skip, Returns
<1>2. d = mtar_read_data(tar, SmallerOf(rest, Blk), f)
  OBVIOUS
<1>3. files' = files \/ (pc = "copy" /\ \E v : files' = [files EXCEPT ![h.name] = v])
  BY Zenon DEF Copy, Skip
<1> HIDE DEF d
<1> SUFFICES ASSUME Undisturbed' PROVE Extracting' /\ ExtractsExactly'
  BY Disturbed
<1>4. Undisturbed /\ ~ astray
  BY <1>1, StaysDisturbed
<1>6. f.call = "none" /\ f \in AFault
  BY <1>1, StaysDisturbed
<1>7. PICK j \in 1 .. Len(members) :
         /\ h = HeaderBlock(members[j]) /\ Stands(tar, rest, members[j], Place(members, j))
         /\ Kept(j, IF pc = "copy" THEN j + 1 ELSE j)
  BY <1>1, <1>4 DEF Extracting
<1> DEFINE m == members[j]
           p == Place(members, j)
<1>0. PICK b : b = (IF pc = "copy" THEN j + 1 ELSE j) /\ Kept(j, b)
  BY <1>7
<1>8. p \in Nat /\ Whole(m, p)
  BY <1>4 DEF InPlace
<1>9. d.err = "ESUCCESS" /\ Passes(d, rest, size, m, p)
  BY <1>1, <1>2, <1>6, <1>7, <1>8, ReadCode, Zenon
<1>10. Stands(tar', rest', m, p) /\ pc' = pc /\ h' = h
  BY <1>1, <1>9 DEF Passes
<1>12. Kept(j, b)'
  <2>1. CASE files' = files
    BY <1>0, <1>1, <2>1, KeptSame
  <2>2. ASSUME pc = "copy", NEW v, files' = [files EXCEPT ![h.name] = v] PROVE Kept(j, b)'
    <3>1. j \in Regular(members) /\ h.name = m.name
      <4>1. h.type = "TREG"
        BY <1>4, <2>2 DEF UInv, Position
      <4> QED
        BY <1>7, <4>1 DEF HeaderBlock, Regular
    <3>2. b = j + 1 /\ Kept(j, b) /\ j < j + 1
      BY <1>0, <2>2
    <3>3. ASSUME NEW i \in Regular(members), i < j,
                 \A k \in Regular(members) : i < k /\ k < b => members[k].name # members[i].name
          PROVE  files'[members[i].name] = files[members[i].name]
      <4>1. m.name # members[i].name
        BY <3>1, <3>2, <3>3
      <4> QED
        BY <2>2, <3>1, <4>1
    <3> QED
      BY <1>1, <3>2, <3>3, KeptNext
  <2> QED
    BY <1>3, <2>1, <2>2
<1> QED
  BY <1>0, <1>1, <1>7, <1>10, <1>12, InMember

\* Every step of an undisturbed command works at the place of a member.
LEMMA ExtractingStep ==
    ASSUME UInv, Archived', InPlace, InPlace', Written, Extracting, ExtractsExactly, [Next]_vars
    PROVE  Extracting' /\ ExtractsExactly'
<1>1. ASSUME NEW ms, NEW a, NEW f \in May(HeaderFaults \cup {OpenFault}), OpenTar(ms, a, f)
      PROVE  Extracting' /\ ExtractsExactly'
  BY <1>1, OpenExtracting
<1>2. ASSUME NEW f \in May(HeaderFaults), ReadHeader(f) PROVE Extracting' /\ ExtractsExactly'
  BY <1>2, HeaderExtracting
<1>5. ASSUME NEW f \in May(NextFaults), NextMember(f) PROVE Extracting' /\ ExtractsExactly'
  BY <1>5, NextExtracting
<1>7. ASSUME NEW f \in May({OpenFault}), CreateFile(f) PROVE Extracting' /\ ExtractsExactly'
  BY <1>7, CreateExtracting
<1>3. ASSUME NEW fs \in SUBSET AFault, NEW f \in May(fs), Copy(f) \/ Skip(f)
      PROVE  Extracting' /\ ExtractsExactly'
  <2>1. CASE rest = 0
    BY <1>3, <2>1, EndExtracting
  <2>2. CASE rest > 0
    BY <1>3, <2>2, DataExtracting
  <2> QED
    BY <2>1, <2>2 DEF UInv, Work
<1>8. LET size == SmallerOf(rest, Blk) IN
      DataFaults(size) \in SUBSET AFault /\ DataFaults(size) \cup WriteFaults(size) \in SUBSET AFault
  <2>1. SmallerOf(rest, Blk) \in Nat
    BY DEF UInv, Work, SmallerOf
  <2> QED
    BY <2>1, FaultSets, Zenon
<1>9. ASSUME NEW f \in May(DataFaults(SmallerOf(rest, Blk)) \cup WriteFaults(SmallerOf(rest, Blk))), Copy(f)
      PROVE  Extracting' /\ ExtractsExactly'
  BY <1>3, <1>8, <1>9, Zenon
<1>10. ASSUME NEW f \in May(DataFaults(SmallerOf(rest, Blk))), Skip(f) PROVE Extracting' /\ ExtractsExactly'
  BY <1>3, <1>8, <1>10, Zenon
<1>4. CASE Report
  <2>1. pc' = "idle"
    BY <1>4 DEF Report
  <2> QED
    BY <2>1, Over
<1>6. CASE UNCHANGED vars
  <2>1. UNCHANGED <<members, archive, tar, h, rest, files, pc, ret, faults, leaks>>
    BY <1>6 DEF vars, world
  <2>2. ExtractsExactly'
    BY <2>1 DEF ExtractsExactly
  <2>3. \A j, b : Kept(j, b)' <=> Kept(j, b)
    BY <2>1 DEF Kept
  <2>4. \A m, q : Stands(tar, rest, m, q)' <=> Stands(tar, rest, m, q)
    BY <2>1 DEF Stands, AtHeader, InData, Here
  <2>5. Extracting'
    BY <2>1, <2>3, <2>4 DEF Extracting, Undisturbed
  <2> QED
    BY <2>2, <2>5
<1> QED
  BY <1>1, <1>2, <1>4, <1>5, <1>6, <1>7, <1>9, <1>10, Zenon DEF Next, untar

\* What Layout builds is in place.
LEMMA LayoutInPlace == LayoutsHold /\ Archived => InPlace
<1> SUFFICES ASSUME LayoutsHold, Archived, Undisturbed PROVE InPlace
  BY DEF InPlace
<1>1. members \in Seq(Member) /\ Len(members) \in Nat /\ Len(archive) \in Nat
  BY ArchiveType
<1>2. archive = Layout(members) /\ members # <<>>
  BY DEF Undisturbed
<1>3. Intact(archive, members)
  <2>1. members \in Packages
    BY <1>2 DEF Archived
  <2> QED
    BY <1>2, <2>1, Zenon DEF LayoutsHold
<1>4. Len(members) >= 1
  BY <1>1, <1>2
<1>5. ASSUME NEW j \in 1 .. Len(members)
      PROVE  /\ Place(members, j) \in Nat /\ Whole(members[j], Place(members, j))
             /\ Place(members, j + 1) = Place(members, j) + 1 + BlocksOf(members[j])
  <2> DEFINE p == Place(members, j)
             m == members[j]
  <2>1. /\ p \in Nat /\ Place(members, j + 1) = p + 1 + BlocksOf(m)
        /\ Place(members, j + 1) < Len(archive)
        /\ archive[p + 1] = HeaderBlock(m)
        /\ \A k \in 1 .. BlocksOf(m) : archive[p + 1 + k] = Block(m, k)
    BY <1>3 DEF Intact
  <2>2. BlocksOf(m) \in Nat
    BY ArchiveType, BlocksHold
  <2>3. p + 1 + BlocksOf(m) <= Len(archive) /\ p + 1 \in 1 .. Len(archive)
    <3> HIDE DEF p, m
    <3> QED
      BY <1>1, <2>1, <2>2
  <2>4. Whole(m, p)
    BY <2>1, <2>3 DEF Whole, Here
  <2> QED
    BY <2>1, <2>4
<1>6. LET e == Place(members, Len(members) + 1) IN
      e \in Nat /\ e + 1 <= Len(archive) /\ archive[e + 1] = Null
  <2> DEFINE e == Place(members, Len(members) + 1)
  <2>1. e \in Nat /\ Len(archive) = e + 2 /\ archive[e + 1] = Null
    BY <1>3 DEF Intact
  <2> HIDE DEF e
  <2>2. e + 1 <= Len(archive)
    BY <2>1
  <2> QED
    BY <2>1, <2>2 DEF e
<1>7. Place(members, 1) = 0
  BY <1>3 DEF Intact
<1> QED
  BY <1>4, <1>5, <1>6, <1>7 DEF InPlace

-----------------------------------------------------------------------------
(* The theorem. *)

\* Undisturbed, untar leaves every regular member of an intact archive, whatever its size
\* and however many there are, with its exact contents.
THEOREM Extracts == Spec => []ExtractsExactly
<1>1. Init => Written /\ Extracting /\ ExtractsExactly
  BY DEF Init, Written, Extracting, ExtractsExactly, Undisturbed
<1>2. Init => FilesArePrefixes
  BY DEF Init, FilesArePrefixes
<1>3. UInv /\ UInv' /\ Written /\ FilesArePrefixes /\ Extracting /\ ExtractsExactly /\ [Next]_vars
         => Written' /\ FilesArePrefixes' /\ Extracting' /\ ExtractsExactly'
  <2>1. UInv => InPlace
    BY AllLayouts, LayoutInPlace DEF UInv
  <2>2. UInv' => InPlace'
    BY <2>1, PTL
  <2> QED
    BY <2>1, <2>2, WrittenStep, ExtractingStep DEF UInv
<1> QED
  BY <1>1, <1>2, <1>3, UntarInvariant, PTL DEF Spec

=============================================================================
