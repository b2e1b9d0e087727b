--------------------------- MODULE MicrotarProofs ---------------------------
(***************************************************************************)
(* What microtar reads in an archive that holds the members of a package,  *)
(* for any size of a block and whatever faults the reads meet; and that    *)
(* every package is laid out like that.                                    *)
(***************************************************************************)
EXTENDS Untar, TLAPS

(* Numbers and sequences. *)

\* The bounds and the size of a block.
LEMMA Sizes ==
    /\ Blk \in Nat /\ Blk > 0 /\ FdMax \in Nat /\ IntMax \in Nat
    /\ MaxFaults \in Nat /\ MaxRuns \in Nat
BY UntarAssumption

USE Sizes, SMTT(30)

\* Division with remainder.
LEMMA Division ==
    ASSUME NEW b \in Nat, b > 0, NEW x \in Nat
    PROVE  /\ x \div b \in Nat /\ x % b \in 0 .. b - 1
           /\ x = b * (x \div b) + (x % b)
OBVIOUS

\* Unsigned subtraction: it stays in its range, and does not wrap from above.
LEMMA Unsigned ==
    ASSUME NEW n \in 0 .. Word - 1, NEW size \in Nat
    PROVE  /\ (n - size) % Word \in 0 .. Word - 1
           /\ size <= n => (n - size) % Word = n - size
<1>1. ASSUME NEW w \in Nat, w > 0, NEW x \in Int
      PROVE  x % w \in 0 .. w - 1 /\ (x \in 0 .. w - 1 => x % w = x)
  BY <1>1
<1>2. Word \in Nat /\ Word > 0 /\ n \in Int /\ n - size \in Int /\ (size <= n => n - size \in 0 .. Word - 1)
  BY DEF Word
<1> DEFINE w == Word
           x == n - size
<1> HIDE DEF w, x
<1>3. x % w \in 0 .. w - 1 /\ (x \in 0 .. w - 1 => x % w = x)
  BY <1>1, <1>2, Zenon DEF w, x
<1> QED
  BY <1>2, <1>3, Zenon DEF w, x

\* Multiples of the size of a block.
LEMMA Multiples ==
    ASSUME NEW a \in Nat, NEW b \in Nat
    PROVE  /\ Blk * a \in Nat /\ Blk * (a + 1) = Blk * a + Blk
           /\ a < b => Blk * a + Blk <= Blk * b
           /\ a <= b => Blk * a <= Blk * b
           /\ Blk * a < Blk * b => a < b
           /\ (Blk * a) % Blk = 0 /\ (Blk * a) \div Blk = a
<1>0. ASSUME NEW d \in Nat, d > 0, NEW k \in Nat PROVE (d * k) % d = 0 /\ (d * k) \div d = k
  <2> USE <1>0
  <2> DEFINE x == d * k
             y == x \div d
             r == x % d
  <2>1. x \in Nat /\ y \in Nat /\ r \in Nat /\ r < d /\ x = d * y + r
    OBVIOUS
  <2>2. x = d * k
    OBVIOUS
  <2> HIDE DEF x, y, r
  <2>3. y < k => d * y + d <= d * k
    <3> SUFFICES ASSUME y < k PROVE d * (y + 1) <= d * k
      BY <2>1
    <3>1. y + 1 <= k
      BY <2>1
    <3> QED
      BY <2>1, <3>1
  <2>4. k < y => d * k + d <= d * y
    <3> SUFFICES ASSUME k < y PROVE d * (k + 1) <= d * y
      BY <2>1
    <3>1. k + 1 <= y
      BY <2>1
    <3> QED
      BY <2>1, <3>1
  <2>5. y = k
    BY <2>1, <2>2, <2>3, <2>4
  <2>6. r = 0
    BY <2>1, <2>2, <2>5
  <2> QED
    BY <2>5, <2>6 DEF x, y, r
<1>1. Blk * a \in Nat /\ Blk * b \in Nat /\ Blk * (a + 1) = Blk * a + Blk
  OBVIOUS
<1>2. ASSUME NEW x \in Nat, NEW y \in Nat, x <= y PROVE Blk * x <= Blk * y
  BY <1>2
<1>3. a < b => Blk * a + Blk <= Blk * b
  <2> SUFFICES ASSUME a < b PROVE Blk * (a + 1) <= Blk * b
    BY <1>1
  <2> QED
    BY <1>2
<1>4. a <= b => Blk * a <= Blk * b
  BY <1>2
<1>5. b <= a => Blk * b <= Blk * a
  BY <1>2
<1>6. Blk * a < Blk * b => a < b
  BY <1>1, <1>5
<1>7. (Blk * a) % Blk = 0 /\ (Blk * a) \div Blk = a
  BY <1>0, Zenon
<1> QED
  BY <1>1, <1>3, <1>4, <1>6, <1>7

\* A data block more holds what a count of full ones does not.
LEMMA BlocksHold ==
    ASSUME NEW m \in Member
    PROVE  /\ BlocksOf(m) \in Nat /\ m.size \in Nat
           /\ m.size <= Blk * BlocksOf(m) /\ Blk * BlocksOf(m) < m.size + Blk
<1>1. m.size \in Nat
  BY DEF Member
<1> DEFINE x == m.size + Blk - 1
           y == x \div Blk
           r == x % Blk
<1>2. x \in Nat /\ y \in Nat /\ r \in Nat /\ r < Blk /\ x = Blk * y + r
  <2>1. x \in Nat
    BY <1>1
  <2> HIDE DEF x
  <2> QED
    BY <2>1, Division
<1>3. x = m.size + Blk - 1 /\ BlocksOf(m) = y
  BY DEF BlocksOf
<1> HIDE DEF x, y, r
<1> DEFINE z == Blk * y
<1>4. z \in Nat /\ x = z + r
  BY <1>2
<1> HIDE DEF z
<1>5. m.size <= z /\ z < m.size + Blk
  BY <1>1, <1>2, <1>3, <1>4
<1> QED
  BY <1>1, <1>2, <1>3, <1>5 DEF z

-----------------------------------------------------------------------------
(* What is in an archive. *)

\* The number of blocks in front of the j-th member; behind the last one they end.
Place(ms, j) == Len(Records(ms)[j - 1])

\* An intact archive: the records are at their places, and two null blocks end it.
Intact(a, ms) ==
    /\ \A j \in 1 .. Len(ms) :
          /\ Place(ms, j) \in Nat /\ Place(ms, j + 1) = Place(ms, j) + 1 + BlocksOf(ms[j])
          /\ Place(ms, j + 1) < Len(a)
          /\ a[Place(ms, j) + 1] = HeaderBlock(ms[j])
          /\ \A k \in 1 .. BlocksOf(ms[j]) : a[Place(ms, j) + 1 + k] = Block(ms[j], k)
    /\ Place(ms, 1) = 0 /\ Place(ms, Len(ms) + 1) \in Nat
    /\ Len(a) = Place(ms, Len(ms) + 1) + 2 /\ a[Place(ms, Len(ms) + 1) + 1] = Null

\* What an archive received for some members holds: behind every header of a member,
\* as far as the archive goes, the member's data.
Holds(a, ms) ==
    /\ Len(a) \in Nat
    /\ \A p \in 1 .. Len(a) : a[p].kind = "header" =>
          \E j \in 1 .. Len(ms) :
             /\ a[p] = HeaderBlock(ms[j])
             /\ \A k \in 1 .. BlocksOf(ms[j]) : p + k <= Len(a) => a[p + k] = Block(ms[j], k)

\* What is known of the packages: their layout is intact, and what is received of it
\* holds their members.
LayoutsHold ==
    \A ms \in Packages : Intact(Layout(ms), ms) /\ \A a \in Received(ms) : Holds(a, ms)

-----------------------------------------------------------------------------
(* microtar. *)

TarType == [pos : Nat, last_header : Nat, remaining_data : 0 .. Word - 1, fpos : Nat]

\* The calls that may fail, and what they may still move.
AFault ==
    [call : {"none", "fopen", "header", "back", "on", "past", "data", "again", "fwrite"}, moved : Nat]

\* Block q of the archive is the header of m, with the data of m behind it as far as
\* the archive goes.
Here(m, q) ==
    /\ q + 1 \in 1 .. Len(archive) /\ archive[q + 1] = HeaderBlock(m)
    /\ \A k \in 1 .. BlocksOf(m) : q + 1 + k <= Len(archive) => archive[q + 1 + k] = Block(m, k)

\* microtar stands in front of block q, and has read all of m or nothing; the block, if
\* it is read as a header again, is that of m.
AtHeader(t, n, m, q) ==
    /\ t.remaining_data = 0 /\ t.pos = Blk * q /\ t.fpos = Blk * q
    /\ \/ n = 0
       \/ n = m.size /\ (q + 1 <= Len(archive) /\ archive[q + 1].kind = "header" => Here(m, q))

\* microtar stands in the data of m, of which n bytes are left.
InData(t, n, m, q) ==
    /\ t.remaining_data = n /\ n > 0 /\ Here(m, q)
    /\ \E k \in Nat : m.size - n = Blk * k /\ t.fpos = Blk * (q + 1 + k)
    /\ t.last_header = Blk * q /\ t.pos = t.fpos

Stands(t, n, m, q) == AtHeader(t, n, m, q) \/ InData(t, n, m, q)

Archived == members \in Packages \cup {<<>>} /\ Holds(archive, members)

Errors == {"ESUCCESS", "EREADFAIL", "ESEEKFAIL", "EBADCHKSUM", "ENULLRECORD"}

\* A header that is read leaves both positions where the first one was; a read that
\* fails leaves them apart by what it did not consume.
ReadsHeader(t, f) ==
    LET r == mtar_read_header(t, f) IN
    /\ r.tar \in TarType /\ r.tar.remaining_data = t.remaining_data /\ r.err \in Errors
    /\ r.err = "ESUCCESS" =>
          t.fpos + Blk <= Bytes /\ RawAt(t.fpos).kind = "header" /\ r.h = RawAt(t.fpos)
    /\ f.call = "none" /\ t.fpos + Blk <= Bytes => r.err = raw_to_header(RawAt(t.fpos))
    /\ r.err \notin {"EREADFAIL", "ESEEKFAIL"} =>
          r.tar.pos = t.pos /\ r.tar.fpos = t.pos /\ r.tar.last_header = t.pos
    /\ r.err = "EREADFAIL" =>
          /\ r.tar.pos = t.pos + Blk
          /\ (f.call = "header" /\ r.tar.fpos = t.fpos + f.moved) \/ r.tar.fpos = Bytes

HeadersRead == \A t \in TarType, f \in AFault : ReadsHeader(t, f)

\* What a successful read of size bytes leaves and returns, when n were left.
Passes(d, n, size, m, q) ==
    /\ Stands(d.tar, n - size, m, q)
    /\ d.data = SubSeq(Content(m), m.size - n + 1, m.size - n + size)

\* All of m is in the archive.
Whole(m, q) == Here(m, q) /\ q + 1 + BlocksOf(m) <= Len(archive)

\* What a read leaves that fails or goes astray.
TypesKept(d) == d.tar \in TarType /\ d.err \in Errors

\* What a read for a member returns, of which n bytes are wanted, whether or not it
\* reloads the header: the count of remaining data never falls below what is read.
ReadsData(t, n, m, q, f) ==
    LET size == SmallerOf(n, Blk)
        d == mtar_read_data(t, size, f)
    IN /\ d.err = "ESUCCESS" => Passes(d, n, size, m, q)
       /\ f.call = "none" /\ Whole(m, q) => d.err = "ESUCCESS"

DataRead ==
    /\ \A t \in TarType, size \in Nat, f \in AFault : TypesKept(mtar_read_data(t, size, f))
    /\ \A t \in TarType, n \in Nat \ {0}, m \in Member, q \in Nat, f \in AFault :
          Stands(t, n, m, q) => ReadsData(t, n, m, q, f)

AByte == (Name \cup {"pad"}) \X Nat

\* The members of the archive, its length, and the types of a member.
LEMMA ArchiveType ==
    ASSUME Archived
    PROVE  /\ Len(archive) \in Nat /\ Bytes \in Nat /\ Bytes = Blk * Len(archive)
           /\ members \in Seq(Member) /\ Len(members) \in Nat
           /\ \A j \in 1 .. Len(members) : members[j] \in Member
<1>1. Len(archive) \in Nat
  BY DEF Archived, Holds
<1>2. members \in Seq(Member)
  <2>1. <<>> \in Seq(Member)
    OBVIOUS
  <2>2. members \in Packages \/ members = <<>>
    BY DEF Archived
  <2> QED
    BY <2>1, <2>2, UntarAssumption, Zenon
<1> QED
  BY <1>1, <1>2 DEF Bytes

\* The block at a multiple of the size of a block.
LEMMA BlockAt ==
    ASSUME Archived, NEW q \in Nat
    PROVE  /\ RawAt(Blk * q) = archive[q + 1]
           /\ Blk * q + Blk <= Bytes <=> q + 1 <= Len(archive)
<1>1. RawAt(Blk * q) = archive[q + 1]
  <2>1. (Blk * q) % Blk = 0 /\ (Blk * q) \div Blk = q
    BY Multiples
  <2> QED
    BY <2>1 DEF RawAt
<1>2. Len(archive) \in Nat /\ Bytes = Blk * Len(archive)
  BY ArchiveType
<1>3. Blk * (q + 1) = Blk * q + Blk /\ q + 1 \in Nat
  BY Multiples
<1>4. q + 1 <= Len(archive) => Blk * (q + 1) <= Blk * Len(archive)
  BY <1>2, <1>3, Multiples
<1>5. Len(archive) < q + 1 => Blk * Len(archive) + Blk <= Blk * (q + 1)
  BY <1>2, <1>3, Multiples
<1> DEFINE x == Blk * q
           y == Blk * Len(archive)
           z == Blk * (q + 1)
<1>6. x \in Nat /\ y \in Nat
  BY <1>2
<1> HIDE DEF x, y, z
<1>7. x + Blk <= y <=> q + 1 <= Len(archive)
  BY <1>2, <1>3, <1>4, <1>5, <1>6 DEF x, y, z
<1> QED
  BY <1>1, <1>2, <1>7 DEF x, y

\* A header that is read is that of a member, with its data behind it.
LEMMA HeaderAt ==
    ASSUME Archived, NEW p \in Nat, p + Blk <= Bytes, RawAt(p).kind = "header"
    PROVE  \E j \in 1 .. Len(members), q \in Nat :
              p = Blk * q /\ RawAt(p) = HeaderBlock(members[j]) /\ Here(members[j], q)
<1> DEFINE q == p \div Blk
<1>1. p % Blk = 0
  BY DEF RawAt
<1>2. q \in Nat /\ p = Blk * q
  <2>1. p = Blk * (p \div Blk) + (p % Blk) /\ p \div Blk \in Nat
    BY Division
  <2> QED
    BY <1>1, <2>1
<1> HIDE DEF q
<1>3. RawAt(p) = archive[q + 1] /\ q + 1 <= Len(archive)
  BY <1>2, BlockAt
<1>4. q + 1 \in 1 .. Len(archive)
  BY <1>2, <1>3, ArchiveType
<1>5. PICK j \in 1 .. Len(members) :
        /\ archive[q + 1] = HeaderBlock(members[j])
        /\ \A k \in 1 .. BlocksOf(members[j]) :
              q + 1 + k <= Len(archive) => archive[q + 1 + k] = Block(members[j], k)
  <2>1. \A p1 \in 1 .. Len(archive) : archive[p1].kind = "header" =>
           \E j \in 1 .. Len(members) :
              /\ archive[p1] = HeaderBlock(members[j])
              /\ \A k \in 1 .. BlocksOf(members[j]) :
                    p1 + k <= Len(archive) => archive[p1 + k] = Block(members[j], k)
    BY Zenon DEF Archived, Holds
  <2> QED
    BY <1>3, <1>4, <2>1, Zenon
<1>6. Here(members[j], q)
  BY <1>4, <1>5 DEF Here
<1> QED
  BY <1>2, <1>3, <1>5, <1>6

\* A seek sets both positions, or only the first.
LEMMA SeekMoves ==
    ASSUME NEW t \in TarType, NEW to \in Nat, NEW f, NEW call,
           NEW s, s = mtar_seek(t, to, f, call)
    PROVE  /\ s.tar \in TarType /\ s.tar.pos = to
           /\ s.tar.last_header = t.last_header /\ s.tar.remaining_data = t.remaining_data
           /\ f.call # call => s.err = "ESUCCESS" /\ s.tar.fpos = to
           /\ f.call = call => s.err = "ESEEKFAIL"
<1> DEFINE p == IF f.call = call THEN t.fpos ELSE to
<1>1. s = [tar |-> [t EXCEPT !.pos = to, !.fpos = p],
           err |-> IF f.call = call THEN "ESEEKFAIL" ELSE "ESUCCESS"]
  BY DEF mtar_seek, TarType
<1>2. p \in Nat /\ (f.call # call => p = to)
  BY DEF TarType
<1> HIDE DEF p
<1>3. s.tar = [t EXCEPT !.pos = to, !.fpos = p]
  BY <1>1
<1>4. /\ s.tar \in TarType /\ s.tar.pos = to /\ s.tar.fpos = p
      /\ s.tar.last_header = t.last_header /\ s.tar.remaining_data = t.remaining_data
  BY <1>2, <1>3, Zenon DEF TarType
<1>5. s.err = IF f.call = call THEN "ESEEKFAIL" ELSE "ESUCCESS"
  BY <1>1
<1> QED
  BY <1>2, <1>4, <1>5, Zenon

\* A part of a function.
LEMMA Part ==
    ASSUME NEW S, NEW s, NEW m \in Int, NEW n \in Int, \A i \in m .. n : s[i] \in S
    PROVE  /\ SubSeq(s, m, n) \in Seq(S)
           /\ Len(SubSeq(s, m, n)) = IF m <= n THEN n - m + 1 ELSE 0
           /\ \A i \in 1 .. n - m + 1 : SubSeq(s, m, n)[i] = s[m + i - 1]
OBVIOUS

\* Sequences of the same length and elements.
LEMMA SameSeq ==
    ASSUME NEW S, NEW s \in Seq(S), NEW t \in Seq(S), Len(s) = Len(t),
           \A i \in 1 .. Len(s) : s[i] = t[i]
    PROVE  s = t
OBVIOUS

\* The bytes of a member.
LEMMA ContentBytes ==
    ASSUME NEW m \in Member
    PROVE  /\ Content(m) \in Seq(AByte) /\ Len(Content(m)) = m.size
           /\ \A i \in 1 .. m.size : Content(m)[i] = <<m.name, i>>
<1> DEFINE n == m.size
           c == Content(m)
<1>1. n \in Nat /\ m.name \in Name
  BY DEF Member
<1>2. c = [i \in 1 .. n |-> <<m.name, i>>]
  BY DEF Content
<1> HIDE DEF n, c
<1>3. \A i \in 1 .. n : <<m.name, i>> \in AByte
  BY <1>1 DEF AByte
<1>4. c \in [1 .. n -> AByte] /\ \A i \in 1 .. n : c[i] = <<m.name, i>>
  BY <1>2, <1>3
<1>5. c \in Seq(AByte) /\ Len(c) = n
  BY <1>1, <1>4
<1> QED
  BY <1>4, <1>5 DEF n, c

\* A part of the bytes of a member.
LEMMA PartOfContent ==
    ASSUME NEW m \in Member, NEW from \in Nat, NEW size \in Nat, from + size <= m.size
    PROVE  LET part == SubSeq(Content(m), from + 1, from + size) IN
           /\ part \in Seq(AByte) /\ Len(part) = size
           /\ \A i \in 1 .. size : part[i] = <<m.name, from + i>>
<1> DEFINE c == Content(m)
           lo == from + 1
           hi == from + size
           part == SubSeq(c, lo, hi)
<1>1. c \in Seq(AByte) /\ Len(c) = m.size /\ \A i \in 1 .. m.size : c[i] = <<m.name, i>>
  BY ContentBytes
<1>2. m.size \in Nat
  BY DEF Member
<1>3. lo = from + 1 /\ hi = from + size /\ lo \in Int /\ hi \in Int
  OBVIOUS
<1> HIDE DEF c, lo, hi
<1>4. \A i \in lo .. hi : c[i] \in AByte
  BY <1>1, <1>2, <1>3
<1>5. /\ part \in Seq(AByte) /\ Len(part) = IF lo <= hi THEN hi - lo + 1 ELSE 0
      /\ \A i \in 1 .. hi - lo + 1 : part[i] = c[lo + i - 1]
  BY <1>3, <1>4, Part
<1>6. hi - lo + 1 = size /\ (lo <= hi <=> size > 0)
  BY <1>3
<1> HIDE DEF part
<1>7. Len(part) = size
  BY <1>5, <1>6
<1>8. ASSUME NEW i \in 1 .. size PROVE part[i] = <<m.name, from + i>>
  <2>1. lo + i - 1 = from + i /\ from + i \in 1 .. m.size
    BY <1>2, <1>3
  <2>2. part[i] = c[from + i]
    BY <1>5, <1>6, <2>1
  <2> QED
    BY <1>1, <2>1, <2>2
<1> QED
  BY <1>3, <1>5, <1>7, <1>8, Zenon DEF part, c

\* Both hold of every archive that was received.
LEMMA Reads == Archived => HeadersRead /\ DataRead
\* What a read does to the two positions.
<1>ReadMoves. ASSUME Len(archive) \in Nat, NEW t \in TarType, NEW size \in Nat, NEW f \in AFault,
                     NEW call, NEW r, r = tread(t, size, f, call)
              PROVE  /\ r.tar \in TarType /\ r.tar.pos = t.pos + size
                     /\ r.tar.last_header = t.last_header /\ r.tar.remaining_data = t.remaining_data
                     /\ \/ r.err = "ESUCCESS" /\ t.fpos + size <= Bytes /\ r.tar.fpos = t.fpos + size
                        \/ /\ r.err = "EREADFAIL"
                           /\ (f.call = call /\ r.tar.fpos = t.fpos + f.moved) \/ r.tar.fpos = Bytes
                     /\ f.call # call /\ t.fpos + size <= Bytes => r.err = "ESUCCESS"
  <2> USE <1>ReadMoves
  <2>1. Bytes \in Nat
    BY DEF Bytes
  <2>2. t.pos \in Nat /\ t.fpos \in Nat /\ f.moved \in Nat
    BY DEF TarType, AFault
  <2> DEFINE to == IF f.call = call THEN t.fpos + f.moved
                   ELSE IF t.fpos + size > Bytes THEN Bytes ELSE t.fpos + size
             err == IF f.call = call \/ t.fpos + size > Bytes THEN "EREADFAIL" ELSE "ESUCCESS"
  <2>3. r = [tar |-> [t EXCEPT !.pos = t.pos + size, !.fpos = to], err |-> err]
    BY DEF tread, TarType
  <2>4. to \in Nat /\ t.pos + size \in Nat
    BY <2>1, <2>2
  <2>5. \/ err = "ESUCCESS" /\ t.fpos + size <= Bytes /\ to = t.fpos + size
        \/ err = "EREADFAIL" /\ ((f.call = call /\ to = t.fpos + f.moved) \/ to = Bytes)
    BY <2>1, <2>2
  <2>8. f.call # call /\ t.fpos + size <= Bytes => err = "ESUCCESS"
    BY <2>1, <2>2
  <2> HIDE DEF to, err
  <2>6. r.tar = [t EXCEPT !.pos = t.pos + size, !.fpos = to] /\ r.err = err
    BY <2>3
  <2>7. /\ r.tar \in TarType /\ r.tar.pos = t.pos + size /\ r.tar.fpos = to
        /\ r.tar.last_header = t.last_header /\ r.tar.remaining_data = t.remaining_data
    BY <2>4, <2>6, Zenon DEF TarType
  <2> QED
    BY <2>5, <2>6, <2>7, <2>8
\* mtar_read_header does that.
<1>HeaderReads. Archived => HeadersRead
  <2> SUFFICES ASSUME Archived, NEW t \in TarType, NEW f \in AFault
               PROVE  ReadsHeader(t, f)
    BY DEF HeadersRead
  <2> DEFINE marked == [t EXCEPT !.last_header = t.pos]
             r == tread(marked, Blk, f, "header")
             s == mtar_seek(r.tar, t.pos, f, "back")
             e == raw_to_header(RawAt(t.fpos))
             m == mtar_read_header(t, f)
  <2>1. /\ marked \in TarType /\ marked.pos = t.pos /\ marked.fpos = t.fpos
        /\ marked.last_header = t.pos /\ marked.remaining_data = t.remaining_data
        /\ t.pos \in Nat /\ t.fpos \in Nat
    BY Zenon DEF TarType
  <2>2. e \in Errors \ {"EREADFAIL", "ESEEKFAIL"} /\ (e = "ESUCCESS" => RawAt(t.fpos).kind = "header")
    BY DEF raw_to_header, Errors
  <2>3. r.err # "ESUCCESS" => m = [tar |-> r.tar, err |-> r.err, h |-> NoHeader]
    BY Zenon DEF mtar_read_header
  <2>4. r.err = "ESUCCESS" =>
           m = IF s.err # "ESUCCESS" THEN [tar |-> s.tar, err |-> s.err, h |-> NoHeader]
               ELSE [tar |-> s.tar, err |-> e, h |-> IF e = "ESUCCESS" THEN RawAt(t.fpos) ELSE NoHeader]
    BY Zenon DEF mtar_read_header
  <2>0. r = tread(marked, Blk, f, "header") /\ s = mtar_seek(r.tar, t.pos, f, "back")
    OBVIOUS
  <2> HIDE DEF marked, e, m, r, s
  <2>5. /\ r.tar \in TarType /\ r.tar.pos = t.pos + Blk
        /\ r.tar.remaining_data = t.remaining_data /\ r.tar.last_header = t.pos
        /\ \/ r.err = "ESUCCESS" /\ t.fpos + Blk <= Bytes
           \/ r.err = "EREADFAIL" /\ ((f.call = "header" /\ r.tar.fpos = t.fpos + f.moved) \/ r.tar.fpos = Bytes)
        /\ f.call # "header" /\ t.fpos + Blk <= Bytes => r.err = "ESUCCESS"
    <3>1. Blk \in Nat /\ Len(archive) \in Nat
      BY ArchiveType
    <3>2. /\ r.tar \in TarType /\ r.tar.pos = marked.pos + Blk
          /\ r.tar.remaining_data = marked.remaining_data /\ r.tar.last_header = marked.last_header
          /\ \/ r.err = "ESUCCESS" /\ marked.fpos + Blk <= Bytes
             \/ /\ r.err = "EREADFAIL"
                /\ (f.call = "header" /\ r.tar.fpos = marked.fpos + f.moved) \/ r.tar.fpos = Bytes
          /\ f.call # "header" /\ marked.fpos + Blk <= Bytes => r.err = "ESUCCESS"
      <4>1. marked \in TarType /\ f \in AFault /\ r = tread(marked, Blk, f, "header")
        BY <2>0, <2>1
      <4> QED
        BY ONLY <3>1, <4>1, <1>ReadMoves
    <3> QED
      BY <2>1, <3>2
  <2>6. /\ s.tar \in TarType /\ s.tar.pos = t.pos
        /\ s.tar.last_header = r.tar.last_header /\ s.tar.remaining_data = r.tar.remaining_data
        /\ f.call # "back" => s.err = "ESUCCESS" /\ s.tar.fpos = t.pos
        /\ f.call = "back" => s.err = "ESEEKFAIL"
    BY ONLY <2>0, <2>1, <2>5, SeekMoves
  <2>7. CASE r.err # "ESUCCESS"
    <3>1. m.tar = r.tar /\ m.err = "EREADFAIL"
      BY <2>3, <2>5, <2>7
    <3> QED
      BY <2>5, <2>7, <3>1 DEF ReadsHeader, Errors, m
  <2>8. CASE r.err = "ESUCCESS" /\ s.err # "ESUCCESS"
    <3>1. m.tar = s.tar /\ m.err = "ESEEKFAIL" /\ f.call = "back"
      BY <2>4, <2>6, <2>8
    <3> QED
      BY <2>5, <2>6, <3>1 DEF ReadsHeader, Errors, m
  <2>9. CASE r.err = "ESUCCESS" /\ s.err = "ESUCCESS"
    <3>1. /\ m.tar = s.tar /\ m.err = e /\ f.call # "back"
          /\ e = "ESUCCESS" => m.h = RawAt(t.fpos)
      BY <2>4, <2>6, <2>9
    <3>2. /\ m.tar \in TarType /\ m.tar.pos = t.pos /\ m.tar.fpos = t.pos
          /\ m.tar.last_header = t.pos /\ m.tar.remaining_data = t.remaining_data
      BY <2>5, <2>6, <3>1
    <3> QED
      BY <2>2, <2>5, <2>9, <3>1, <3>2 DEF ReadsHeader, m, e
  <2> QED
    BY <2>7, <2>8, <2>9
\* Whatever it finds, a read of data keeps the types.
<1>ChunkTypes. ASSUME Archived, NEW t \in TarType, NEW size \in Nat, NEW f \in AFault,
                      NEW c, c = ReadChunk(t, size, f)
               PROVE  TypesKept(c)
  <2> USE <1>ChunkTypes
  <2> DEFINE r == tread(t, size, f, "data")
             left == (t.remaining_data - size) % Word
             counted == [r.tar EXCEPT !.remaining_data = left]
             s == mtar_seek(counted, t.last_header, f, "again")
  <2>0. r = tread(t, size, f, "data") /\ s = mtar_seek(counted, t.last_header, f, "again")
    OBVIOUS
  <2>1. c = IF r.err # "ESUCCESS" THEN [tar |-> r.tar, err |-> r.err, data |-> <<>>]
            ELSE [tar |-> IF left = 0 THEN s.tar ELSE counted,
                  err |-> IF left = 0 THEN s.err ELSE "ESUCCESS", data |-> DataAt(t.fpos, size)]
    BY Zenon DEF ReadChunk
  <2>2. left \in 0 .. Word - 1 /\ t.last_header \in Nat
    <3>1. t.remaining_data \in 0 .. Word - 1 /\ t.last_header \in Nat
      BY Zenon DEF TarType
    <3> QED
      BY <3>1, Unsigned, Zenon
  <2>5. counted = [r.tar EXCEPT !.remaining_data = left]
    OBVIOUS
  <2> HIDE DEF r, left, s
  <2>3. r.tar \in TarType /\ r.err \in Errors
    <3>1. Len(archive) \in Nat
      BY ArchiveType
    <3>2. r.tar \in TarType /\ (r.err = "ESUCCESS" \/ r.err = "EREADFAIL")
      BY ONLY <2>0, <3>1, t \in TarType, size \in Nat, f \in AFault, <1>ReadMoves
    <3> QED
      BY <3>2, Zenon DEF Errors
  <2>4. counted \in TarType
    BY <2>2, <2>3, Zenon DEF TarType
  <2> HIDE DEF counted
  <2>6. s.tar \in TarType /\ (s.err = "ESUCCESS" \/ s.err = "ESEEKFAIL")
    BY ONLY <2>0, <2>2, <2>4, SeekMoves
  <2> QED
    BY <2>1, <2>3, <2>4, <2>6 DEF TypesKept, Errors
<1>DataTypes. ASSUME Archived, NEW t \in TarType, NEW size \in Nat, NEW f \in AFault,
                     NEW d, d = mtar_read_data(t, size, f)
              PROVE  TypesKept(d)
  <2> USE <1>DataTypes
  <2> DEFINE r == mtar_read_header(t, f)
             s == mtar_seek(r.tar, r.tar.pos + Blk, f, "past")
             u == [s.tar EXCEPT !.remaining_data = r.h.size]
  <2>0. s = mtar_seek(r.tar, r.tar.pos + Blk, f, "past") /\ u = [s.tar EXCEPT !.remaining_data = r.h.size]
    OBVIOUS
  <2>1. d = IF t.remaining_data # 0 THEN ReadChunk(t, size, f)
            ELSE IF r.err # "ESUCCESS" THEN [tar |-> r.tar, err |-> r.err, data |-> <<>>]
            ELSE IF s.err # "ESUCCESS" THEN [tar |-> s.tar, err |-> s.err, data |-> <<>>]
            ELSE ReadChunk(u, size, f)
    BY Zenon DEF mtar_read_data
  <2>2. /\ r.tar \in TarType /\ r.err \in Errors
        /\ r.err = "ESUCCESS" =>
              t.fpos + Blk <= Bytes /\ RawAt(t.fpos).kind = "header" /\ r.h = RawAt(t.fpos)
    <3>1. HeadersRead
      BY <1>HeaderReads
    <3>2. ReadsHeader(t, f)
      BY <3>1, Zenon DEF HeadersRead
    <3> QED
      BY <3>2, Zenon DEF ReadsHeader
  <2> HIDE DEF r, s, u
  <2>3. s.tar \in TarType /\ (s.err = "ESUCCESS" \/ s.err = "ESEEKFAIL")
    <3>1. r.tar.pos + Blk \in Nat
      BY <2>2 DEF TarType
    <3> QED
      BY ONLY <2>0, <2>2, <3>1, SeekMoves
  <2>4. ASSUME r.err = "ESUCCESS" PROVE u \in TarType
    <3>1. t.fpos \in Nat
      BY DEF TarType
    <3>2. PICK j \in 1 .. Len(members) : RawAt(t.fpos) = HeaderBlock(members[j])
      BY <2>2, <2>4, <3>1, HeaderAt, Zenon
    <3>3. r.h.size \in 0 .. IntMax
      <4>1. members[j] \in Member
        BY ArchiveType
      <4> QED
        BY <2>2, <2>4, <3>2, <4>1 DEF HeaderBlock, Member
    <3>4. r.h.size \in 0 .. Word - 1
      BY <3>3 DEF Word
    <3> QED
      BY <2>0, <2>3, <3>4, Zenon DEF TarType
  <2>5. CASE t.remaining_data # 0
    <3>1. d = ReadChunk(t, size, f)
      BY <2>1, <2>5, Zenon
    <3> QED
      BY <3>1, <1>ChunkTypes, Zenon
  <2>6. CASE t.remaining_data = 0 /\ r.err = "ESUCCESS" /\ s.err = "ESUCCESS"
    <3>1. d = ReadChunk(u, size, f) /\ u \in TarType
      BY <2>1, <2>4, <2>6, Zenon
    <3> QED
      BY <3>1, <1>ChunkTypes, Zenon
  <2>7. CASE t.remaining_data = 0 /\ ~ (r.err = "ESUCCESS" /\ s.err = "ESUCCESS")
    BY <2>1, <2>2, <2>3, <2>7 DEF TypesKept, Errors
  <2> QED
    BY <2>5, <2>6, <2>7, Zenon
\* A read of data behind the header of m returns the bytes of m.
<1>DataOfMember. ASSUME Archived, NEW m \in Member, NEW q \in Nat, Here(m, q), NEW k \in Nat,
                        NEW n \in Nat, m.size - n = Blk * k, NEW size \in Nat, size > 0, size <= n, size <= Blk,
                        Blk * (q + 1 + k) + size <= Bytes
                 PROVE  DataAt(Blk * (q + 1 + k), size) = SubSeq(Content(m), Blk * k + 1, Blk * k + size)
  <2> USE <1>DataOfMember
  <2> DEFINE from == Blk * k
             p == Blk * (q + 1 + k)
             l == Len(archive)
             x == q + 1 + k
             b == Block(m, k + 1)
  <2>1. from \in Nat /\ m.size \in Nat /\ m.size - n = from /\ BlocksOf(m) \in Nat
    BY Multiples, BlocksHold
  <2>2. from + size <= m.size
    <3> HIDE DEF from
    <3> QED
      BY <2>1
  <2>3. l \in Nat /\ Bytes = Blk * l
    BY ArchiveType
  <2>4. x \in Nat /\ p % Blk = 0 /\ p \div Blk = x
    <3>1. x \in Nat
      OBVIOUS
    <3> HIDE DEF x
    <3>2. (Blk * x) % Blk = 0 /\ (Blk * x) \div Blk = x
      BY <3>1, Multiples
    <3> QED
      BY <3>1, <3>2 DEF x
  <2>5. x < l
    <3>1. Blk * x < Blk * l
      <4>1. Blk * x + size <= Blk * l
        BY <2>3
      <4>2. Blk * x \in Nat /\ Blk * l \in Nat
        BY <2>3, <2>4, Multiples
      <4> QED
        BY <4>1, <4>2
    <3> HIDE DEF x
    <3> QED
      BY <2>3, <2>4, <3>1, Multiples
  <2>6. k + 1 \in 1 .. BlocksOf(m)
    <3>1. m.size <= Blk * BlocksOf(m)
      BY BlocksHold
    <3>2. Blk * k < Blk * BlocksOf(m)
      <4> DEFINE y == Blk * BlocksOf(m)
      <4>1. y \in Nat
        BY <2>1, Multiples
      <4> HIDE DEF from, y
      <4>2. from < y
        BY <2>1, <2>2, <3>1, <4>1 DEF y
      <4> QED
        BY <4>2 DEF from, y
    <3>3. k < BlocksOf(m)
      BY <2>1, <3>2, Multiples
    <3> QED
      BY <2>1, <3>3
  <2>7. archive[x + 1] = b
    <3>1. x + 1 = q + 1 + (k + 1) /\ q + 1 + (k + 1) <= l
      BY <2>3, <2>5
    <3>2. archive[q + 1 + (k + 1)] = Block(m, k + 1)
      BY <2>6, <3>1 DEF Here
    <3> QED
      BY <3>1, <3>2
  <2>8. /\ b.kind = "data"
        /\ \A i \in 1 .. Blk : b.bytes[i] = IF from + i <= m.size THEN <<m.name, from + i>> ELSE <<"pad", i>>
    <3>1. ((k + 1) - 1) * Blk = from
      OBVIOUS
    <3> HIDE DEF from
    <3> DEFINE z == ((k + 1) - 1) * Blk
    <3>2. b = [kind |-> "data",
               bytes |-> [i \in 1 .. Blk |-> IF z + i <= m.size THEN <<m.name, z + i>> ELSE <<"pad", i>>]]
      BY Zenon DEF Block
    <3>3. z = from
      BY <3>1
    <3> HIDE DEF b, z
    <3> QED
      BY <3>2, <3>3
  <2>9. DataAt(p, size) = SubSeq(b.bytes, 1, size)
    <3>1. (p % Blk) + 1 = 1 /\ (p % Blk) + size = size
      BY <2>4
    <3>2. p \div Blk + 1 = x + 1
      BY <2>4
    <3> HIDE DEF p, x, b
    <3> QED
      BY <2>7, <2>8, <3>1, <3>2, Zenon DEF DataAt
  <2> HIDE DEF b, from
  <2>10. ASSUME NEW i \in 1 .. size PROVE b.bytes[i] = <<m.name, from + i>>
    <3>1. i \in 1 .. Blk /\ from + i <= m.size
      BY <2>1, <2>2
    <3> QED
      BY <2>8, <3>1, Zenon
  <2> DEFINE s == b.bytes
             d == SubSeq(s, 1, size)
             c == SubSeq(Content(m), from + 1, from + size)
  <2>11. /\ d \in Seq(AByte) /\ Len(d) = size
         /\ \A i \in 1 .. size : d[i] = <<m.name, from + i>>
    <3>0. \A i \in 1 .. size : s[i] = <<m.name, from + i>>
      BY <2>10
    <3> HIDE DEF s
    <3>1. \A i \in 1 .. size : s[i] \in AByte
      <4> SUFFICES ASSUME NEW i \in 1 .. size PROVE s[i] \in AByte
        OBVIOUS
      <4>1. m.name \in Name /\ from + i \in Nat
        BY <2>1 DEF Member
      <4>2. <<m.name, from + i>> \in AByte
        BY <4>1 DEF AByte
      <4> QED
        BY <3>0, <4>2
    <3>2. 1 \in Int /\ size \in Int
      OBVIOUS
    <3>3. /\ d \in Seq(AByte) /\ Len(d) = IF 1 <= size THEN size - 1 + 1 ELSE 0
          /\ \A i \in 1 .. size - 1 + 1 : d[i] = s[1 + i - 1]
      BY <3>1, <3>2, Part
    <3>4. size - 1 + 1 = size /\ \A i \in 1 .. size : 1 + i - 1 = i
      OBVIOUS
    <3> HIDE DEF d
    <3>5. ASSUME NEW i \in 1 .. size PROVE d[i] = <<m.name, from + i>>
      <4>1. i \in 1 .. size - 1 + 1 /\ 1 + i - 1 = i
        OBVIOUS
      <4>2. d[i] = s[i]
        BY <3>3, <4>1, Zenon
      <4> QED
        BY <3>0, <4>2, Zenon
    <3>6. Len(d) = size
      BY <3>3
    <3> QED
      BY <3>3, <3>5, <3>6
  <2>12. /\ c \in Seq(AByte) /\ Len(c) = size
         /\ \A i \in 1 .. size : c[i] = <<m.name, from + i>>
    <3>1. from \in Nat /\ size \in Nat /\ from + size <= m.size
      BY <2>1, <2>2
    <3> QED
      BY <3>1, PartOfContent, Zenon
  <2> HIDE DEF c, d
  <2>13. c = d
    BY <2>11, <2>12, SameSeq, Zenon
  <2> QED
    BY <2>9, <2>13 DEF c, d, from, p
\* A read that does not reload the header.
<1>ChunkReads. ASSUME Archived, NEW m \in Member, NEW q \in Nat, NEW n \in Nat, NEW t \in TarType,
                      InData(t, n, m, q), NEW size, size = SmallerOf(n, Blk),
                      NEW f \in AFault, NEW c, c = ReadChunk(t, size, f)
               PROVE  /\ c.err = "ESUCCESS" => Passes(c, n, size, m, q)
                      /\ f.call = "none" /\ Whole(m, q) => c.err = "ESUCCESS"
  <2> USE <1>ChunkReads
  <2> DEFINE r == tread(t, size, f, "data")
             left == n - size
             counted == [r.tar EXCEPT !.remaining_data = left]
             s == mtar_seek(counted, t.last_header, f, "again")
  <2>0. r = tread(t, size, f, "data") /\ s = mtar_seek(counted, t.last_header, f, "again")
        /\ counted = [r.tar EXCEPT !.remaining_data = left]
    OBVIOUS
  <2>1. PICK k \in Nat : m.size - n = Blk * k /\ t.fpos = Blk * (q + 1 + k)
    BY DEF InData
  <2>2. /\ t.remaining_data = n /\ n > 0 /\ Here(m, q)
        /\ t.last_header = Blk * q /\ t.pos = t.fpos /\ t.fpos \in Nat
    BY DEF InData, TarType
  <2>3. size \in Nat /\ size > 0 /\ size <= n /\ size <= Blk /\ left \in Nat /\ (left # 0 => size = Blk)
    BY <2>2 DEF SmallerOf
  <2>9. n \in 0 .. Word - 1 /\ left \in 0 .. Word - 1 /\ (n - size) % Word = left
    <3>1. n \in 0 .. Word - 1
      BY <2>2 DEF TarType
    <3>2. (n - size) % Word \in 0 .. Word - 1 /\ (n - size) % Word = n - size
      BY <2>3, <3>1, Unsigned
    <3> QED
      BY <3>1, <3>2
  <2>4. c = IF r.err # "ESUCCESS" THEN [tar |-> r.tar, err |-> r.err, data |-> <<>>]
            ELSE [tar |-> IF left = 0 THEN s.tar ELSE counted,
                  err |-> IF left = 0 THEN s.err ELSE "ESUCCESS", data |-> DataAt(t.fpos, size)]
    <3> DEFINE l == (t.remaining_data - size) % Word
               w == [r.tar EXCEPT !.remaining_data = l]
    <3>1. c = IF r.err # "ESUCCESS" THEN [tar |-> r.tar, err |-> r.err, data |-> <<>>]
              ELSE [tar |-> IF l = 0 THEN mtar_seek(w, t.last_header, f, "again").tar ELSE w,
                    err |-> IF l = 0 THEN mtar_seek(w, t.last_header, f, "again").err ELSE "ESUCCESS",
                    data |-> DataAt(t.fpos, size)]
      BY Zenon DEF ReadChunk
    <3>2. l = left
      BY <2>2, <2>9, Zenon
    <3> HIDE DEF l, left
    <3> QED
      BY <3>1, <3>2, Zenon
  <2> HIDE DEF r, s
  <2>6. /\ r.tar \in TarType /\ r.tar.pos = t.pos + size /\ r.tar.last_header = t.last_header
        /\ \/ r.err = "ESUCCESS" /\ t.fpos + size <= Bytes /\ r.tar.fpos = t.fpos + size
           \/ r.err = "EREADFAIL"
        /\ f.call # "data" /\ t.fpos + size <= Bytes => r.err = "ESUCCESS"
    <3>1. Len(archive) \in Nat /\ size \in Nat
      BY <2>3, ArchiveType
    <3> QED
      BY ONLY <2>0, <3>1, t \in TarType, f \in AFault, <1>ReadMoves
  <2>10. counted \in TarType /\ counted.remaining_data = left /\ counted.pos = r.tar.pos
         /\ counted.fpos = r.tar.fpos /\ counted.last_header = r.tar.last_header
    <3> HIDE DEF left, counted
    <3> QED
      BY <2>0, <2>6, <2>9, Zenon DEF TarType
  <2> HIDE DEF counted
  <2>11. /\ s.tar \in TarType /\ s.tar.pos = t.last_header /\ s.tar.remaining_data = counted.remaining_data
         /\ f.call # "again" => s.err = "ESUCCESS"
         /\ s.err = "ESUCCESS" => s.tar.fpos = t.last_header
    <3>1. t.last_header \in Nat
      BY DEF TarType
    <3>2. counted \in TarType /\ s = mtar_seek(counted, t.last_header, f, "again")
      BY <2>0, <2>10
    <3> QED
      BY ONLY <3>1, <3>2, SeekMoves
  <2>7. CASE r.err # "ESUCCESS"
    <3>1. c.err = "EREADFAIL"
      BY <2>4, <2>6, <2>7
    <3>2. f.call = "none" => ~ Whole(m, q)
      <4> SUFFICES ASSUME Whole(m, q) PROVE t.fpos + size <= Bytes
        BY <2>6, <2>7
      <4> DEFINE l == Len(archive)
                 b == BlocksOf(m)
      <4>1. l \in Nat /\ Bytes = Blk * l /\ b \in Nat /\ q + 1 + b <= l /\ m.size \in Nat
        BY ArchiveType, BlocksHold DEF Whole
      <4>2. m.size <= Blk * b
        BY BlocksHold
      <4> HIDE DEF b, l
      <4>3. k < b
        <5> DEFINE x == Blk * k
                   y == Blk * b
        <5>1. x \in Nat /\ y \in Nat
          BY <4>1, Multiples
        <5>2. x < y
          <6> HIDE DEF x, y
          <6> QED
            BY <2>1, <2>2, <4>1, <4>2, <5>1 DEF x, y
        <5> QED
          BY <4>1, <5>2, Multiples
      <4>4. q + 1 + k \in Nat /\ q + 1 + k < l
        BY <4>1, <4>3
      <4> DEFINE z == q + 1 + k
      <4> HIDE DEF z
      <4>5. Blk * z + Blk <= Blk * l /\ Blk * z \in Nat /\ Blk * l \in Nat
        BY <4>1, <4>4, Multiples DEF z
      <4>6. t.fpos = Blk * z
        BY <2>1 DEF z
      <4> QED
        BY <2>3, <4>1, <4>5, <4>6
    <3> QED
      BY <3>1, <3>2
  <2>8. CASE r.err = "ESUCCESS"
    <3>1. t.fpos + size <= Bytes /\ r.tar.fpos = t.fpos + size
      BY <2>6, <2>8
    <3>2. c.data = SubSeq(Content(m), m.size - n + 1, m.size - n + size)
      <4>1. Blk * (q + 1 + k) + size <= Bytes
        BY <2>1, <3>1
      <4>2. DataAt(Blk * (q + 1 + k), size) = SubSeq(Content(m), Blk * k + 1, Blk * k + size)
        <5>1. /\ m.size - n = Blk * k /\ Here(m, q) /\ size \in Nat /\ size > 0
              /\ size <= n /\ size <= Blk
          BY <2>1, <2>2, <2>3
        <5> QED
          BY ONLY Archived, m \in Member, q \in Nat, k \in Nat, n \in Nat, <4>1, <5>1, <1>DataOfMember, SMTT(20)
      <4>3. c.data = DataAt(t.fpos, size)
        BY <2>4, <2>8
      <4> QED
        BY <2>1, <4>2, <4>3
    <3>4. CASE left = 0
      <4>1. c.tar = s.tar /\ c.err = s.err
        BY <2>4, <2>8, <3>4
      <4>2. ASSUME s.err = "ESUCCESS"
            PROVE  s.tar.remaining_data = 0 /\ s.tar.pos = Blk * q /\ s.tar.fpos = Blk * q
        BY <2>2, <2>10, <2>11, <3>4, <4>2
      <4>3. s.err = "ESUCCESS" => Stands(s.tar, left, m, q)
        BY <3>4, <4>2 DEF Stands, AtHeader
      <4> QED
        BY <2>11, <3>2, <4>1, <4>3 DEF Passes
    <3>5. CASE left # 0
      <4> DEFINE u == counted
      <4>1. c.tar = u /\ c.err = "ESUCCESS"
        BY <2>4, <2>8, <3>5
      <4>2. /\ u \in TarType /\ u.remaining_data = left /\ u.last_header = Blk * q
            /\ u.pos = t.fpos + Blk /\ u.fpos = t.fpos + Blk
        <5> HIDE DEF left
        <5> QED
          BY <2>2, <2>3, <2>6, <2>10, <3>1, <3>5
      <4> HIDE DEF u
      <4>3. m.size - left = Blk * (k + 1) /\ t.fpos + Blk = Blk * (q + 1 + (k + 1))
        <5> DEFINE x == Blk * k
                   z == q + 1 + k
                   y == Blk * z
        <5>1. x \in Nat /\ Blk * (k + 1) = x + Blk
          BY Multiples
        <5>2. z \in Nat /\ q + 1 + (k + 1) = z + 1
          OBVIOUS
        <5>3. y \in Nat /\ Blk * (z + 1) = y + Blk
          <6> HIDE DEF z
          <6> QED
            BY <5>2, Multiples
        <5>4. m.size \in Nat
          BY BlocksHold
        <5>5. t.fpos = y /\ m.size - n = x
          BY <2>1
        <5> HIDE DEF x, y, z
        <5> QED
          BY <2>3, <3>5, <5>1, <5>2, <5>3, <5>4, <5>5
      <4>4. InData(u, left, m, q)
        <5>1. k + 1 \in Nat /\ left > 0
          BY <2>3, <3>5
        <5> HIDE DEF left
        <5> QED
          BY <2>2, <4>2, <4>3, <5>1 DEF InData
      <4> QED
        BY <3>2, <4>1, <4>4 DEF Passes, Stands
    <3> QED
      BY <3>4, <3>5
  <2> QED
    BY <2>7, <2>8
\* A read for a member of which n bytes are wanted, whether or not it reloads the
\* header: the count of remaining data never falls below what is read.
<1>DataReads. ASSUME Archived, NEW m \in Member, NEW q \in Nat, NEW n \in Nat, n > 0, NEW t \in TarType,
                     Stands(t, n, m, q), NEW size, size = SmallerOf(n, Blk),
                     NEW f \in AFault, NEW d, d = mtar_read_data(t, size, f)
              PROVE  /\ d.err = "ESUCCESS" => Passes(d, n, size, m, q)
                     /\ f.call = "none" /\ Whole(m, q) => d.err = "ESUCCESS"
  <2> USE <1>DataReads
  <2>1. CASE InData(t, n, m, q)
    <3>1. d = ReadChunk(t, size, f)
      BY <2>1 DEF mtar_read_data, InData
    <3> QED
      BY <2>1, <3>1, <1>ChunkReads
  <2>2. CASE AtHeader(t, n, m, q)
    <3> DEFINE r == mtar_read_header(t, f)
               s == mtar_seek(r.tar, r.tar.pos + Blk, f, "past")
               u == [s.tar EXCEPT !.remaining_data = r.h.size]
    <3>1. s = mtar_seek(r.tar, r.tar.pos + Blk, f, "past") /\ u = [s.tar EXCEPT !.remaining_data = r.h.size]
      OBVIOUS
    <3>2. /\ t.remaining_data = 0 /\ t.pos = Blk * q /\ t.fpos = Blk * q /\ n = m.size
          /\ q + 1 <= Len(archive) /\ archive[q + 1].kind = "header" => Here(m, q)
      BY <2>2 DEF AtHeader
    <3>3. d = IF r.err # "ESUCCESS" THEN [tar |-> r.tar, err |-> r.err, data |-> <<>>]
              ELSE IF s.err # "ESUCCESS" THEN [tar |-> s.tar, err |-> s.err, data |-> <<>>]
              ELSE ReadChunk(u, size, f)
      BY <3>2, Zenon DEF mtar_read_data
    <3>5. /\ r.tar \in TarType
          /\ r.err = "ESUCCESS" =>
                /\ t.fpos + Blk <= Bytes /\ RawAt(t.fpos).kind = "header" /\ r.h = RawAt(t.fpos)
                /\ r.tar.pos = t.pos /\ r.tar.last_header = t.pos
          /\ f.call = "none" /\ t.fpos + Blk <= Bytes => r.err = raw_to_header(RawAt(t.fpos))
      BY <1>HeaderReads DEF HeadersRead, ReadsHeader
    <3>6. RawAt(t.fpos) = archive[q + 1] /\ (t.fpos + Blk <= Bytes <=> q + 1 <= Len(archive))
      BY <3>2, BlockAt
    <3> HIDE DEF r, s, u
    <3>9. /\ s.tar \in TarType /\ s.tar.pos = r.tar.pos + Blk /\ s.tar.last_header = r.tar.last_header
          /\ f.call # "past" => s.err = "ESUCCESS"
          /\ s.err = "ESUCCESS" => s.tar.fpos = r.tar.pos + Blk
      <4>1. r.tar.pos + Blk \in Nat
        BY <3>5 DEF TarType
      <4> QED
        BY ONLY <3>1, <3>5, <4>1, SeekMoves
    <3>7. CASE r.err # "ESUCCESS"
      <4>1. f.call = "none" => ~ Whole(m, q)
        <5> SUFFICES ASSUME f.call = "none", Whole(m, q) PROVE FALSE
          OBVIOUS
        <5>1. q + 1 <= Len(archive) /\ archive[q + 1] = HeaderBlock(m)
          BY ArchiveType DEF Whole, Here
        <5>2. raw_to_header(RawAt(t.fpos)) = "ESUCCESS"
          BY <3>6, <5>1 DEF raw_to_header, HeaderBlock
        <5> QED
          BY <3>5, <3>6, <3>7, <5>1, <5>2
      <4> QED
        BY <3>3, <3>7, <4>1
    <3>10. CASE r.err = "ESUCCESS" /\ s.err # "ESUCCESS"
      <4>1. d.err = s.err
        BY <3>3, <3>10
      <4> QED
        BY <3>9, <3>10, <4>1
    <3>8. CASE r.err = "ESUCCESS" /\ s.err = "ESUCCESS"
      <4>1. Here(m, q) /\ archive[q + 1] = HeaderBlock(m)
        <5>1. Here(m, q)
          BY <3>2, <3>5, <3>6, <3>8
        <5> QED
          BY <5>1 DEF Here
      <4>2. r.h.size = n /\ r.tar.pos = Blk * q /\ r.tar.last_header = Blk * q
        BY <3>2, <3>5, <3>6, <3>8, <4>1 DEF HeaderBlock
      <4>3. r.tar.pos + Blk = Blk * (q + 1 + 0) /\ Blk * 0 = 0
        <5>1. Blk * q \in Nat /\ Blk * (q + 1) = Blk * q + Blk /\ q + 1 + 0 = q + 1
          BY Multiples
        <5> QED
          BY <4>2, <5>1
      <4>5. /\ u \in TarType /\ u.remaining_data = n /\ u.pos = s.tar.pos /\ u.fpos = s.tar.fpos
            /\ u.last_header = s.tar.last_header
        <5>1. n \in 0 .. Word - 1
          BY <3>2 DEF Member, Word
        <5> QED
          BY <3>1, <3>9, <4>2, <5>1, Zenon DEF TarType
      <4>6. InData(u, n, m, q)
        <5>1. m.size \in Nat
          BY BlocksHold
        <5>2. 0 \in Nat /\ m.size - n = Blk * 0 /\ u.fpos = Blk * (q + 1 + 0)
          BY <3>2, <3>8, <3>9, <4>3, <4>5, <5>1
        <5> QED
          BY <3>8, <3>9, <4>1, <4>2, <4>5, <5>2 DEF InData
      <4>7. d = ReadChunk(u, size, f)
        BY <3>3, <3>8
      <4> QED
        BY <4>5, <4>6, <4>7, <1>ChunkReads
    <3> QED
      BY <3>7, <3>8, <3>10
  <2> QED
    BY <2>1, <2>2 DEF Stands
<1> QED
  <2> SUFFICES ASSUME Archived PROVE HeadersRead /\ DataRead
    OBVIOUS
  <2>1. HeadersRead
    BY <1>HeaderReads, Zenon
  <2>2. ASSUME NEW t \in TarType, NEW n \in Nat \ {0}, NEW m \in Member, NEW q \in Nat,
               NEW f \in AFault, Stands(t, n, m, q)
        PROVE  ReadsData(t, n, m, q, f)
    <3> DEFINE size == SmallerOf(n, Blk)
               d == mtar_read_data(t, size, f)
    <3>1. n \in Nat /\ n > 0
      OBVIOUS
    <3>2. size = SmallerOf(n, Blk) /\ d = mtar_read_data(t, size, f)
      OBVIOUS
    <3> HIDE DEF size, d
    <3>3. /\ d.err = "ESUCCESS" => Passes(d, n, size, m, q)
          /\ f.call = "none" /\ Whole(m, q) => d.err = "ESUCCESS"
      BY <1>DataReads, <2>2, <3>1, <3>2
    <3> QED
      BY <3>3, Zenon DEF ReadsData, size, d
  <2>3. \A t \in TarType, size \in Nat, f \in AFault : TypesKept(mtar_read_data(t, size, f))
    BY <1>DataTypes, Zenon
  <2>4. DataRead
    BY <2>2, <2>3, Zenon DEF DataRead
  <2> QED
    BY <2>1, <2>4

-----------------------------------------------------------------------------
(* The layout of a package, by induction over its members. *)

\* Induction over the naturals, for sets.
Induction == \A S : 0 \in S /\ (\A n \in Nat : n \in S => n + 1 \in S) => Nat \subseteq S

\* The blocks an archive is made of.
ABlock == {HeaderBlock(m) : m \in Member} \cup {Block(m, k) : m \in Member, k \in Nat} \cup {Null}

\* The recursive definition of the records of the first n members.
Defines(g, ms, n) ==
    g = [i \in 0 .. n |-> IF i = 0 THEN <<>> ELSE g[i - 1] \o Record(ms[i])]

\* Where the records of the first i members are in all that follow.
Keeps(ms, i) ==
    LET f == Records(ms) IN
    /\ f[i] \in Seq(ABlock)
    /\ \A j \in 1 .. i :
          /\ Place(ms, j) \in Nat /\ Place(ms, j + 1) = Place(ms, j) + 1 + BlocksOf(ms[j])
          /\ Place(ms, j + 1) <= Len(f[i])
          /\ f[i][Place(ms, j) + 1] = HeaderBlock(ms[j])
          /\ \A k \in 1 .. BlocksOf(ms[j]) : f[i][Place(ms, j) + 1 + k] = Block(ms[j], k)
    /\ \A p \in 1 .. Len(f[i]) :
          f[i][p].kind = "header" => \E j \in 1 .. i : p = Place(ms, j) + 1

\* A sequence behind another.
LEMMA Joined ==
    ASSUME NEW S, NEW s \in Seq(S), NEW t \in Seq(S)
    PROVE  /\ s \o t \in Seq(S) /\ Len(s \o t) = Len(s) + Len(t)
           /\ \A i \in 1 .. Len(s) + Len(t) :
                 (s \o t)[i] = IF i <= Len(s) THEN s[i] ELSE t[i - Len(s)]
OBVIOUS

\* Every package is laid out and received like that.
LEMMA Layouts == ASSUME Induction PROVE LayoutsHold
\* A member's record.
<1>RecordBlocks. ASSUME NEW m \in Member
                 PROVE  /\ Record(m) \in Seq(ABlock) /\ Len(Record(m)) = 1 + BlocksOf(m)
                        /\ Record(m)[1] = HeaderBlock(m)
                        /\ \A k \in 1 .. BlocksOf(m) : Record(m)[k + 1] = Block(m, k)
  <2> DEFINE s == <<HeaderBlock(m)>>
             t == [k \in 1 .. BlocksOf(m) |-> Block(m, k)]
             n == BlocksOf(m)
  <2>1. n \in Nat
    BY BlocksHold
  <2>2. s \in Seq(ABlock) /\ Len(s) = 1 /\ s[1] = HeaderBlock(m)
    <3>1. HeaderBlock(m) \in ABlock
      BY DEF ABlock
    <3> QED
      BY <3>1
  <2>3. t \in Seq(ABlock) /\ Len(t) = n /\ \A k \in 1 .. n : t[k] = Block(m, k)
    <3>1. \A k \in 1 .. n : Block(m, k) \in ABlock
      <4> SUFFICES ASSUME NEW k \in 1 .. n PROVE Block(m, k) \in ABlock
        OBVIOUS
      <4>1. k \in Nat
        BY <2>1
      <4> QED
        BY <4>1 DEF ABlock
    <3>2. t = [k \in 1 .. n |-> Block(m, k)]
      OBVIOUS
    <3> HIDE DEF n, t
    <3>3. t \in [1 .. n -> ABlock] /\ \A k \in 1 .. n : t[k] = Block(m, k)
      BY <3>1, <3>2
    <3> QED
      BY <2>1, <3>3
  <2>4. Record(m) = s \o t
    BY DEF Record
  <2> HIDE DEF s, t, n
  <2>5. /\ s \o t \in Seq(ABlock) /\ Len(s \o t) = Len(s) + Len(t)
        /\ \A i \in 1 .. Len(s) + Len(t) : (s \o t)[i] = IF i <= Len(s) THEN s[i] ELSE t[i - Len(s)]
    BY <2>2, <2>3, Joined, Zenon
  <2> DEFINE u == s \o t
  <2> HIDE DEF u
  <2>6. /\ u \in Seq(ABlock) /\ Len(u) = 1 + n
        /\ \A i \in 1 .. 1 + n : u[i] = IF i <= 1 THEN s[i] ELSE t[i - 1]
    BY <2>2, <2>3, <2>5 DEF u
  <2>7. u[1] = s[1] /\ \A k \in 1 .. n : u[k + 1] = t[k]
    BY <2>1, <2>6
  <2> QED
    BY <2>2, <2>3, <2>4, <2>6, <2>7 DEF u, n
\* There are functions like that for every n.
<1>RecordsDefined. ASSUME NEW ms, NEW n \in Nat PROVE \E g : Defines(g, ms, n)
  <2> DEFINE S == {k \in Nat : \E g : Defines(g, ms, k)}
  <2>1. 0 \in S
    <3> DEFINE g == [i \in 0 .. 0 |-> <<>>]
    <3>1. g = [i \in 0 .. 0 |-> IF i = 0 THEN <<>> ELSE g[i - 1] \o Record(ms[i])]
      OBVIOUS
    <3>2. Defines(g, ms, 0)
      BY <3>1 DEF Defines
    <3> HIDE DEF g
    <3> QED
      BY <3>2
  <2>2. ASSUME NEW k \in Nat, k \in S PROVE k + 1 \in S
    <3>1. PICK f : Defines(f, ms, k)
      BY <2>2
    <3>2. \A i \in 0 .. k : f[i] = IF i = 0 THEN <<>> ELSE f[i - 1] \o Record(ms[i])
      BY <3>1, Zenon DEF Defines
    <3> DEFINE g == [i \in 0 .. k + 1 |-> IF i <= k THEN f[i] ELSE f[k] \o Record(ms[k + 1])]
               e(i) == IF i = 0 THEN <<>> ELSE g[i - 1] \o Record(ms[i])
    <3>3. ASSUME NEW i \in 0 .. k + 1 PROVE g[i] = e(i)
      <4>1. CASE i = k + 1
        <5>1. g[i] = f[k] \o Record(ms[i]) /\ g[i - 1] = f[k] /\ i # 0
          BY <4>1
        <5> QED
          BY <5>1, Zenon
      <4>2. CASE i \in 0 .. k
        <5>1. g[i] = f[i] /\ (i # 0 => g[i - 1] = f[i - 1])
          BY <4>2
        <5> HIDE DEF g
        <5> QED
          BY <3>2, <4>2, <5>1
      <4> QED
        BY <4>1, <4>2
    <3>4. g = [i \in 0 .. k + 1 |-> g[i]]
      OBVIOUS
    <3> HIDE DEF g
    <3>5. g = [i \in 0 .. k + 1 |-> e(i)]
      BY <3>3, <3>4, Zenon
    <3>6. Defines(g, ms, k + 1)
      BY <3>5, Zenon DEF Defines
    <3> QED
      BY <3>6
  <2> HIDE DEF S
  <2>3. Nat \subseteq S
    BY <2>1, <2>2 DEF Induction
  <2> QED
    BY <2>3 DEF S
\* So Records is one.
<1>RecordsRecursive. ASSUME NEW ms \in Seq(Member)
                     PROVE  /\ Records(ms)[0] = <<>>
                            /\ \A i \in 1 .. Len(ms) : Records(ms)[i] = Records(ms)[i - 1] \o Record(ms[i])
  <2>1. Len(ms) \in Nat
    OBVIOUS
  <2>2. \E g : Defines(g, ms, Len(ms))
    BY <2>1, <1>RecordsDefined, Zenon
  <2>3. Defines(CHOOSE g : Defines(g, ms, Len(ms)), ms, Len(ms))
    BY <2>2, Zenon
  <2>4. Records(ms) = CHOOSE g : Defines(g, ms, Len(ms))
    BY DEF Records, Defines
  <2> DEFINE f == Records(ms)
  <2>5. Defines(f, ms, Len(ms))
    BY <2>3, <2>4, Zenon
  <2> HIDE DEF f
  <2>6. \A i \in 0 .. Len(ms) : f[i] = IF i = 0 THEN <<>> ELSE f[i - 1] \o Record(ms[i])
    BY <2>5 DEF Defines
  <2>7. f[0] = <<>>
    <3>1. 0 \in 0 .. Len(ms)
      BY <2>1
    <3> QED
      BY <2>6, <3>1, Zenon
  <2>8. ASSUME NEW i \in 1 .. Len(ms) PROVE f[i] = f[i - 1] \o Record(ms[i])
    <3>1. i \in 0 .. Len(ms) /\ i # 0
      BY <2>1
    <3> QED
      BY <2>6, <3>1, Zenon
  <2> QED
    BY <2>7, <2>8, Zenon DEF f
\* One record more.
<1>KeepsNext. ASSUME NEW ms \in Seq(Member), NEW i \in 0 .. Len(ms) - 1, Keeps(ms, i)
              PROVE  Keeps(ms, i + 1)
  <2> USE <1>KeepsNext
  <2> DEFINE f == Records(ms)
             a == f[i]
             m == ms[i + 1]
             b == Record(m)
             c == f[i + 1]
             n == Len(a)
             q == BlocksOf(m)
  <2>1. i \in Nat /\ i + 1 \in 1 .. Len(ms) /\ m \in Member
    OBVIOUS
  <2>2. c = a \o b
    <3> DEFINE j == i + 1
    <3>1. j \in 1 .. Len(ms) /\ j - 1 = i
      BY <2>1
    <3>2. \A k \in 1 .. Len(ms) : Records(ms)[k] = Records(ms)[k - 1] \o Record(ms[k])
      BY <1>RecordsRecursive, Zenon
    <3> HIDE DEF j
    <3>3. Records(ms)[j] = Records(ms)[i] \o Record(ms[j])
      BY <3>1, <3>2, Zenon
    <3> QED
      BY <3>3 DEF j
  <2>3. /\ b \in Seq(ABlock) /\ Len(b) = 1 + q /\ b[1] = HeaderBlock(m)
        /\ \A k \in 1 .. q : b[k + 1] = Block(m, k)
        /\ q \in Nat
    BY <2>1, <1>RecordBlocks, BlocksHold
  <2>4. a \in Seq(ABlock) /\ n \in Nat
    <3>1. a \in Seq(ABlock)
      BY DEF Keeps
    <3> HIDE DEF a
    <3> QED
      BY <3>1
  <2>5. /\ Place(ms, i + 1) = n /\ Place(ms, i + 2) = Len(c)
    <3>1. i + 1 - 1 = i /\ i + 2 - 1 = i + 1
      BY <2>1
    <3> QED
      BY <3>1 DEF Place
  <2> HIDE DEF f, a, m, b, c, q
  <2>6. /\ c \in Seq(ABlock) /\ Len(c) = n + 1 + q
        /\ \A p \in 1 .. n : c[p] = a[p]
        /\ \A p \in 1 .. 1 + q : c[n + p] = b[p]
    <3>1. /\ a \o b \in Seq(ABlock) /\ Len(a \o b) = Len(a) + Len(b)
          /\ \A p \in 1 .. Len(a) + Len(b) : (a \o b)[p] = IF p <= Len(a) THEN a[p] ELSE b[p - Len(a)]
      BY <2>3, <2>4, Joined, Zenon
    <3>2. /\ c \in Seq(ABlock) /\ Len(c) = n + 1 + q
          /\ \A p \in 1 .. n + 1 + q : c[p] = IF p <= n THEN a[p] ELSE b[p - n]
      BY <2>2, <2>3, <2>4, <3>1
    <3> HIDE DEF n
    <3>3. ASSUME NEW p \in 1 .. n PROVE c[p] = a[p]
      BY <2>3, <2>4, <3>2
    <3>4. ASSUME NEW p \in 1 .. 1 + q PROVE c[n + p] = b[p]
      <4> DEFINE x == n + p
      <4>1. x \in 1 .. n + 1 + q /\ ~ (x <= n) /\ x - n = p
        BY <2>3, <2>4
      <4> HIDE DEF x
      <4>2. c[x] = b[x - n]
        BY <3>2, <4>1
      <4> QED
        BY <4>1, <4>2 DEF x
    <3> QED
      BY <3>2, <3>3, <3>4
  <2>0. n = Len(a)
    OBVIOUS
  <2> HIDE DEF n
  <2>7. c[n + 1] = HeaderBlock(m) /\ \A k \in 1 .. q : c[n + 1 + k] = Block(m, k)
    <3>1. 1 \in 1 .. 1 + q
      BY <2>3
    <3>2. ASSUME NEW k \in 1 .. q PROVE c[n + 1 + k] = Block(m, k)
      <4>1. k + 1 \in 1 .. 1 + q /\ n + (k + 1) = n + 1 + k
        BY <2>3, <2>4
      <4>2. c[n + (k + 1)] = b[k + 1]
        BY <2>6, <4>1
      <4> QED
        BY <2>3, <4>1, <4>2, Zenon
    <3> QED
      BY <2>3, <2>6, <3>1, <3>2
  <2>8. ASSUME NEW j \in 1 .. i + 1
        PROVE  /\ Place(ms, j) \in Nat /\ Place(ms, j + 1) = Place(ms, j) + 1 + BlocksOf(ms[j])
               /\ Place(ms, j + 1) <= Len(c)
               /\ c[Place(ms, j) + 1] = HeaderBlock(ms[j])
               /\ \A k \in 1 .. BlocksOf(ms[j]) : c[Place(ms, j) + 1 + k] = Block(ms[j], k)
    <3>1. CASE j = i + 1
      <4>1. ms[j] = m /\ BlocksOf(ms[j]) = q /\ Place(ms, j) = n /\ Place(ms, j + 1) = Len(c)
        <5>1. j + 1 = i + 2
          BY <2>1, <3>1
        <5> QED
          BY <2>5, <3>1, <5>1 DEF m, q
      <4> QED
        BY <2>3, <2>4, <2>6, <2>7, <4>1
    <3>2. CASE j \in 1 .. i
      <4> DEFINE x == Place(ms, j)
                 y == BlocksOf(ms[j])
                 z == Place(ms, j + 1)
      <4>1. /\ x \in Nat /\ z = x + 1 + y /\ z <= n
            /\ a[x + 1] = HeaderBlock(ms[j])
            /\ \A k \in 1 .. y : a[x + 1 + k] = Block(ms[j], k)
        BY <3>2, <2>0 DEF Keeps, a, f
      <4>2. y \in Nat
        <5>1. j \in 1 .. Len(ms)
          BY <2>1, <3>2
        <5>2. ms[j] \in Member
          BY <5>1
        <5> QED
          BY <5>2, BlocksHold
      <4> HIDE DEF x, y, z
      <4>3. x + 1 \in 1 .. n /\ z <= Len(c)
        BY <2>3, <2>4, <2>6, <4>1, <4>2
      <4>4. ASSUME NEW k \in 1 .. y PROVE c[x + 1 + k] = Block(ms[j], k)
        <5>1. x + 1 + k \in 1 .. n
          BY <2>4, <4>1, <4>2
        <5> QED
          BY <2>6, <4>1, <5>1
      <4>5. c[x + 1] = HeaderBlock(ms[j])
        BY <2>6, <4>1, <4>3
      <4> QED
        BY <4>1, <4>3, <4>4, <4>5 DEF x, y, z
    <3> QED
      BY <2>1, <3>1, <3>2
  <2>9. ASSUME NEW p \in 1 .. Len(c), c[p].kind = "header" PROVE \E j \in 1 .. i + 1 : p = Place(ms, j) + 1
    <3>1. CASE p \in 1 .. n
      <4>1. a[p].kind = "header"
        BY <2>6, <2>9, <3>1
      <4>2. \E j \in 1 .. i : p = Place(ms, j) + 1
        BY <2>0, <3>1, <4>1 DEF Keeps, a, f
      <4> QED
        BY <2>1, <4>2
    <3>2. CASE p = n + 1
      <4>1. p = Place(ms, i + 1) + 1 /\ i + 1 \in 1 .. i + 1
        BY <2>1, <2>5, <3>2
      <4> QED
        BY <4>1, Zenon
    <3>3. CASE p > n + 1
      <4> DEFINE k == p - (n + 1)
      <4>1. k \in 1 .. q /\ p = n + 1 + k
        BY <2>3, <2>4, <2>6, <3>3
      <4> HIDE DEF k
      <4>2. c[p] = Block(m, k)
        BY <2>7, <4>1
      <4>3. c[p].kind = "data"
        BY <4>2 DEF Block
      <4> QED
        BY <2>9, <4>3
    <3> QED
      BY <2>4, <2>6, <3>1, <3>2, <3>3
  <2>10. c = Records(ms)[i + 1]
    BY DEF c, f
  <2> QED
    BY <2>6, <2>8, <2>9, <2>10 DEF Keeps
\* All the records.
<1>RecordsKeep. ASSUME NEW ms \in Seq(Member) PROVE Keeps(ms, Len(ms))
  <2> DEFINE S == {i \in Nat : i <= Len(ms) => Keeps(ms, i)}
  <2>1. Len(ms) \in Nat
    OBVIOUS
  <2>2. 0 \in S
    <3>1. Records(ms)[0] = <<>>
      BY <1>RecordsRecursive, Zenon
    <3>2. Keeps(ms, 0)
      BY <3>1 DEF Keeps
    <3> QED
      BY <3>2
  <2>3. ASSUME NEW i \in Nat, i \in S PROVE i + 1 \in S
    <3>1. CASE i + 1 <= Len(ms)
      <4>1. i \in 0 .. Len(ms) - 1 /\ Keeps(ms, i)
        BY <2>1, <2>3, <3>1
      <4> QED
        BY <4>1, <1>KeepsNext
    <3> QED
      BY <3>1
  <2> HIDE DEF S
  <2>4. Nat \subseteq S
    BY <2>2, <2>3 DEF Induction
  <2> QED
    BY <2>1, <2>4 DEF S
\* A layout is a sequence of blocks, intact, and has a header for every member only.
<1>LayoutIntact. ASSUME NEW ms \in Seq(Member)
                 PROVE  /\ Layout(ms) \in Seq(ABlock) /\ Intact(Layout(ms), ms)
                        /\ \A p \in 1 .. Len(Layout(ms)) :
                             Layout(ms)[p].kind = "header" => \E j \in 1 .. Len(ms) : p = Place(ms, j) + 1
  <2> DEFINE l == Len(ms)
             a == Records(ms)[l]
             b == <<Null, Null>>
             c == Layout(ms)
             n == Len(a)
  <2>1. Keeps(ms, l) /\ l \in Nat
    BY <1>RecordsKeep
  <2>2. a \in Seq(ABlock) /\ n \in Nat
    <3>1. a \in Seq(ABlock)
      BY <2>1 DEF Keeps
    <3> HIDE DEF a
    <3> QED
      BY <3>1
  <2>3. b \in Seq(ABlock) /\ Len(b) = 2 /\ b[1] = Null /\ b[2] = Null
    <3>1. Null \in ABlock
      BY DEF ABlock
    <3> QED
      BY <3>1
  <2>4. c = a \o b
    BY DEF Layout
  <2>5. n = Len(a) /\ Place(ms, l + 1) = n /\ Place(ms, 1) = 0
    <3>1. l + 1 - 1 = l /\ 1 - 1 = 0
      BY <2>1
    <3>2. Records(ms)[0] = <<>>
      BY <1>RecordsRecursive, Zenon
    <3>3. Place(ms, 1) = Len(Records(ms)[0])
      BY <3>1 DEF Place
    <3> QED
      BY <3>1, <3>2, <3>3 DEF Place
  <2>0. a = Records(ms)[l] /\ l = Len(ms) /\ c = Layout(ms)
    OBVIOUS
  <2> HIDE DEF a, b, c, n, l
  <2>6. /\ c \in Seq(ABlock) /\ Len(c) = n + 2 /\ c[n + 1] = Null /\ c[n + 2] = Null
        /\ \A p \in 1 .. n : c[p] = a[p]
    <3>1. /\ a \o b \in Seq(ABlock) /\ Len(a \o b) = Len(a) + Len(b)
          /\ \A p \in 1 .. Len(a) + Len(b) : (a \o b)[p] = IF p <= Len(a) THEN a[p] ELSE b[p - Len(a)]
      BY <2>2, <2>3, Joined, Zenon
    <3>2. /\ c \in Seq(ABlock) /\ Len(c) = n + 2
          /\ \A p \in 1 .. n + 2 : c[p] = IF p <= n THEN a[p] ELSE b[p - n]
      BY <2>2, <2>3, <2>4, <2>5, <3>1
    <3>3. ASSUME NEW p \in 1 .. n PROVE c[p] = a[p]
      BY <2>2, <3>2
    <3>4. ASSUME NEW x \in {n + 1, n + 2} PROVE c[x] = Null
      <4>1. x \in 1 .. n + 2 /\ ~ (x <= n) /\ (x - n = 1 \/ x - n = 2)
        BY <2>2
      <4>2. c[x] = b[x - n]
        BY <3>2, <4>1
      <4> QED
        BY <2>3, <4>1, <4>2
    <3> QED
      BY <3>2, <3>3, <3>4
  <2>7. ASSUME NEW j \in 1 .. l
        PROVE  /\ Place(ms, j) \in Nat /\ Place(ms, j + 1) = Place(ms, j) + 1 + BlocksOf(ms[j])
               /\ Place(ms, j + 1) < Len(c)
               /\ c[Place(ms, j) + 1] = HeaderBlock(ms[j])
               /\ \A k \in 1 .. BlocksOf(ms[j]) : c[Place(ms, j) + 1 + k] = Block(ms[j], k)
    <3> DEFINE x == Place(ms, j)
               y == BlocksOf(ms[j])
               z == Place(ms, j + 1)
    <3>1. /\ x \in Nat /\ z = x + 1 + y /\ z <= n
          /\ a[x + 1] = HeaderBlock(ms[j])
          /\ \A k \in 1 .. y : a[x + 1 + k] = Block(ms[j], k)
      BY <2>0, <2>1, <2>5 DEF Keeps
    <3>2. y \in Nat
      <4>1. ms[j] \in Member
        BY <2>0
      <4> QED
        BY <4>1, BlocksHold
    <3> HIDE DEF x, y, z
    <3>3. x + 1 \in 1 .. n /\ z < Len(c)
      <4>1. x \in Nat /\ z = x + 1 + y /\ z <= n
        BY <3>1, Zenon
      <4>2. n \in Nat /\ Len(c) = n + 2
        BY <2>2, <2>6
      <4> QED
        BY ONLY <3>2, <4>1, <4>2
    <3>4. ASSUME NEW k \in 1 .. y PROVE c[x + 1 + k] = Block(ms[j], k)
      <4>1. x + 1 + k \in 1 .. n
        BY <2>2, <3>1, <3>2
      <4> QED
        BY <2>6, <3>1, <4>1
    <3>5. c[x + 1] = HeaderBlock(ms[j])
      BY <2>6, <3>1, <3>3
    <3> QED
      BY <3>1, <3>3, <3>4, <3>5 DEF x, y, z
  <2>8. ASSUME NEW p \in 1 .. Len(c), c[p].kind = "header" PROVE \E j \in 1 .. l : p = Place(ms, j) + 1
    <3>1. CASE p \in 1 .. n
      <4>1. a[p].kind = "header"
        BY <2>6, <2>8, <3>1
      <4> QED
        BY <2>0, <2>1, <2>5, <3>1, <4>1 DEF Keeps
    <3>2. CASE p \in {n + 1, n + 2}
      <4>1. c[p].kind = "null"
        BY <2>6, <3>2 DEF Null
      <4> QED
        BY <2>8, <4>1
    <3> QED
      BY <2>2, <2>6, <3>1, <3>2
  <2> QED
    BY <2>0, <2>2, <2>5, <2>6, <2>7, <2>8 DEF Intact
\* An archive that was cut short or has a spoilt header still holds its members.
<1>ReceivedHolds. ASSUME NEW ms \in Packages, NEW a \in Received(ms) PROVE Holds(a, ms)
  <2> DEFINE L == Layout(ms)
             l == Len(L)
  <2>1. ms \in Seq(Member)
    BY UntarAssumption
  <2>2. /\ L \in Seq(ABlock) /\ Intact(L, ms)
        /\ \A p \in 1 .. l : L[p].kind = "header" => \E j \in 1 .. Len(ms) : p = Place(ms, j) + 1
    BY <2>1, <1>LayoutIntact
  <2>3. \/ \E n \in 0 .. l : a = SubSeq(L, 1, n)
        \/ \E i \in 1 .. l : L[i].kind = "header" /\ a = [L EXCEPT ![i] = [kind |-> "bad"]]
    BY DEF Received
  <2>4. l = Len(L)
    OBVIOUS
  <2> HIDE DEF L
  <2>5. l \in Nat
    BY <2>2
  <2> HIDE DEF l
  <2>6. ASSUME NEW p \in 1 .. l, L[p].kind = "header"
        PROVE  \E j \in 1 .. Len(ms) :
                  L[p] = HeaderBlock(ms[j]) /\ \A k \in 1 .. BlocksOf(ms[j]) : L[p + k] = Block(ms[j], k)
    <3>1. PICK j \in 1 .. Len(ms) : p = Place(ms, j) + 1
      BY <2>2, <2>6
    <3>2. L[p] = HeaderBlock(ms[j]) /\ \A k \in 1 .. BlocksOf(ms[j]) : L[p + k] = Block(ms[j], k)
      <4>1. /\ L[Place(ms, j) + 1] = HeaderBlock(ms[j])
            /\ \A k \in 1 .. BlocksOf(ms[j]) : L[Place(ms, j) + 1 + k] = Block(ms[j], k)
        BY <2>2, Zenon DEF Intact
      <4> QED
        BY <3>1, <4>1, Zenon
    <3> QED
      BY <3>2, Zenon
  <2>7. ASSUME NEW n \in 0 .. l, a = SubSeq(L, 1, n) PROVE Holds(a, ms)
    <3>1. Len(a) = n /\ \A i \in 1 .. n : a[i] = L[i]
      BY <2>2, <2>4, <2>7
    <3> SUFFICES ASSUME NEW p \in 1 .. n, a[p].kind = "header"
                 PROVE  \E j \in 1 .. Len(ms) :
                           /\ a[p] = HeaderBlock(ms[j])
                           /\ \A k \in 1 .. BlocksOf(ms[j]) : p + k <= n => a[p + k] = Block(ms[j], k)
      BY <2>5, <3>1 DEF Holds
    <3>2. p \in 1 .. l /\ L[p].kind = "header"
      BY <2>5, <3>1
    <3>3. PICK j \in 1 .. Len(ms) :
               L[p] = HeaderBlock(ms[j]) /\ \A k \in 1 .. BlocksOf(ms[j]) : L[p + k] = Block(ms[j], k)
      BY <2>6, <3>2
    <3>4. a[p] = HeaderBlock(ms[j])
      BY <3>1, <3>3
    <3>5. ASSUME NEW k \in 1 .. BlocksOf(ms[j]), p + k <= n PROVE a[p + k] = Block(ms[j], k)
      <4>1. ms[j] \in Member
        BY <2>1
      <4>2. BlocksOf(ms[j]) \in Nat
        BY <4>1, BlocksHold
      <4>3. p + k \in 1 .. n
        BY <2>5, <3>5, <4>2
      <4> QED
        BY <3>1, <3>3, <4>3
    <3> QED
      BY <3>4, <3>5
  <2>8. ASSUME NEW i \in 1 .. l, L[i].kind = "header", a = [L EXCEPT ![i] = [kind |-> "bad"]]
        PROVE  Holds(a, ms)
    <3>1. Len(a) = l /\ \A j \in 1 .. l : a[j] = IF j = i THEN [kind |-> "bad"] ELSE L[j]
      BY <2>2, <2>4, <2>8
    <3>2. a[i].kind = "bad"
      BY <3>1
    <3>3. \A j \in 1 .. l : j # i => a[j] = L[j]
      BY <3>1
    <3> SUFFICES ASSUME NEW p \in 1 .. l, a[p].kind = "header"
                 PROVE  \E j \in 1 .. Len(ms) :
                           /\ a[p] = HeaderBlock(ms[j])
                           /\ \A k \in 1 .. BlocksOf(ms[j]) : p + k <= l => a[p + k] = Block(ms[j], k)
      BY <2>5, <3>1 DEF Holds
    <3>4. p # i /\ a[p] = L[p]
      BY <3>2, <3>3
    <3>5. PICK j \in 1 .. Len(ms) :
               L[p] = HeaderBlock(ms[j]) /\ \A k \in 1 .. BlocksOf(ms[j]) : L[p + k] = Block(ms[j], k)
      BY <2>6, <3>4, Zenon
    <3>6. ASSUME NEW k \in 1 .. BlocksOf(ms[j]), p + k <= l PROVE a[p + k] = Block(ms[j], k)
      <4>1. ms[j] \in Member
        BY <2>1
      <4>2. BlocksOf(ms[j]) \in Nat
        BY <4>1, BlocksHold
      <4>3. p + k \in 1 .. l
        BY <2>5, <3>6, <4>2
      <4>4. L[p + k].kind = "data"
        <5>1. L[p + k] = Block(ms[j], k)
          BY <3>5
        <5> QED
          BY <5>1 DEF Block
      <4>5. p + k # i
        BY <2>8, <4>4
      <4> QED
        BY <3>3, <3>5, <4>3, <4>5
    <3> QED
      BY <3>4, <3>5, <3>6
  <2> QED
    BY <2>3, <2>7, <2>8
<1> QED
  <2> SUFFICES ASSUME NEW ms \in Packages
               PROVE  Intact(Layout(ms), ms) /\ \A a \in Received(ms) : Holds(a, ms)
    BY DEF LayoutsHold
  <2>1. ms \in Seq(Member)
    BY UntarAssumption
  <2>2. Intact(Layout(ms), ms)
    BY <1>LayoutIntact, <2>1, Zenon
  <2> QED
    BY <1>ReceivedHolds, <2>2, Zenon

LOCAL INSTANCE WellFoundedInduction

\* The well-founded order of the naturals gives the induction.
LEMMA SetInduction == Induction
<1> SUFFICES ASSUME NEW S, 0 \in S, \A n \in Nat : n \in S => n + 1 \in S PROVE Nat \subseteq S
  BY DEF Induction
<1> DEFINE T == Nat \ S
<1> SUFFICES ASSUME T # {} PROVE FALSE
  OBVIOUS
<1>1. T \subseteq Nat /\ IsWellFoundedOn(OpToRel(<, Nat), Nat)
  BY NatLessThanWellFounded, Zenon
<1>2. \E x \in T : \A y \in T : ~ (<<y, x>> \in OpToRel(<, Nat))
  <2> HIDE DEF T
  <2> QED
    BY <1>1, WFMin, Zenon
<1>3. PICK x \in T : \A y \in T : ~ (<<y, x>> \in OpToRel(<, Nat))
  BY <1>2, Zenon
<1>4. \A y \in T : ~ (y < x)
  BY <1>1, <1>3, Zenon DEF OpToRel
<1>5. x # 0 /\ x - 1 \in Nat
  BY ONLY x \in T, 0 \in S
<1>6. x - 1 \in S
  BY ONLY x \in T, <1>4, <1>5
<1>7. x \in S
  BY <1>5, <1>6
<1> QED
  BY <1>3, <1>7, Zenon

\* Every package is laid out and received as LayoutsHold says.
LEMMA AllLayouts == LayoutsHold
BY SetInduction, Layouts
=============================================================================
