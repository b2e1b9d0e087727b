------------------------------- MODULE Untar -------------------------------
(***************************************************************************)
(* The console command untar (common.c) over microtar (microtar.c).        *)
(*                                                                         *)
(* An archive is a sequence of blocks of Blk bytes (512 in the code): a    *)
(* header, a piece of a member's data, or a null block; "bad" is a header  *)
(* whose checksum is wrong.  A data block read as a header fails the       *)
(* checksum.  microtar keeps its own position next to the stream's: both   *)
(* are here, because they part when a call fails.  A failed read moves the *)
(* first by the whole size and the second by nothing or all of it (in      *)
(* between no header is found either); a failed seek moves only the first. *)
(*                                                                         *)
(* A fault is one library call that fails: a read, a seek, an fopen or an  *)
(* fwrite.  microtar returns at the first error, so that a step of untar   *)
(* meets at most one.  What fclose fails to flush is a failed fwrite.      *)
(***************************************************************************)
EXTENDS Integers, Sequences

CONSTANTS
    Blk,        \* bytes in a block, and in untar's buffer
    Name,       \* names of members
    Packages,   \* the contents of archives: sequences of members
    FdMax,      \* streams that can be open at a time
    IntMax,     \* the largest int
    MaxFaults,  \* bound: calls that fail in one behaviour
    MaxRuns     \* bound: commands in one behaviour

VARIABLES
    members,  \* the contents of the archive of this command
    archive,  \* its blocks
    tar,      \* mtar_t: pos, last_header, remaining_data; and fpos, the stream's
    h,        \* the header untar works on
    rest,     \* untar's remaining
    files,    \* the contents of the files extracted
    pc,       \* "idle", "loop", "create", "copy", "skip", "next", "return"
    ret,      \* what untar returns
    out,      \* the output stream is open
    fds,      \* open streams
    faults,   \* calls that failed so far
    runs,     \* commands so far
    leaks,    \* commands that ended with the archive still open
    astray,   \* a seek of mtar_next failed in this command
    mixed,    \* names of the files made while it was astray
    holes     \* names of the files of which a write failed

world == <<faults, runs, leaks>>
doubt == <<astray, mixed, holes>>
vars == <<members, archive, tar, h, rest, files, pc, ret, out, fds, world, doubt>>

NoFile == <<"absent">>
NoHeader == [kind |-> "none", name |-> "none", type |-> "none", size |-> 0]
Closed == [pos |-> 0, last_header |-> 0, remaining_data |-> 0, fpos |-> 0]
SmallerOf(a, b) == IF a < b THEN a ELSE b

-----------------------------------------------------------------------------
(* Archives.  The i-th byte of a member is <<name, i>>.                    *)

Member == [name : Name, type : {"TREG", "other"}, size : 0 .. IntMax]

Content(m) == [i \in 1 .. m.size |-> <<m.name, i>>]

Block(m, k) ==
    [kind |-> "data",
     bytes |-> [i \in 1 .. Blk |-> IF (k - 1) * Blk + i <= m.size
                                   THEN <<m.name, (k - 1) * Blk + i>> ELSE <<"pad", i>>]]

BlocksOf(m) == (m.size + Blk - 1) \div Blk

HeaderBlock(m) == [kind |-> "header", name |-> m.name, type |-> m.type, size |-> m.size]

Record(m) == <<HeaderBlock(m)>> \o [k \in 1 .. BlocksOf(m) |-> Block(m, k)]

\* The records of the first i members.
Records(ms) ==
    LET records[i \in 0 .. Len(ms)] == IF i = 0 THEN <<>> ELSE records[i - 1] \o Record(ms[i])
    IN  records

Null == [kind |-> "null"]
Layout(ms) == Records(ms)[Len(ms)] \o <<Null, Null>>

\* An archive as it was received: whole, cut short, or with a spoilt header.
Received(ms) ==
    LET l == Layout(ms)
    IN  {SubSeq(l, 1, n) : n \in 0 .. Len(l)}
            \cup {[l EXCEPT ![i] = [kind |-> "bad"]] : i \in {j \in 1 .. Len(l) : l[j].kind = "header"}}

ASSUME UntarAssumption ==
    /\ {Blk, FdMax, IntMax, MaxFaults, MaxRuns} \subseteq Nat /\ Blk > 0
    /\ \A ms \in Packages : ms \in Seq(Member)

-----------------------------------------------------------------------------
(* microtar.  Every operation returns the tar, an error and what it read;  *)
(* f is the call that fails in it, and moved what the call still moves.    *)

NoFault == [call |-> "none", moved |-> 0]

\* The calls of mtar_read_header, mtar_next, mtar_read_data and fwrite that may fail.
ReadFaults(call, size) == {[call |-> call, moved |-> n] : n \in {0, size}}
SeekFault(call) == [call |-> call, moved |-> 0]
OpenFault == [call |-> "fopen", moved |-> 0]
HeaderFaults == ReadFaults("header", Blk) \cup {SeekFault("back")}
NextFaults == HeaderFaults \cup {SeekFault("on")}
DataFaults(size) ==
    HeaderFaults \cup ReadFaults("data", size) \cup {SeekFault("past"), SeekFault("again")}
WriteFaults(size) == {[call |-> "fwrite", moved |-> n] : n \in 0 .. size - 1}

\* As long as faults are left.
May(fs) == IF faults < MaxFaults THEN fs \cup {NoFault} ELSE {NoFault}
Counts(f) == faults' = IF f = NoFault THEN faults ELSE faults + 1

\* Mutant: the padding of a member is not skipped.
round_up_Exact(n) == n

round_up(n) == n + ((Blk - (n % Blk)) % Blk)

Bytes == Blk * Len(archive)

\* A read at the end of the archive is short: an error too.
tread(t, size, f, call) ==
    LET short == t.fpos + size > Bytes
    IN  [tar |-> [t EXCEPT !.pos = @ + size,
                           !.fpos = IF f.call = call THEN @ + f.moved
                                    ELSE IF short THEN Bytes ELSE @ + size],
         err |-> IF f.call = call \/ short THEN "EREADFAIL" ELSE "ESUCCESS"]

mtar_seek(t, to, f, call) ==
    [tar |-> [t EXCEPT !.pos = to, !.fpos = IF f.call = call THEN @ ELSE to],
     err |-> IF f.call = call THEN "ESEEKFAIL" ELSE "ESUCCESS"]

\* The block at the stream's position; between two blocks there is no header.
RawAt(fpos) ==
    IF fpos % Blk = 0 THEN archive[fpos \div Blk + 1] ELSE [kind |-> "bad"]

raw_to_header(raw) ==
    CASE raw.kind = "header" -> "ESUCCESS"
      [] raw.kind = "null"   -> "ENULLRECORD"
      [] OTHER               -> "EBADCHKSUM"

mtar_read_header(t, f) ==
    LET r == tread([t EXCEPT !.last_header = t.pos], Blk, f, "header")
        s == mtar_seek(r.tar, t.pos, f, "back")
        e == raw_to_header(RawAt(t.fpos))
    IN  IF r.err # "ESUCCESS" THEN [tar |-> r.tar, err |-> r.err, h |-> NoHeader]
        ELSE IF s.err # "ESUCCESS" THEN [tar |-> s.tar, err |-> s.err, h |-> NoHeader]
        ELSE [tar |-> s.tar, err |-> e, h |-> IF e = "ESUCCESS" THEN RawAt(t.fpos) ELSE NoHeader]

mtar_next(t, f) ==
    LET r == mtar_read_header(t, f)
    IN  IF r.err # "ESUCCESS" THEN [tar |-> r.tar, err |-> r.err]
        ELSE mtar_seek(r.tar, r.tar.pos + round_up(r.h.size) + Blk, f, "on")

\* What the stream holds from fpos on: a read of data never spans two blocks.
DataAt(fpos, size) ==
    LET b == archive[fpos \div Blk + 1]
    IN  IF b.kind = "data" THEN SubSeq(b.bytes, (fpos % Blk) + 1, (fpos % Blk) + size)
        ELSE [i \in 1 .. size |-> <<"junk", i>>]

\* The number of values of an unsigned; a size is read into one, and fits an int.
Word == 2 * IntMax + 2

\* The read of the data; the position returns to the header after the last one.
ReadChunk(t, size, f) ==
    LET r == tread(t, size, f, "data")
        left == (t.remaining_data - size) % Word
        counted == [r.tar EXCEPT !.remaining_data = left]
        s == mtar_seek(counted, t.last_header, f, "again")
    IN  IF r.err # "ESUCCESS" THEN [tar |-> r.tar, err |-> r.err, data |-> <<>>]
        ELSE [tar |-> IF left = 0 THEN s.tar ELSE counted,
              err |-> IF left = 0 THEN s.err ELSE "ESUCCESS",
              data |-> DataAt(t.fpos, size)]

\* The first read of a member loads its header again.
mtar_read_data(t, size, f) ==
    IF t.remaining_data # 0 THEN ReadChunk(t, size, f)
    ELSE LET r == mtar_read_header(t, f)
             s == mtar_seek(r.tar, r.tar.pos + Blk, f, "past")
         IN  IF r.err # "ESUCCESS" THEN [tar |-> r.tar, err |-> r.err, data |-> <<>>]
             ELSE IF s.err # "ESUCCESS" THEN [tar |-> s.tar, err |-> s.err, data |-> <<>>]
             ELSE ReadChunk([s.tar EXCEPT !.remaining_data = r.h.size], size, f)

-----------------------------------------------------------------------------
(* untar.                                                                  *)

\* Mutant: an early return leaves the output open.
Returns_KeepsOutput(code, open) ==
    /\ pc' = "return"
    /\ ret' = code
    /\ fds' = fds - (IF open THEN 0 ELSE 1)
    /\ out' = FALSE
    /\ leaks' = IF open THEN leaks + 1 ELSE leaks

Returns(code, open) ==
    /\ pc' = "return"
    /\ ret' = code
    /\ fds' = fds - (IF out THEN 1 ELSE 0) - (IF open THEN 0 ELSE 1)
    /\ out' = FALSE
    /\ leaks' = IF open THEN leaks + 1 ELSE leaks

\* mtar_open reads the first header to see that it is one.
OpenTar(ms, a, f) ==
    /\ pc = "idle" /\ runs < MaxRuns
    /\ runs' = runs + 1
    /\ members' = ms /\ archive' = a /\ astray' = FALSE
    /\ Counts(f)
    /\ \/ /\ fds >= FdMax \/ f = OpenFault
          /\ ret' = "EOPENFAIL" /\ pc' = "return"
          /\ UNCHANGED <<tar, fds>>
       \/ /\ fds < FdMax /\ f # OpenFault
          /\ LET r == mtar_read_header(Closed, f)'
             IN  /\ tar' = r.tar
                 /\ pc' = IF r.err = "ESUCCESS" THEN "loop" ELSE "return"
                 /\ fds' = IF r.err = "ESUCCESS" THEN fds + 1 ELSE fds
                 /\ ret' = IF r.err = "ESUCCESS" THEN ret ELSE r.err
    /\ UNCHANGED <<h, rest, files, out, leaks, mixed, holes>>

\* The loop ends with any error of mtar_read_header, and untar then returns 0.
ReadHeader(f) ==
    /\ pc = "loop"
    /\ Counts(f)
    /\ LET r == mtar_read_header(tar, f)
       IN  /\ tar' = r.tar
           /\ \/ /\ r.err = "ESUCCESS"
                 /\ h' = r.h
                 /\ rest' = r.h.size
                 /\ pc' = IF r.h.type = "TREG" THEN "create" ELSE "skip"
                 /\ UNCHANGED <<ret, fds, out, leaks>>
              \/ /\ r.err # "ESUCCESS"
                 /\ Returns("ESUCCESS", FALSE)
                 /\ UNCHANGED <<h, rest>>
    /\ UNCHANGED <<members, archive, files, runs, doubt>>

\* Mutant: an existing file is appended to.
CreateFile_Appends(f) ==
    /\ pc = "create"
    /\ Counts(f)
    /\ \/ /\ fds < FdMax /\ f # OpenFault
          /\ fds' = fds + 1 /\ out' = TRUE
          /\ files' = [files EXCEPT ![h.name] = IF @ = NoFile THEN <<>> ELSE @]
          /\ mixed' = IF astray THEN mixed \cup {h.name} ELSE mixed \ {h.name}
          /\ holes' = holes \ {h.name}
          /\ pc' = "copy"
          /\ UNCHANGED <<ret, leaks>>
       \/ /\ fds >= FdMax \/ f = OpenFault
          /\ Returns("-1", TRUE)
          /\ UNCHANGED <<files, mixed, holes>>
    /\ UNCHANGED <<members, archive, tar, h, rest, runs, astray>>

\* mkdir_recursive, then fopen(full_path, "wb"): it truncates the file, and fails
\* for want of a stream, of room or of the directory.
CreateFile(f) ==
    /\ pc = "create"
    /\ Counts(f)
    /\ \/ /\ fds < FdMax /\ f # OpenFault
          /\ fds' = fds + 1 /\ out' = TRUE
          /\ files' = [files EXCEPT ![h.name] = <<>>]
          /\ mixed' = IF astray THEN mixed \cup {h.name} ELSE mixed \ {h.name}
          /\ holes' = holes \ {h.name}
          /\ pc' = "copy"
          /\ UNCHANGED <<ret, leaks>>
       \/ /\ fds >= FdMax \/ f = OpenFault
          /\ Returns("-1", TRUE)
          /\ UNCHANGED <<files, mixed, holes>>
    /\ UNCHANGED <<members, archive, tar, h, rest, runs, astray>>

\* A pass of the copying loop, or its end.  The result of fwrite is ignored: when it
\* stores fewer bytes, or none, the copy goes on with the next ones.
Copy(f) ==
    /\ pc = "copy"
    /\ \/ /\ rest = 0
          /\ fds' = fds - 1 /\ out' = FALSE
          /\ pc' = "next"
          /\ UNCHANGED <<tar, rest, files, ret, leaks, faults, holes>>
       \/ /\ rest > 0
          /\ Counts(f)
          /\ LET size == SmallerOf(rest, Blk)
                 r == mtar_read_data(tar, size, f)
                 stored == IF f.call = "fwrite" THEN f.moved ELSE size
             IN  /\ tar' = r.tar
                 /\ \/ /\ r.err = "ESUCCESS"
                       /\ files' = [files EXCEPT ![h.name] = @ \o SubSeq(r.data, 1, stored)]
                       /\ holes' = IF stored < size THEN holes \cup {h.name} ELSE holes
                       /\ rest' = rest - size
                       /\ UNCHANGED <<pc, ret, fds, out, leaks>>
                    \/ /\ r.err # "ESUCCESS"
                       /\ Returns(r.err, TRUE)
                       /\ UNCHANGED <<files, rest, holes>>
    /\ UNCHANGED <<members, archive, h, runs, astray, mixed>>

\* The data of a member that is no regular file is read and dropped.
Skip(f) ==
    /\ pc = "skip"
    /\ \/ /\ rest = 0
          /\ pc' = "next"
          /\ UNCHANGED <<tar, rest, ret, fds, out, leaks, faults>>
       \/ /\ rest > 0
          /\ Counts(f)
          /\ LET size == SmallerOf(rest, Blk)
                 r == mtar_read_data(tar, size, f)
             IN  /\ tar' = r.tar
                 /\ \/ /\ r.err = "ESUCCESS"
                       /\ rest' = rest - size
                       /\ UNCHANGED <<pc, ret, fds, out, leaks>>
                    \/ /\ r.err # "ESUCCESS"
                       /\ Returns(r.err, TRUE)
                       /\ UNCHANGED rest
    /\ UNCHANGED <<members, archive, h, files, runs, doubt>>

\* Mutant: the loop does not move on to the next member.
NextMember_Stays(f) ==
    /\ pc = "next"
    /\ pc' = "loop"
    /\ UNCHANGED <<members, archive, tar, h, rest, files, ret, out, fds, world, doubt>>

\* The result of mtar_next is ignored: after a failed seek the loop goes on with the
\* two positions apart.
NextMember(f) ==
    /\ pc = "next"
    /\ Counts(f)
    /\ LET r == mtar_next(tar, f)
       IN  tar' = r.tar /\ astray' = (astray \/ r.err = "ESEEKFAIL")
    /\ pc' = "loop"
    /\ UNCHANGED <<members, archive, h, rest, files, ret, out, fds, runs, leaks, mixed, holes>>

\* untar_cmd reports and the shell prompts again.
Report ==
    /\ pc = "return"
    /\ pc' = "idle"
    /\ UNCHANGED <<members, archive, tar, h, rest, files, ret, out, fds, world, doubt>>

-----------------------------------------------------------------------------
Init ==
    /\ members = <<>> /\ archive = <<>>
    /\ tar = Closed /\ h = NoHeader /\ rest = 0
    /\ files = [n \in Name |-> NoFile]
    /\ pc = "idle" /\ ret = "ESUCCESS"
    /\ out = FALSE /\ fds = 0
    /\ faults = 0 /\ runs = 0 /\ leaks = 0
    /\ astray = FALSE /\ mixed = {} /\ holes = {}

untar ==
    \/ \E f \in May(HeaderFaults) : ReadHeader(f)
    \/ \E f \in May({OpenFault}) : CreateFile(f)
    \/ \E f \in May(DataFaults(SmallerOf(rest, Blk)) \cup WriteFaults(SmallerOf(rest, Blk))) : Copy(f)
    \/ \E f \in May(DataFaults(SmallerOf(rest, Blk))) : Skip(f)
    \/ \E f \in May(NextFaults) : NextMember(f)
    \/ Report

Next ==
    \/ \E ms \in Packages : \E a \in Received(ms), f \in May(HeaderFaults \cup {OpenFault}) :
          OpenTar(ms, a, f)
    \/ untar

\* The shell goes on with a command it has begun.
Spec == Init /\ [][Next]_vars /\ WF_vars(untar)

-----------------------------------------------------------------------------
(* Properties.                                                             *)

\* The types of the variables.
TypeOK ==
    /\ tar \in [pos : Nat, last_header : Nat, remaining_data : 0 .. Word - 1, fpos : Nat]
    /\ rest \in 0 .. IntMax /\ h.size \in 0 .. IntMax
    /\ DOMAIN files = Name
    /\ pc \in {"idle", "loop", "create", "copy", "skip", "next", "return"}
    /\ ret \in {"ESUCCESS", "EREADFAIL", "ESEEKFAIL", "EBADCHKSUM", "ENULLRECORD", "EOPENFAIL", "-1"}
    /\ out \in BOOLEAN /\ astray \in BOOLEAN
    /\ fds \in 0 .. FdMax /\ faults \in 0 .. MaxFaults
    /\ runs \in 0 .. MaxRuns /\ leaks \in 0 .. MaxRuns
    /\ mixed \subseteq Name /\ holes \subseteq Name

Regular(ms) == {i \in 1 .. Len(ms) : ms[i].type = "TREG"}

\* The members whose contents a full extraction leaves: a later one of the same name
\* replaces the earlier.
Latest(ms) == {i \in Regular(ms) : \A j \in Regular(ms) : j > i => ms[j].name # ms[i].name}

\* Undisturbed, untar leaves every regular member of an intact archive with its exact
\* contents: the positions microtar keeps never lose a header.  (Streams that earlier
\* commands left open may be missing: the last disturbance there is.)
ExtractsExactly ==
    pc = "return" /\ archive = Layout(members) /\ members # <<>> /\ faults = 0 /\ leaks < FdMax
        => /\ ret = "ESUCCESS"
           /\ \A i \in Latest(members) : files[members[i].name] = Content(members[i])

\* Some of the first n bytes of the member called name, in their order.
InOrder(s, name, n) ==
    /\ s \in Seq({name} \X (1 .. n))
    /\ \A k, l \in 1 .. Len(s) : k < l => s[k][2] < s[l][2]

\* Whatever fails, and whatever the archive lost: a file that was not made after a
\* failed seek of mtar_next holds bytes of one member of its name, in their order; and
\* if none of its writes failed, it holds a prefix of that member.
FilesArePrefixes ==
    \A n \in Name \ mixed : files[n] # NoFile =>
        \E ms \in Packages : \E i \in Regular(ms) :
            /\ ms[i].name = n
            /\ InOrder(files[n], n, ms[i].size)
            /\ n \notin holes => files[n] = SubSeq(Content(ms[i]), 1, Len(files[n]))

\* Between commands the open streams are exactly the archives left open by the
\* early returns of untar, the output file is closed on every path, and no more
\* streams are open than there are (with the types of the other variables).  Unless a
\* seek of mtar_next failed, microtar's unsigned count is what untar still wants of the
\* member, or 0 where it has to load the header: it does not wrap.
StreamsAccounted ==
    /\ TypeOK
    /\ pc \in {"idle", "return"} => fds = leaks /\ ~out
    /\ pc \notin {"idle", "return"} => fds = leaks + 1 + (IF out THEN 1 ELSE 0)
    /\ ~astray /\ pc \in {"copy", "skip"} => tar.remaining_data \in {0, rest}
    /\ ~astray /\ pc \in {"loop", "create", "next"} => tar.remaining_data = 0

\* A command ends, whatever the archive holds and whatever fails.
UntarReturns == pc # "idle" ~> pc = "idle"
=============================================================================
