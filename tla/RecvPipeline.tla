---------------------------- MODULE RecvPipeline ----------------------------
(***************************************************************************)
(* The two threads of the network client and the ring buffer between them. *)
(*                                                                         *)
(* th_client (thread_communicate_server) receives blocks from the socket,  *)
(* puts them into client.rb and releases client.rb_sem.  th_recv_parse     *)
(* (thread_parse_recv_data) takes the semaphore, gets up to PackSize bytes *)
(* and parses them.  No lock guards the ring buffer.  th_recv_parse has    *)
(* the higher priority, so its rt_ringbuffer_get always runs in one piece, *)
(* but while it sleeps inside a flash write th_client runs, and it may be  *)
(* woken between any two instructions of rt_ringbuffer_put.                *)
(*                                                                         *)
(* Bytes are labelled with their place in the accepted stream: the k-th    *)
(* byte rt_ringbuffer_put copies is byte k, from 0 on.                     *)
(***************************************************************************)
EXTENDS Integers, Sequences

CONSTANTS
  BufferSize,   \* CLIENT_RECV_BUFFSIZE
  PackSize,     \* CLIENT_RECV_PACKSIZE
  MaxBytes,     \* bound: bytes accepted in one behaviour
  Build,        \* "debug" or "release", BUILD of rtconfig.py
  ParseBlocks   \* TRUE when parse_recv_data may sleep (flash writes)

ASSUME RecvPipelineAssumption ==
  /\ BufferSize \in Nat \ {0}
  /\ PackSize \in Nat \ {0}
  /\ MaxBytes \in Nat
  /\ Build \in {"debug", "release"}
  /\ ParseBlocks \in BOOLEAN

VARIABLES
  buffer_ptr, read_mirror, read_index, write_mirror, write_index, \* client.rb
  rb_sem,       \* count of the semaphore
  wpc,          \* where th_client is
  length,       \* th_client: len of recv, then length of rt_ringbuffer_put
  size,         \* th_client: size of rt_ringbuffer_put
  ppc,          \* where th_recv_parse is
  buffer,       \* th_recv_parse: the bytes the last get handed out
  wpos,         \* bytes accepted so far (auxiliary)
  rpos          \* bytes handed out so far (auxiliary)

rb == <<buffer_ptr, read_mirror, read_index, write_mirror, write_index>>
vars == <<rb, rb_sem, wpc, length, size, ppc, buffer, wpos, rpos>>

Label == -1 .. MaxBytes - 1   \* -1: a byte of the pool never written

RB == INSTANCE RingBuffer
        WITH Byte <- Label, MaxRequest <- PackSize,
             got <- buffer, accepted <- size

Init ==
  /\ buffer_ptr = [i \in 0 .. BufferSize - 1 |-> -1]
  /\ read_mirror = 0 /\ read_index = 0
  /\ write_mirror = 0 /\ write_index = 0
  /\ rb_sem = 0
  /\ wpc = "recv" /\ length = 0 /\ size = 0
  /\ ppc = "take" /\ buffer = << >>
  /\ wpos = 0 /\ rpos = 0

----------------------------------------------------------------------------
(* th_client *)

\* th_recv_parse is ready to run and, having the higher priority, runs.
ParserReady == ppc = "take" /\ rb_sem > 0

At(pc) == wpc = pc /\ ~ ParserReady

\* recv returns len > 0 bytes.
Recv ==
  /\ At("recv")
  /\ \E len \in 1 .. PackSize : wpos + len <= MaxBytes /\ length' = len
  /\ wpc' = "status"
  /\ UNCHANGED <<rb, rb_sem, size, ppc, buffer, wpos, rpos>>

\* recv returns 0 or an error: the loop only sleeps.
RecvNothing ==
  /\ At("recv")
  /\ UNCHANGED vars

\* Mutant: one slot of the pool is kept free.
SpaceIs_OneSlotFree(space) ==
  /\ size' = IF space = 0 THEN 0 ELSE space - 1
  /\ wpc' = IF size' = 0 THEN "recv" ELSE "copy"
  /\ UNCHANGED <<rb, rb_sem, length, ppc, buffer, wpos, rpos>>

\* The space is known: a put without space returns 0 and rb_sem is not
\* released, any other goes on to copy.
SpaceIs(space) ==
  /\ size' = space
  /\ wpc' = IF space = 0 THEN "recv" ELSE "copy"
  /\ UNCHANGED <<rb, rb_sem, length, ppc, buffer, wpos, rpos>>

\* rt_ringbuffer_space_len, optimised: the index words are loaded once.
SpaceLen ==
  /\ Build = "release"
  /\ At("status")
  /\ SpaceIs(RB!rt_ringbuffer_space_len)

\* rt_ringbuffer_space_len as written: rt_ringbuffer_status compares the
\* indices ...
CompareIndices ==
  /\ Build = "debug"
  /\ At("status")
  /\ wpc' = IF read_index = write_index THEN "mirrors" ELSE "halffull"
  /\ UNCHANGED <<rb, rb_sem, length, size, ppc, buffer, wpos, rpos>>

\* ... then, if they were equal, the mirrors ...
CompareMirrors ==
  /\ At("mirrors")
  /\ SpaceIs(IF read_mirror = write_mirror THEN BufferSize ELSE 0)

\* ... and, if they were not, rt_ringbuffer_data_len reads them again.
SubtractIndices ==
  /\ At("halffull")
  /\ SpaceIs(BufferSize - (IF write_index > read_index
                           THEN write_index - read_index
                           ELSE BufferSize - (read_index - write_index)))

\* Mutant: the block is not cut down to the space there is.
Copy_WithoutCut ==
  /\ At("copy")
  /\ buffer_ptr' = RB!Copied(write_index, [i \in 1 .. length |-> wpos + i - 1], length)
  /\ wpc' = IF RB!StaysInMirror(write_index, length) THEN "advance" ELSE "flip"
  /\ UNCHANGED <<read_mirror, read_index, write_mirror, write_index,
                 rb_sem, length, size, ppc, buffer, wpos, rpos>>

\* rt_memcpy of what fits, behind the write index.
Copy ==
  /\ At("copy")
  /\ length' = IF size < length THEN size ELSE length
  /\ buffer_ptr' = RB!Copied(write_index, [i \in 1 .. length' |-> wpos + i - 1],
                             length')
  /\ wpc' = IF RB!StaysInMirror(write_index, length') THEN "advance" ELSE "flip"
  /\ UNCHANGED <<read_mirror, read_index, write_mirror, write_index,
                 rb_sem, size, ppc, buffer, wpos, rpos>>

\* write_index += length, without a wrap.
Advance ==
  /\ At("advance")
  /\ write_index' = write_index + length
  /\ wpos' = wpos + length
  /\ wpc' = "release"
  /\ UNCHANGED <<buffer_ptr, read_mirror, read_index, write_mirror,
                 rb_sem, length, size, ppc, buffer, rpos>>

\* The wrap: the mirror bit is stored first.  An optimised build merges this
\* store with the one of the index, which is in the same word.
FlipMirror ==
  /\ At("flip")
  /\ write_mirror' = 1 - write_mirror
  /\ IF Build = "debug"
     THEN /\ wpc' = "wrap"
          /\ UNCHANGED <<write_index, wpos>>
     ELSE /\ write_index' = length - (BufferSize - write_index)
          /\ wpos' = wpos + length
          /\ wpc' = "release"
  /\ UNCHANGED <<buffer_ptr, read_mirror, read_index,
                 rb_sem, length, size, ppc, buffer, rpos>>

\* The wrap: the index is stored second.
WrapIndex ==
  /\ At("wrap")
  /\ write_index' = length - (BufferSize - write_index)
  /\ wpos' = wpos + length
  /\ wpc' = "release"
  /\ UNCHANGED <<buffer_ptr, read_mirror, read_index, write_mirror,
                 rb_sem, length, size, ppc, buffer, rpos>>

\* Mutant: a binary semaphore, which forgets a second release.
Release_Binary ==
  /\ At("release")
  /\ rb_sem' = 1
  /\ wpc' = "recv"
  /\ UNCHANGED <<rb, length, size, ppc, buffer, wpos, rpos>>

\* rt_sem_release, once per put that stored something.
Release ==
  /\ At("release")
  /\ rb_sem' = rb_sem + 1
  /\ wpc' = "recv"
  /\ UNCHANGED <<rb, length, size, ppc, buffer, wpos, rpos>>

----------------------------------------------------------------------------
(* th_recv_parse *)

\* rt_sem_take and rt_ringbuffer_get.  An empty get ("get rb data failed")
\* goes back to waiting, any other is parsed; parsing may sleep.
TakeAndGet ==
  /\ ParserReady
  /\ rb_sem' = rb_sem - 1
  /\ RB!rt_ringbuffer_get(PackSize)
  /\ rpos' = rpos + Len(buffer')
  /\ \/ ppc' = "take"
     \/ ParseBlocks /\ buffer' # << >> /\ ppc' = "parse"
  /\ UNCHANGED <<wpc, length, wpos>>

\* parse_recv_data returns after having slept.
ParseReturns ==
  /\ ppc = "parse"
  /\ ppc' = "take"
  /\ UNCHANGED <<rb, rb_sem, wpc, length, size, buffer, wpos, rpos>>

----------------------------------------------------------------------------
PutStep ==
  \/ SpaceLen \/ CompareIndices \/ CompareMirrors \/ SubtractIndices
  \/ Copy \/ Advance \/ FlipMirror \/ WrapIndex \/ Release

Next == Recv \/ RecvNothing \/ PutStep \/ TakeAndGet \/ ParseReturns

Spec == Init /\ [][Next]_vars

\* Both threads run when they are ready; nothing is assumed of the server.
FairSpec ==
  /\ Spec
  /\ WF_vars(PutStep)
  /\ WF_vars(TakeAndGet)
  /\ WF_vars(ParseReturns)

----------------------------------------------------------------------------
TypeOK ==
  /\ buffer_ptr \in [RB!Index -> Label]
  /\ read_mirror \in {0, 1} /\ write_mirror \in {0, 1}
  /\ read_index \in RB!Index /\ write_index \in RB!Index
  /\ rb_sem \in Nat
  /\ wpc \in {"recv", "status", "mirrors", "halffull", "copy", "advance", "flip",
              "wrap", "release"}
  /\ length \in 0 .. PackSize
  /\ size \in 0 .. BufferSize
  /\ ppc \in {"take", "parse"}
  /\ buffer \in Seq(Label)
  /\ wpos \in 0 .. MaxBytes /\ rpos \in 0 .. MaxBytes

\* The bytes accepted and not yet handed out.
Unread == wpos - rpos

\* What th_recv_parse hands to parse_recv_data continues the accepted stream
\* exactly where the previous block ended: no byte is skipped, repeated or
\* stale, whatever th_client was doing when it was preempted.
InOrder ==
  \A i \in 1 .. Len(buffer) : buffer[i] = rpos - Len(buffer) + i - 1

\* No wake-up is missing.  A put stores at most PackSize bytes and releases
\* rb_sem once, a get removes PackSize bytes or all there are; so the bytes left
\* in the buffer never exceed what the releases still to be taken will fetch,
\* and none waits in the buffer for a block that may never be sent.
NoStrandedData ==
  Unread <= PackSize * (rb_sem + (IF wpc = "release" THEN 1 ELSE 0))

\* rt_ringbuffer_put refuses bytes only when the buffer has no room for them:
\* the space it computes while th_recv_parse may be draining the buffer is never
\* smaller than the block unless it is the space there really is.
DropOnlyWhenFull ==
  [][(wpc \in {"status", "mirrors", "halffull"} /\ wpc' \in {"recv", "copy"})
       => (size' >= length \/ size' = BufferSize - Unread)]_vars

\* No access leaves the pool or the parse buffer, in any build and however the
\* threads interleave: even after a race has made the buffer look fuller or
\* emptier than it is, the indices stay inside, a put copies at most BufferSize
\* bytes and a get at most PackSize.
StaysInPool ==
  /\ read_index \in RB!Index /\ write_index \in RB!Index
  /\ length \in 0 .. PackSize /\ size \in 0 .. BufferSize
  /\ wpc = "advance" => length < BufferSize - write_index
  /\ wpc \in {"flip", "wrap"} => BufferSize - write_index <= length /\ length <= BufferSize
  /\ Len(buffer) <= PackSize

\* When th_recv_parse looks at the buffer, equal indices in different mirrors
\* mean that BufferSize bytes are unread (the comment on struct rt_ringbuffer).
FullMeansFull ==
  ParserReady /\ RB!rt_ringbuffer_status = "FULL" => Unread = BufferSize

\* The mirror the write index is in; between the two stores of a wrap the bit
\* is already that of the other side.
WriteSide == IF wpc = "wrap" THEN 1 - write_mirror ELSE write_mirror

\* The indices and mirrors count the unread bytes.
Occupancy ==
  /\ Unread \in 0 .. BufferSize
  /\ Unread = write_index - read_index
              + (IF read_mirror = WriteSide THEN 0 ELSE BufferSize)

\* Slot i of the pool holds byte k of the stream, for the bytes k from the
\* read index on (up to a wrap) that lie between the two positions.
Holds(from, to) ==
  \A i \in RB!Index :
    /\ (i >= read_index /\ from <= rpos + i - read_index
                       /\ rpos + i - read_index < to)
         => buffer_ptr[i] = rpos + i - read_index
    /\ (i < read_index /\ from <= rpos + BufferSize - read_index + i
                      /\ rpos + BufferSize - read_index + i < to)
         => buffer_ptr[i] = rpos + BufferSize - read_index + i

\* The pool holds the unread bytes and, once th_client has copied a block, the
\* bytes of that block behind them.
PoolHoldsStream ==
  Holds(rpos, IF wpc \in {"advance", "flip", "wrap"} THEN wpos + length ELSE wpos)

\* What th_client relies on at each step of a put.
PutInProgress ==
  /\ wpc # "recv" /\ wpc # "release" => length >= 1 /\ wpos + length <= MaxBytes
  /\ wpc = "mirrors" => read_index = write_index
  /\ wpc = "halffull" => read_index # write_index
  /\ wpc = "copy" => size \in 1 .. BufferSize - Unread
  /\ wpc \in {"advance", "flip", "wrap"} => length <= BufferSize - Unread
  /\ wpc = "advance" => BufferSize - write_index > length
  /\ wpc \in {"flip", "wrap"} => BufferSize - write_index <= length

\* Which preemptions there are: none inside a put if the parser never sleeps,
\* and no half-done step of a put in an optimised build.
Preemption ==
  /\ ~ ParseBlocks => ppc = "take" /\ (rb_sem > 0 => wpc = "recv")
  /\ Build = "release" => wpc \notin {"mirrors", "halffull", "wrap"}

\* The inductive invariant behind InOrder, NoStrandedData and DropOnlyWhenFull.
IndInv ==
  /\ TypeOK
  /\ Occupancy
  /\ PoolHoldsStream
  /\ PutInProgress
  /\ Preemption
  /\ NoStrandedData
  /\ InOrder

\* Every byte accepted from the socket is eventually handed to the parser.
EveryByteParsed ==
  \A k \in 0 .. MaxBytes - 1 : wpos > k ~> rpos > k
============================================================================
