----------------------------- MODULE RingBuffer -----------------------------
(***************************************************************************)
(* The RT-Thread ring buffer as the client uses it (struct rt_ringbuffer,  *)
(* rt_ringbuffer_put and rt_ringbuffer_get), with each call taken as one   *)
(* step.  Every index carries a mirror bit that flips when the index       *)
(* wraps, so that equal indices mean empty in the same mirror and full in  *)
(* different ones.  RecvPipeline splits the calls into their stores.       *)
(***************************************************************************)
EXTENDS Integers, Sequences

CONSTANTS
  Byte,         \* the values a byte can have
  BufferSize,   \* buffer_size: bytes in the pool
  MaxRequest    \* largest length a caller passes to put or get

ASSUME RingBufferAssumption ==
  /\ BufferSize \in Nat \ {0}
  /\ MaxRequest \in Nat \ {0}
  /\ Byte # {}

VARIABLES
  buffer_ptr,   \* the pool, by index
  read_mirror, read_index,
  write_mirror, write_index,
  got,          \* what the last rt_ringbuffer_get copied to its caller
  accepted      \* what the last rt_ringbuffer_put returned

vars == <<buffer_ptr, read_mirror, read_index, write_mirror, write_index,
          got, accepted>>

Index == 0 .. BufferSize - 1

\* The blocks of bytes a caller may put.
Block == UNION {[1 .. n -> Byte] : n \in 1 .. MaxRequest}

\* Mutant: the mirror bits are not looked at, a full buffer reads as empty.
status_NoMirror ==
  IF read_index = write_index THEN "EMPTY" ELSE "HALFFULL"

rt_ringbuffer_status ==
  IF read_index = write_index
  THEN IF read_mirror = write_mirror THEN "EMPTY" ELSE "FULL"
  ELSE "HALFFULL"

rt_ringbuffer_data_len ==
  CASE rt_ringbuffer_status = "EMPTY"    -> 0
    [] rt_ringbuffer_status = "FULL"     -> BufferSize
    [] rt_ringbuffer_status = "HALFFULL" ->
         IF write_index > read_index
         THEN write_index - read_index
         ELSE BufferSize - (read_index - write_index)

rt_ringbuffer_space_len == BufferSize - rt_ringbuffer_data_len

\* Mutant: an index that reaches the end of the pool does not wrap.
StaysInMirror_OffByOne(index, length) == BufferSize - index >= length

\* An index advanced by length stays short of the end of the pool.
StaysInMirror(index, length) == BufferSize - index > length

\* The pool after length bytes of ptr are copied to it from index start, the
\* part beyond the end of the pool going to its beginning (the one or two
\* rt_memcpy calls of rt_ringbuffer_put).
Copied(start, ptr, length) ==
  [i \in Index |->
     IF start <= i /\ i < start + length THEN ptr[i - start + 1]
     ELSE IF i + BufferSize < start + length
          THEN ptr[i + BufferSize - start + 1]
          ELSE buffer_ptr[i]]

\* The length bytes from read_index on, continued at the beginning of the pool
\* (the one or two rt_memcpy calls of rt_ringbuffer_get).
Taken(length) ==
  [i \in 1 .. length |->
     IF read_index + i - 1 < BufferSize
     THEN buffer_ptr[read_index + i - 1]
     ELSE buffer_ptr[read_index + i - 1 - BufferSize]]

rt_ringbuffer_init ==
  /\ buffer_ptr \in [Index -> Byte]
  /\ read_mirror = 0 /\ read_index = 0
  /\ write_mirror = 0 /\ write_index = 0

Init ==
  /\ rt_ringbuffer_init
  /\ got = << >>
  /\ accepted = 0

rt_ringbuffer_put(ptr) ==
  LET size   == rt_ringbuffer_space_len
      length == IF size < Len(ptr) THEN size ELSE Len(ptr)
  IN  /\ accepted' = length
      /\ UNCHANGED <<read_mirror, read_index, got>>
      /\ \/ /\ size = 0
            /\ UNCHANGED <<buffer_ptr, write_mirror, write_index>>
         \/ /\ size # 0
            /\ StaysInMirror(write_index, length)
            /\ buffer_ptr' = Copied(write_index, ptr, length)
            /\ write_index' = write_index + length
            /\ UNCHANGED write_mirror
         \/ /\ size # 0
            /\ ~ StaysInMirror(write_index, length)
            /\ buffer_ptr' = Copied(write_index, ptr, length)
            /\ write_mirror' = 1 - write_mirror
            /\ write_index' = length - (BufferSize - write_index)

rt_ringbuffer_get(request) ==
  LET size   == rt_ringbuffer_data_len
      length == IF size < request THEN size ELSE request
  IN  /\ got' = Taken(length)
      /\ UNCHANGED <<buffer_ptr, write_mirror, write_index, accepted>>
      /\ \/ /\ size = 0
            /\ UNCHANGED <<read_mirror, read_index>>
         \/ /\ size # 0
            /\ StaysInMirror(read_index, length)
            /\ read_index' = read_index + length
            /\ UNCHANGED read_mirror
         \/ /\ size # 0
            /\ ~ StaysInMirror(read_index, length)
            /\ read_mirror' = 1 - read_mirror
            /\ read_index' = length - (BufferSize - read_index)

Next ==
  \/ \E ptr \in Block : rt_ringbuffer_put(ptr)
  \/ \E request \in 1 .. MaxRequest : rt_ringbuffer_get(request)

Spec == Init /\ [][Next]_vars

----------------------------------------------------------------------------
\* Every index stays inside the pool and every mirror is one bit.
TypeOK ==
  /\ buffer_ptr \in [Index -> Byte]
  /\ read_mirror \in {0, 1} /\ write_mirror \in {0, 1}
  /\ read_index \in Index /\ write_index \in Index
  /\ got \in Seq(Byte) /\ Len(got) <= MaxRequest
  /\ accepted \in 0 .. MaxRequest

\* The write index is never behind the read index in the same mirror and never
\* ahead of it in the other one: the two indices together with their mirrors
\* describe between 0 and BufferSize bytes, which is what the comparison in
\* rt_ringbuffer_status and the two branches of rt_ringbuffer_data_len take for
\* granted.
MirrorOrder ==
  IF read_mirror = write_mirror
  THEN read_index <= write_index
  ELSE write_index <= read_index

\* The bytes held, oldest first.
Contents == Taken(rt_ringbuffer_data_len)

Fifo == INSTANCE BoundedFifo WITH queue <- Contents

\* The ring buffer implements a bounded first-in first-out queue: every put
\* appends what fits and returns its length, every get hands out the oldest
\* bytes, and nothing is reordered, repeated or dropped across a wrap.
FifoSpec == Fifo!Spec
============================================================================
