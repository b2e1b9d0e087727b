------------------------- MODULE RecvPipelineProofs -------------------------
(***************************************************************************)
(* For every buffer and block size: in an optimised build, or as long as   *)
(* parsing never sleeps, the two client threads hand the accepted bytes on *)
(* in order and none is left without a wake-up.                            *)
(***************************************************************************)
EXTENDS RecvPipeline, TLAPS

USE RecvPipelineAssumption

\* The initial state: an empty buffer, th_client about to receive.
LEMMA InitIndInv == Init => IndInv
<1> SUFFICES ASSUME Init PROVE IndInv
  OBVIOUS
<1> USE DEF Init, RB!Index, Label
<1>1. TypeOK
  BY DEF TypeOK
<1>2. Occupancy
  BY DEF Occupancy, Unread, WriteSide
<1>3. PoolHoldsStream
  BY DEF PoolHoldsStream, Holds
<1>4. PutInProgress /\ Preemption
  BY DEF PutInProgress, Preemption
<1>5. NoStrandedData
  BY DEF NoStrandedData, Unread
<1>6. InOrder
  BY DEF InOrder
<1> QED
  BY <1>1, <1>2, <1>3, <1>4, <1>5, <1>6 DEF IndInv

----------------------------------------------------------------------------
(* Steps that leave the ring buffer and the parser alone. *)

\* recv fills recvbuf.
LEMMA RecvStep == ASSUME IndInv, Recv PROVE IndInv'
<1> USE DEF IndInv, Recv, At, rb
<1>1. TypeOK'
  BY DEF TypeOK, RB!Index, Label
<1>2. Occupancy' /\ PoolHoldsStream'
  BY DEF Occupancy, PoolHoldsStream, Holds, Unread, WriteSide, TypeOK
<1>3. PutInProgress'
  BY DEF PutInProgress, TypeOK, Unread
<1>4. Preemption'
  BY DEF Preemption, ParserReady
<1>5. NoStrandedData' /\ InOrder'
  BY DEF NoStrandedData, InOrder, Unread
<1> QED
  BY <1>1, <1>2, <1>3, <1>4, <1>5

\* Outside the two stores of a wrap the ring buffer reports the unread bytes.
LEMMA DataLenIsUnread ==
  ASSUME TypeOK, Occupancy, wpc # "wrap"
  PROVE  RB!rt_ringbuffer_data_len = Unread
<1> USE DEF TypeOK, Occupancy, Unread, WriteSide, RB!Index
<1>1. CASE RB!rt_ringbuffer_status = "EMPTY"
  <2>1. RB!rt_ringbuffer_data_len = 0
    BY <1>1 DEF RB!rt_ringbuffer_data_len
  <2> QED
    BY <1>1, <2>1 DEF RB!rt_ringbuffer_status
<1>2. CASE RB!rt_ringbuffer_status = "FULL"
  <2>1. RB!rt_ringbuffer_data_len = BufferSize
    BY <1>2 DEF RB!rt_ringbuffer_data_len
  <2> QED
    BY <1>2, <2>1 DEF RB!rt_ringbuffer_status
<1>3. CASE RB!rt_ringbuffer_status = "HALFFULL"
  <2>1. RB!rt_ringbuffer_data_len = IF write_index > read_index
                                    THEN write_index - read_index
                                    ELSE BufferSize - (read_index - write_index)
    BY <1>3 DEF RB!rt_ringbuffer_data_len
  <2> QED
    BY <1>3, <2>1 DEF RB!rt_ringbuffer_status
<1> QED
  BY <1>1, <1>2, <1>3 DEF RB!rt_ringbuffer_status

\* th_client learns the space: none ends the put, some lets it copy.
LEMMA SpaceIsStep ==
  ASSUME IndInv, NEW space, space = BufferSize - Unread, SpaceIs(space),
         ~ ParserReady, wpc \in {"status", "mirrors", "halffull"}
  PROVE  IndInv'
<1> USE DEF IndInv, SpaceIs, rb
<1>0. space \in 0 .. BufferSize
  BY DEF Occupancy, TypeOK, Unread
<1>1. TypeOK'
  BY <1>0 DEF TypeOK, RB!Index, Label
<1>2. Occupancy' /\ PoolHoldsStream'
  BY DEF Occupancy, PoolHoldsStream, Holds, Unread, WriteSide, TypeOK
<1>3. PutInProgress'
  BY <1>0 DEF PutInProgress, Occupancy, TypeOK, Unread
<1>4. Preemption'
  BY DEF Preemption, ParserReady
<1>5. NoStrandedData' /\ InOrder'
  BY DEF NoStrandedData, InOrder, Unread
<1> QED
  BY <1>1, <1>2, <1>3, <1>4, <1>5

\* rt_ringbuffer_space_len of an optimised build: all indices at once.
LEMMA SpaceLenStep == ASSUME IndInv, SpaceLen PROVE IndInv'
<1>1. RB!rt_ringbuffer_space_len = BufferSize - Unread
  BY DataLenIsUnread DEF IndInv, SpaceLen, At, RB!rt_ringbuffer_space_len
<1> QED
  BY <1>1, SpaceIsStep DEF SpaceLen, At

\* rt_ringbuffer_space_len of a debug build: the comparison of the indices,
LEMMA CompareIndicesStep == ASSUME IndInv, CompareIndices PROVE IndInv'
<1> USE DEF IndInv, CompareIndices, At, rb
<1>1. TypeOK'
  BY DEF TypeOK, RB!Index, Label
<1>2. Occupancy' /\ PoolHoldsStream'
  BY DEF Occupancy, PoolHoldsStream, Holds, Unread, WriteSide, TypeOK
<1>3. PutInProgress'
  BY DEF PutInProgress, TypeOK, Unread
<1>4. Preemption'
  BY DEF Preemption, ParserReady
<1>5. NoStrandedData' /\ InOrder'
  BY DEF NoStrandedData, InOrder, Unread
<1> QED
  BY <1>1, <1>2, <1>3, <1>4, <1>5

\* the comparison of the mirrors,
LEMMA CompareMirrorsStep == ASSUME IndInv, CompareMirrors PROVE IndInv'
<1>1. (IF read_mirror = write_mirror THEN BufferSize ELSE 0) = BufferSize - Unread
  BY DEF IndInv, CompareMirrors, At, PutInProgress, Occupancy, TypeOK, WriteSide,
         RB!Index, Unread
<1> QED
  BY <1>1, SpaceIsStep DEF CompareMirrors, At

\* and the difference of the indices.
LEMMA SubtractIndicesStep == ASSUME IndInv, SubtractIndices PROVE IndInv'
<1>1. BufferSize - (IF write_index > read_index
                    THEN write_index - read_index
                    ELSE BufferSize - (read_index - write_index))
        = BufferSize - Unread
  BY DEF IndInv, SubtractIndices, At, PutInProgress, Occupancy, TypeOK, WriteSide,
         RB!Index, Unread
<1> QED
  BY <1>1, SpaceIsStep DEF SubtractIndices, At

\* The semaphore is released for the bytes just put.
LEMMA ReleaseStep == ASSUME IndInv, Release PROVE IndInv'
<1> USE DEF IndInv, Release, At, rb
<1>1. TypeOK'
  BY DEF TypeOK, RB!Index, Label
<1>2. Occupancy' /\ PoolHoldsStream'
  BY DEF Occupancy, PoolHoldsStream, Holds, Unread, WriteSide, TypeOK
<1>3. PutInProgress'
  BY DEF PutInProgress
<1>4. Preemption'
  BY DEF Preemption, ParserReady
<1>5. NoStrandedData'
  BY DEF NoStrandedData, Unread, TypeOK
<1>6. InOrder'
  BY DEF InOrder
<1> QED
  BY <1>1, <1>2, <1>3, <1>4, <1>5, <1>6

\* The parser is done with its block.
LEMMA ParseReturnsStep == ASSUME IndInv, ParseReturns PROVE IndInv'
<1> USE DEF IndInv, ParseReturns, rb
<1>1. TypeOK'
  BY DEF TypeOK, RB!Index, Label
<1>2. Occupancy' /\ PoolHoldsStream'
  BY DEF Occupancy, PoolHoldsStream, Holds, Unread, WriteSide, TypeOK
<1>3. PutInProgress'
  BY DEF PutInProgress, TypeOK, Unread
<1>4. Preemption'
  BY DEF Preemption
<1>5. NoStrandedData' /\ InOrder'
  BY DEF NoStrandedData, InOrder, Unread
<1> QED
  BY <1>1, <1>2, <1>3, <1>4, <1>5

----------------------------------------------------------------------------
(* Steps that store into the ring buffer. *)

\* The copy fills free slots only: the unread bytes stay where they are and the
\* new ones continue them.
LEMMA CopyStep == ASSUME IndInv, Copy PROVE IndInv'
<1> USE DEF IndInv, Copy, At
<1> DEFINE block(n) == [i \in 1 .. n |-> wpos + i - 1]
<1>0. PICK n \in 1 .. PackSize :
         n = length' /\ n <= BufferSize - (wpos - rpos) /\ wpos + n <= MaxBytes
  BY DEF TypeOK, PutInProgress, Unread
<1>n. n <= BufferSize - (wpos - rpos) /\ wpos + n <= MaxBytes
  BY <1>0
<1>a. /\ write_index \in Int /\ read_index \in Int /\ wpos \in Int /\ rpos \in Int
      /\ 0 <= write_index /\ write_index < BufferSize
      /\ 0 <= read_index /\ read_index < BufferSize
      /\ 0 <= wpos - rpos /\ wpos - rpos <= BufferSize
      /\ \/ wpos - rpos = write_index - read_index
         \/ wpos - rpos = write_index - read_index + BufferSize
  BY DEF TypeOK, Occupancy, Unread, RB!Index
<1>b. ASSUME NEW i \in RB!Index
      PROVE  buffer_ptr'[i] =
               IF write_index <= i /\ i < write_index + n THEN wpos + i - write_index
               ELSE IF i + BufferSize < write_index + n
                    THEN wpos + i + BufferSize - write_index
                    ELSE buffer_ptr[i]
  <2>1. buffer_ptr'[i] =
          IF write_index <= i /\ i < write_index + n THEN block(n)[i - write_index + 1]
          ELSE IF i + BufferSize < write_index + n
               THEN block(n)[i + BufferSize - write_index + 1]
               ELSE buffer_ptr[i]
    BY <1>0 DEF RB!Copied
  <2>2. \A j \in 1 .. n : block(n)[j] = wpos + j - 1
    OBVIOUS
  <2> HIDE DEF block
  <2> QED
    BY <1>0, <1>a, <2>1, <2>2, SMTT(30) DEF RB!Index
<1>c. /\ UNCHANGED <<read_mirror, read_index, write_index, wpos, rpos>>
      /\ wpc = "copy"
      /\ \/ wpc' = "advance" /\ BufferSize - write_index > n
         \/ wpc' = "flip" /\ ~ (BufferSize - write_index > n)
  BY <1>0 DEF RB!StaysInMirror
<1>1. TypeOK'
  <2>1. buffer_ptr' \in [RB!Index -> Label]
    <3>1. ASSUME NEW i \in RB!Index PROVE buffer_ptr'[i] \in Label
      <4>1. buffer_ptr[i] \in -1 .. MaxBytes - 1 /\ wpos >= 0
        BY DEF TypeOK, Label
      <4> HIDE DEF Copy, IndInv
      <4> QED
        BY <1>n, <1>a, <1>b, <4>1 DEF RB!Index, Label
    <3>2. buffer_ptr' = [i \in RB!Index |-> buffer_ptr'[i]]
      BY DEF RB!Copied
    <3> QED
      BY <3>1, <3>2, Zenon
  <2> QED
    BY <2>1, <1>0 DEF TypeOK, RB!Index, Label
<1>2. Occupancy'
  BY DEF Occupancy, Unread, WriteSide, TypeOK
<1>3. PoolHoldsStream'
  <2> SUFFICES ASSUME NEW i \in RB!Index
               PROVE  /\ (i >= read_index /\ rpos + i - read_index < wpos + n)
                           => buffer_ptr'[i] = rpos + i - read_index
                      /\ (i < read_index
                           /\ rpos + BufferSize - read_index + i < wpos + n)
                           => buffer_ptr'[i] = rpos + BufferSize - read_index + i
    BY <1>0, <1>c DEF PoolHoldsStream, Holds, RB!Index
  <2>1. /\ (i >= read_index /\ rpos + i - read_index < wpos)
             => buffer_ptr[i] = rpos + i - read_index
        /\ (i < read_index /\ rpos + BufferSize - read_index + i < wpos)
             => buffer_ptr[i] = rpos + BufferSize - read_index + i
    BY <1>a, <1>c DEF PoolHoldsStream, Holds, RB!Index
  <2> HIDE DEF IndInv, Copy
  <2> QED
    BY <1>n, <1>a, <1>b, <2>1 DEF RB!Index
<1>4. PutInProgress'
  <2>1. length' = n
    BY <1>0
  <2> HIDE DEF IndInv, Copy
  <2> QED
    BY <1>n, <1>a, <1>c, <2>1 DEF PutInProgress, Unread
<1>5. Preemption'
  BY DEF Preemption, ParserReady
<1>6. NoStrandedData' /\ InOrder'
  BY DEF NoStrandedData, InOrder, Unread
<1> QED
  BY <1>1, <1>2, <1>3, <1>4, <1>5, <1>6

\* Storing the index makes the copied block part of the unread bytes.
LEMMA AdvanceStep == ASSUME IndInv, Advance PROVE IndInv'
<1> USE DEF IndInv, Advance, At
<1>1. TypeOK'
  BY DEF TypeOK, PutInProgress, RB!Index, Label
<1>2. Occupancy'
  BY DEF Occupancy, PutInProgress, Unread, WriteSide, TypeOK, RB!Index
<1>3. PoolHoldsStream'
  BY DEF PoolHoldsStream, Holds, TypeOK
<1>4. PutInProgress'
  BY DEF PutInProgress
<1>5. Preemption'
  BY DEF Preemption, ParserReady
<1>6. NoStrandedData'
  BY DEF NoStrandedData, Unread, TypeOK
<1>7. InOrder'
  BY DEF InOrder
<1> QED
  BY <1>1, <1>2, <1>3, <1>4, <1>5, <1>6, <1>7

\* The wrap of a debug build, first half: only the bit changes.
LEMMA FlipMirrorStep == ASSUME IndInv, FlipMirror PROVE IndInv'
<1> USE DEF IndInv, FlipMirror, At
<1>1. CASE Build = "debug"
  <2> USE <1>1
  <2>1. TypeOK'
    BY DEF TypeOK, RB!Index, Label
  <2>2. Occupancy'
    BY DEF Occupancy, Unread, WriteSide, TypeOK
  <2>3. PoolHoldsStream' /\ PutInProgress'
    BY DEF PoolHoldsStream, Holds, PutInProgress, Unread, TypeOK
  <2>4. Preemption'
    BY DEF Preemption, ParserReady
  <2>5. NoStrandedData' /\ InOrder'
    BY DEF NoStrandedData, InOrder, Unread
  <2> QED
    BY <2>1, <2>2, <2>3, <2>4, <2>5
<1>2. CASE Build # "debug"
  <2> USE <1>2
  <2>1. TypeOK'
    BY DEF TypeOK, PutInProgress, Occupancy, Unread, RB!Index, Label
  <2>2. Occupancy'
    BY DEF Occupancy, PutInProgress, Unread, WriteSide, TypeOK, RB!Index
  <2>3. PoolHoldsStream'
    BY DEF PoolHoldsStream, Holds, TypeOK
  <2>4. PutInProgress'
    BY DEF PutInProgress
  <2>5. Preemption'
    BY DEF Preemption, ParserReady
  <2>6. NoStrandedData'
    BY DEF NoStrandedData, Unread, TypeOK
  <2>7. InOrder'
    BY DEF InOrder
  <2> QED
    BY <2>1, <2>2, <2>3, <2>4, <2>5, <2>6, <2>7
<1> QED
  BY <1>1, <1>2

\* The wrap of a debug build, second half.
LEMMA WrapIndexStep == ASSUME IndInv, WrapIndex PROVE IndInv'
<1> USE DEF IndInv, WrapIndex, At
<1>1. TypeOK'
  BY DEF TypeOK, PutInProgress, Occupancy, Unread, RB!Index, Label
<1>2. Occupancy'
  BY DEF Occupancy, PutInProgress, Unread, WriteSide, TypeOK, RB!Index
<1>3. PoolHoldsStream'
  BY DEF PoolHoldsStream, Holds, TypeOK
<1>4. PutInProgress'
  BY DEF PutInProgress
<1>5. Preemption'
  BY DEF Preemption, ParserReady
<1>6. NoStrandedData'
  BY DEF NoStrandedData, Unread, TypeOK
<1>7. InOrder'
  BY DEF InOrder
<1> QED
  BY <1>1, <1>2, <1>3, <1>4, <1>5, <1>6, <1>7

----------------------------------------------------------------------------
(* The get, which needs the threads not to meet in the middle of a put. *)

\* The builds and uses in which the parser never finds a put half done.
Quiet == Build = "release" \/ ~ ParseBlocks

\* A semaphore count more stands for a block more.
LEMMA Distribute ==
  ASSUME NEW p \in Nat, NEW k \in Nat PROVE p * (k + 1) = p * k + p /\ p * k >= 0
OBVIOUS

\* A get takes the oldest bytes, in order, and moves the read index past them.
LEMMA TakeAndGetStep == ASSUME Quiet, IndInv, TakeAndGet PROVE IndInv'
<1> USE DEF IndInv, TakeAndGet, ParserReady
<1>1. wpc \notin {"mirrors", "halffull", "wrap"}
  BY DEF Quiet, Preemption
<1>2. RB!rt_ringbuffer_data_len = wpos - rpos
  BY <1>1, DataLenIsUnread DEF Unread
<1>3. PICK n \in 0 .. PackSize :
        /\ n = IF wpos - rpos < PackSize THEN wpos - rpos ELSE PackSize
        /\ buffer' = RB!Taken(n)
        /\ \/ n = 0 /\ UNCHANGED <<read_mirror, read_index>>
           \/ /\ n > 0 /\ BufferSize - read_index > n
              /\ read_index' = read_index + n /\ UNCHANGED read_mirror
           \/ /\ n > 0 /\ BufferSize - read_index <= n
              /\ read_index' = n - (BufferSize - read_index)
              /\ read_mirror' = 1 - read_mirror
        /\ UNCHANGED <<buffer_ptr, write_mirror, write_index, size>>
  BY <1>2 DEF RB!rt_ringbuffer_get, RB!StaysInMirror, Occupancy, Unread, TypeOK, RB!Index
<1>a. /\ write_index \in Int /\ read_index \in Int /\ wpos \in Int /\ rpos \in Int
      /\ 0 <= write_index /\ write_index < BufferSize
      /\ 0 <= read_index /\ read_index < BufferSize
      /\ 0 <= wpos - rpos /\ wpos - rpos <= BufferSize /\ n <= wpos - rpos
      /\ rpos >= 0 /\ wpos <= MaxBytes
      /\ wpos - rpos = write_index - read_index
                       + (IF read_mirror = write_mirror THEN 0 ELSE BufferSize)
  BY <1>1, <1>3 DEF TypeOK, Occupancy, Unread, WriteSide, RB!Index
<1>b. ASSUME NEW i \in 1 .. n PROVE buffer'[i] = rpos + i - 1
  <2>1. buffer'[i] = IF read_index + i - 1 < BufferSize
                     THEN buffer_ptr[read_index + i - 1]
                     ELSE buffer_ptr[read_index + i - 1 - BufferSize]
    BY <1>3 DEF RB!Taken
  <2>2. \A j \in RB!Index :
          /\ (j >= read_index /\ rpos + j - read_index < wpos)
               => buffer_ptr[j] = rpos + j - read_index
          /\ (j < read_index /\ rpos + BufferSize - read_index + j < wpos)
               => buffer_ptr[j] = rpos + BufferSize - read_index + j
    BY <1>a DEF PoolHoldsStream, Holds, TypeOK, RB!Index
  <2> HIDE DEF IndInv, TakeAndGet
  <2>3. CASE read_index + i - 1 < BufferSize
    BY <1>a, <2>1, <2>2, <2>3 DEF RB!Index
  <2>4. CASE ~ (read_index + i - 1 < BufferSize)
    BY <1>a, <2>1, <2>2, <2>4 DEF RB!Index
  <2> QED
    BY <2>3, <2>4
<1>c. buffer' \in Seq(Label) /\ Len(buffer') = n
  <2>1. buffer' = [i \in 1 .. n |-> buffer'[i]]
    BY <1>3 DEF RB!Taken
  <2>2. \A i \in 1 .. n : buffer'[i] \in Label
    BY <1>a, <1>b DEF Label
  <2> QED
    BY <2>1, <2>2
<1>d. rpos' = rpos + n /\ rb_sem' = rb_sem - 1 /\ rb_sem \in Nat /\ rb_sem > 0
      /\ UNCHANGED <<wpc, length, wpos>>
  BY <1>c DEF TypeOK
<1> DEFINE wraps == ~ (BufferSize - read_index > n)
           m == IF wraps THEN n - (BufferSize - read_index) ELSE read_index + n
           f == IF wraps THEN 1 - read_mirror ELSE read_mirror
<1>e. read_mirror \in {0, 1} /\ write_mirror \in {0, 1}
  BY DEF TypeOK
<1>f. /\ m \in RB!Index /\ f \in {0, 1}
      /\ \/ m = read_index + n /\ f = read_mirror
         \/ m = read_index + n - BufferSize /\ f = 1 - read_mirror
  <2> HIDE DEF IndInv, TakeAndGet
  <2> QED
    BY <1>a, <1>e DEF RB!Index
<1>g. /\ read_index' = m /\ read_mirror' = f
      /\ UNCHANGED <<buffer_ptr, write_mirror, write_index, size>>
  BY <1>3, <1>a
<1> HIDE DEF m, f
<1>4. TypeOK'
  BY <1>a, <1>c, <1>d, <1>f, <1>g DEF TypeOK
<1>5. Occupancy'
  <2> HIDE DEF IndInv, TakeAndGet
  <2>1. /\ wpos - (rpos + n) \in 0 .. BufferSize
        /\ wpos - (rpos + n) = write_index - m
                                + (IF f = write_mirror THEN 0 ELSE BufferSize)
    BY <1>a, <1>e, <1>f DEF RB!Index
  <2> QED
    BY <1>1, <1>d, <1>g, <2>1 DEF Occupancy, Unread, WriteSide
<1>6. PoolHoldsStream'
  <2> DEFINE end == IF wpc \in {"advance", "flip", "wrap"} THEN wpos + length ELSE wpos
  <2> SUFFICES ASSUME NEW i \in RB!Index
               PROVE  /\ (i >= m /\ rpos + n + i - m < end)
                           => buffer_ptr[i] = rpos + n + i - m
                      /\ (i < m /\ rpos + n + BufferSize - m + i < end)
                           => buffer_ptr[i] = rpos + n + BufferSize - m + i
    BY <1>d, <1>g DEF PoolHoldsStream, Holds, RB!Index
  <2>1. /\ (i >= read_index /\ rpos + i - read_index < end)
             => buffer_ptr[i] = rpos + i - read_index
        /\ (i < read_index /\ rpos + BufferSize - read_index + i < end)
             => buffer_ptr[i] = rpos + BufferSize - read_index + i
    BY <1>a DEF PoolHoldsStream, Holds, RB!Index
  <2>2. end \in Int /\ end <= rpos + BufferSize
    BY <1>1, <1>a DEF PutInProgress, TypeOK, Unread
  <2> HIDE DEF IndInv, TakeAndGet, end
  <2> QED
    BY <1>a, <1>f, <2>1, <2>2 DEF RB!Index
<1>7. PutInProgress'
  <2>1. /\ wpc = "copy" => size \in 1 .. BufferSize - (wpos - (rpos + n))
        /\ wpc \in {"advance", "flip", "wrap"}
             => length <= BufferSize - (wpos - (rpos + n))
    <3> HIDE DEF TakeAndGet
    <3> QED
      BY <1>a DEF PutInProgress, Unread, TypeOK
  <2> QED
    BY <1>1, <1>d, <1>g, <2>1 DEF PutInProgress, Unread
<1>8. Preemption'
  BY <1>d DEF Preemption, TypeOK
<1>9. NoStrandedData'
  <2> DEFINE pending == IF wpc = "release" THEN 1 ELSE 0
  <2>1. wpos - rpos <= PackSize * ((rb_sem - 1 + pending) + 1)
    BY <1>d DEF NoStrandedData, Unread
  <2>2. rb_sem - 1 + pending \in Nat
    BY <1>d
  <2>3. /\ PackSize * ((rb_sem - 1 + pending) + 1)
              = PackSize * (rb_sem - 1 + pending) + PackSize
        /\ PackSize * (rb_sem - 1 + pending) >= 0
    BY <2>2, Distribute
  <2>4. wpos - (rpos + n) <= PackSize * (rb_sem - 1 + pending)
    BY <1>3, <1>a, <2>1, <2>2, <2>3, SMTT(30)
  <2> QED
    BY <1>d, <2>4 DEF NoStrandedData, Unread
<1>10. InOrder'
  BY <1>a, <1>b, <1>c, <1>d DEF InOrder
<1> QED
  BY <1>4, <1>5, <1>6, <1>7, <1>8, <1>9, <1>10

----------------------------------------------------------------------------
(* The theorems, for every buffer size, block size and stream length. *)

\* Every step of either thread preserves the inductive invariant.
LEMMA NextIndInv == ASSUME Quiet, IndInv, [Next]_vars PROVE IndInv'
<1>1. CASE UNCHANGED vars
  BY <1>1, SMTT(30) DEF vars, rb, IndInv, TypeOK, Occupancy, PoolHoldsStream, Holds, PutInProgress,
     Preemption, NoStrandedData, InOrder, Unread, WriteSide, ParserReady
<1>2. CASE RecvNothing
  BY <1>1, <1>2 DEF RecvNothing
<1>3. CASE Recv
  BY <1>3, RecvStep
<1>4. CASE PutStep
  BY <1>4, SpaceLenStep, CompareIndicesStep, CompareMirrorsStep, SubtractIndicesStep,
     CopyStep, AdvanceStep, FlipMirrorStep, WrapIndexStep, ReleaseStep DEF PutStep
<1>5. CASE TakeAndGet
  BY <1>5, TakeAndGetStep
<1>6. CASE ParseReturns
  BY <1>6, ParseReturnsStep
<1> QED
  BY <1>1, <1>2, <1>3, <1>4, <1>5, <1>6 DEF Next

\* In an optimised build, or while parsing never sleeps, every reachable state
\* of the two threads and the ring buffer satisfies the inductive invariant.
THEOREM PipelineInvariant == ASSUME Quiet PROVE Spec => []IndInv
<1>1. Init => IndInv
  BY InitIndInv
<1>2. IndInv /\ [Next]_vars => IndInv'
  BY NextIndInv
<1> QED
  BY <1>1, <1>2, PTL DEF Spec

\* The fields of the ring buffer stay in range: no index passes the pool.
THEOREM TypeCorrect == ASSUME Quiet PROVE Spec => []TypeOK
<1>1. IndInv => TypeOK
  BY DEF IndInv
<1> QED
  BY <1>1, PipelineInvariant, PTL

\* The parser is handed the bytes of the socket in order, none twice and none
\* left out of the middle.
THEOREM BytesInOrder == ASSUME Quiet PROVE Spec => []InOrder
<1>1. IndInv => InOrder
  BY DEF IndInv
<1> QED
  BY <1>1, PipelineInvariant, PTL

\* The releases of rb_sem still to be taken are enough to fetch what is unread.
THEOREM NoMissedWakeup == ASSUME Quiet PROVE Spec => []NoStrandedData
<1>1. IndInv => NoStrandedData
  BY DEF IndInv
<1> QED
  BY <1>1, PipelineInvariant, PTL

\* A put refuses bytes only for want of room.
THEOREM DropsOnlyWhenFull == ASSUME Quiet PROVE Spec => DropOnlyWhenFull
<1> DEFINE Honest == (wpc \in {"status", "mirrors", "halffull"} /\ wpc' \in {"recv", "copy"})
                       => (size' >= length \/ size' = BufferSize - Unread)
<1>1. IndInv /\ [Next]_vars => [Honest]_vars
  <2> SUFFICES ASSUME IndInv, Next, wpc \in {"status", "mirrors", "halffull"},
                      wpc' \in {"recv", "copy"}
               PROVE  size' = BufferSize - Unread
    OBVIOUS
  <2>1. RB!rt_ringbuffer_data_len = Unread
    BY DataLenIsUnread DEF IndInv
  <2>2. CASE SpaceLen
    BY <2>1, <2>2 DEF SpaceLen, SpaceIs, RB!rt_ringbuffer_space_len
  <2>3. CASE CompareMirrors
    BY <2>3 DEF CompareMirrors, SpaceIs, At, IndInv, TypeOK, Occupancy, WriteSide, PutInProgress,
       Unread, RB!Index
  <2>4. CASE SubtractIndices
    BY <2>4 DEF SubtractIndices, SpaceIs, At, IndInv, TypeOK, Occupancy, WriteSide, PutInProgress,
       Unread, RB!Index
  <2> QED
    BY <2>2, <2>3, <2>4 DEF Next, PutStep, Recv, RecvNothing, CompareIndices, Copy, Advance,
       FlipMirror, WrapIndex, Release, TakeAndGet, ParserReady, ParseReturns, At, vars, rb
<1> QED
  BY <1>1, PipelineInvariant, PTL DEF Spec, DropOnlyWhenFull

----------------------------------------------------------------------------
(* Every build and every preemption. *)

\* Whatever a race has done to the indices and mirrors, the length computed from
\* them is one the pool can hold.
LEMMA DataLenInRange ==
  ASSUME StaysInPool PROVE RB!rt_ringbuffer_data_len \in 0 .. BufferSize
<1> USE DEF StaysInPool, RB!Index
<1>1. CASE RB!rt_ringbuffer_status = "EMPTY"
  BY <1>1 DEF RB!rt_ringbuffer_data_len
<1>2. CASE RB!rt_ringbuffer_status = "FULL"
  BY <1>2 DEF RB!rt_ringbuffer_data_len
<1>3. CASE RB!rt_ringbuffer_status = "HALFFULL"
  BY <1>3 DEF RB!rt_ringbuffer_data_len
<1> QED
  BY <1>1, <1>2, <1>3 DEF RB!rt_ringbuffer_status

\* A put is cut down to the space it computed, which is at most the pool.
LEMMA CopyInPool == ASSUME StaysInPool, Copy PROVE StaysInPool'
<1>0. (IF size < length THEN size ELSE length) \in 0 .. PackSize
  BY DEF StaysInPool
<1>1. PICK n \in 0 .. PackSize : n = (IF size < length THEN size ELSE length) /\ length' = n
  BY <1>0 DEF Copy
<1>2. /\ n <= BufferSize
      /\ wpc' = IF BufferSize - write_index > n THEN "advance" ELSE "flip"
      /\ UNCHANGED <<read_index, write_index, size, buffer>>
  BY <1>1 DEF StaysInPool, Copy, RB!StaysInMirror
<1> QED
  BY <1>1, <1>2 DEF StaysInPool, RB!Index

\* A get moves the read index by at most the pool, around its end if need be.
LEMMA GetInPool == ASSUME StaysInPool, TakeAndGet PROVE StaysInPool'
<1>1. PICK d \in 0 .. BufferSize : d = RB!rt_ringbuffer_data_len
  BY DataLenInRange
<1>2. PICK n \in 0 .. PackSize :
        /\ n <= BufferSize
        /\ buffer' = RB!Taken(n)
        /\ \/ read_index' = read_index
           \/ BufferSize - read_index > n /\ read_index' = read_index + n
           \/ /\ ~ (BufferSize - read_index > n)
              /\ read_index' = n - (BufferSize - read_index)
        /\ UNCHANGED <<write_index, size, wpc, length>>
  BY <1>1 DEF TakeAndGet, RB!rt_ringbuffer_get, RB!StaysInMirror
<1>3. Len(buffer') = n
  BY <1>2 DEF RB!Taken
<1>4. /\ n - (BufferSize - read_index) < BufferSize
      /\ ~ (BufferSize - read_index > n) => n - (BufferSize - read_index) \in RB!Index
      /\ BufferSize - read_index > n => read_index + n \in RB!Index
      /\ read_index \in RB!Index
  BY <1>2 DEF StaysInPool, RB!Index
<1>5. read_index' \in RB!Index
  BY <1>2, <1>4
<1> QED
  BY <1>2, <1>3, <1>5 DEF StaysInPool

\* The memory safety of the ring buffer does not depend on the build or on when
\* th_recv_parse sleeps: no interleaving, the racy ones included, makes a put or
\* a get reach beyond the pool or the parse buffer.
THEOREM NeverLeavesPool == Spec => []StaysInPool
<1>1. Init => StaysInPool
  BY DEF Init, StaysInPool, RB!Index
<1>2. StaysInPool /\ [Next]_vars => StaysInPool'
  <2> SUFFICES ASSUME StaysInPool, [Next]_vars PROVE StaysInPool'
    OBVIOUS
  <2>1. CASE Recv
    BY <2>1 DEF Recv, At, rb, StaysInPool
  <2>2. CASE UNCHANGED vars
    BY <2>2 DEF vars, rb, StaysInPool
  <2>3. ASSUME NEW space \in 0 .. BufferSize, SpaceIs(space) PROVE StaysInPool'
    BY <2>3 DEF SpaceIs, rb, StaysInPool
  <2>4. CASE SpaceLen
    <3>1. RB!rt_ringbuffer_space_len \in 0 .. BufferSize
      BY DataLenInRange DEF RB!rt_ringbuffer_space_len
    <3> QED
      BY <2>3, <2>4, <3>1 DEF SpaceLen
  <2>5. CASE CompareIndices
    BY <2>5 DEF CompareIndices, rb, StaysInPool
  <2>6. CASE CompareMirrors
    BY <2>3, <2>6 DEF CompareMirrors
  <2>7. CASE SubtractIndices
    <3>1. BufferSize - (IF write_index > read_index THEN write_index - read_index
                        ELSE BufferSize - (read_index - write_index)) \in 0 .. BufferSize
      BY DEF StaysInPool, RB!Index
    <3> QED
      BY <2>3, <2>7, <3>1 DEF SubtractIndices
  <2>8. CASE Copy
    BY <2>8, CopyInPool
  <2>9. CASE Advance
    <3>1. write_index + length \in RB!Index
      BY <2>9 DEF Advance, At, StaysInPool, RB!Index
    <3> QED
      BY <2>9, <3>1 DEF Advance, StaysInPool
  <2>10. CASE FlipMirror \/ WrapIndex
    <3>1. length - (BufferSize - write_index) \in RB!Index
      BY <2>10 DEF FlipMirror, WrapIndex, At, StaysInPool, RB!Index
    <3> QED
      BY <2>10, <3>1 DEF FlipMirror, WrapIndex, At, StaysInPool
  <2>11. CASE Release \/ ParseReturns
    BY <2>11 DEF Release, ParseReturns, rb, StaysInPool
  <2>12. CASE TakeAndGet
    BY <2>12, GetInPool
  <2> QED
    BY <2>1, <2>2, <2>4, <2>5, <2>6, <2>7, <2>8, <2>9, <2>10, <2>11, <2>12
       DEF Next, PutStep, RecvNothing
<1> QED
  BY <1>1, <1>2, PTL DEF Spec
============================================================================
