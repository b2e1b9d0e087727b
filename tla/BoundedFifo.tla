---------------------------- MODULE BoundedFifo ----------------------------
(***************************************************************************)
(* What the receive path of the client expects of its byte buffer: a       *)
(* first-in first-out queue of at most BufferSize bytes.  A put keeps the  *)
(* longest prefix that fits and reports its length; a get takes up to the  *)
(* requested number of bytes from the front.                               *)
(***************************************************************************)
EXTENDS Integers, Sequences

CONSTANTS
  Byte,         \* the values a byte can have
  BufferSize,   \* capacity of the queue, in bytes
  MaxRequest    \* largest block a caller puts or asks for

VARIABLES
  queue,        \* the bytes held, oldest first
  got,          \* the bytes the last get handed out
  accepted      \* the value the last put returned

vars == <<queue, got, accepted>>

Lesser(m, n) == IF m < n THEN m ELSE n

\* The blocks of bytes a caller may put: at least one, at most MaxRequest.
Block == UNION {[1 .. n -> Byte] : n \in 1 .. MaxRequest}

Init ==
  /\ queue = << >>
  /\ got = << >>
  /\ accepted = 0

\* Keep as much of ptr as there is space for.
Put(ptr) ==
  LET kept == Lesser(Len(ptr), BufferSize - Len(queue))
  IN  /\ queue' = queue \o SubSeq(ptr, 1, kept)
      /\ accepted' = kept
      /\ UNCHANGED got

\* Hand out at most length bytes, oldest first.
Get(length) ==
  LET taken == Lesser(length, Len(queue))
  IN  /\ got' = SubSeq(queue, 1, taken)
      /\ queue' = SubSeq(queue, taken + 1, Len(queue))
      /\ UNCHANGED accepted

Next ==
  \/ \E ptr \in Block : Put(ptr)
  \/ \E length \in 1 .. MaxRequest : Get(length)

Spec == Init /\ [][Next]_vars
============================================================================
