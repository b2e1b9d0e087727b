------------------------- MODULE ClientParseProofs -------------------------
(***************************************************************************)
(* For any messages, any segmentation, lost blocks and a failing flash:    *)
(* the parser keeps its descriptor, its lengths and its states in order,   *)
(* and stores what it is handed.  Over an intact link what it is handed is *)
(* the message, so that the CRC check of an update succeeds.               *)
(***************************************************************************)
EXTENDS ClientParse, TLAPS

\* Where a call that ends well leaves the state, and that it had a block.
Control ==
  /\ pc = "return" /\ ret >= 0 => recv_state \in {"NONE", "DATA"}
  /\ pc = "loop" => len > 0

\* A message in progress is the one of the header accepted last; an update has
\* its file open from the first block on, unless its write has just failed.
Receiving ==
  recv_state \in {"DATA", "FINISH"} =>
    /\ cur \in MsgId
    /\ curparse_type \in {"MEMO", "WEATHER", "UPDATE"}
    /\ recv_state = "DATA" => curparse_type # "MEMO"
    /\ curparse_type = "WEATHER" => recv_len <= Len(weather)
    /\ (curparse_type = "UPDATE" /\ recv_len = 0 /\ ~ (pc = "return" /\ ret < 0))
         => update_file_fd <= 0

\* The inductive invariant.
ParserInv ==
  /\ TypeOK /\ OwnsItsFile /\ CleanStart /\ RestsInNoneOrData
  /\ StoredAsReceived /\ Control /\ Receiving

\* The bounds.
LEMMA Bounds == MaxLen \in Nat /\ PackSize \in Nat \ {0, 1}
BY ClientParseAssumption

USE Bounds, SMTT(30)

\* A sequence and its length; the empty one.
LEMMA Length ==
  ASSUME NEW S, NEW s \in Seq(S)
  PROVE  Len(s) \in Nat /\ (Len(s) = 0 => s = << >>) /\ SubSeq(s, 1, 0) = << >>
OBVIOUS

\* The empty sequence.
LEMMA Empty == ASSUME NEW S PROVE << >> \in Seq(S) /\ Len(<< >>) = 0
OBVIOUS

\* A sequence behind another.
LEMMA Joined ==
  ASSUME NEW S, NEW s \in Seq(S), NEW t \in Seq(S)
  PROVE  /\ s \o t \in Seq(S) /\ Len(s \o t) = Len(s) + Len(t)
         /\ \A i \in 1 .. Len(s) + Len(t) :
               (s \o t)[i] = IF i <= Len(s) THEN s[i] ELSE t[i - Len(s)]
OBVIOUS

\* Sequences that agree everywhere.
LEMMA SameSeq ==
  ASSUME NEW S, NEW s \in Seq(S), NEW t \in Seq(S), Len(s) = Len(t),
         \A i \in 1 .. Len(s) : s[i] = t[i]
  PROVE  s = t
OBVIOUS

\* A sequence is the beginning of what is appended to it.
LEMMA ConcatBegins ==
  ASSUME NEW S, NEW s \in Seq(S), NEW t \in Seq(S)
  PROVE  /\ s \o t \in Seq(S) /\ Len(s) <= Len(s \o t)
         /\ SubSeq(s \o t, 1, Len(s)) = s
<1> DEFINE u == s \o t
<1>1. /\ u \in Seq(S) /\ Len(u) = Len(s) + Len(t)
      /\ \A i \in 1 .. Len(s) + Len(t) : u[i] = IF i <= Len(s) THEN s[i] ELSE t[i - Len(s)]
  BY Joined, Zenon
<1>2. Len(s) \in Nat /\ Len(t) \in Nat
  BY Length
<1> HIDE DEF u
<1>3. \A i \in 1 .. Len(s) : u[i] = s[i]
  BY <1>1, <1>2
<1>4. /\ SubSeq(u, 1, Len(s)) \in Seq(S) /\ Len(SubSeq(u, 1, Len(s))) = Len(s)
      /\ \A i \in 1 .. Len(s) : SubSeq(u, 1, Len(s))[i] = u[i]
  BY <1>1, <1>2
<1>5. SubSeq(u, 1, Len(s)) = s
  BY <1>3, <1>4, SameSeq
<1> QED
  BY <1>1, <1>2, <1>5 DEF u

----------------------------------------------------------------------------
(* The constants and the definitions built from them. *)

\* Headers and data are sequences of units, data no longer than MaxLen.
LEMMA MessageUnits ==
  /\ Nul \in Unit
  /\ \A m \in MsgId : /\ Header(m) \in Seq(Unit) /\ Data(m) \in Seq(Unit)
                      /\ Len(Data(m)) \in 0 .. MaxLen
                      /\ Msg[m].name \in Name
<1>1. Nul \in Unit /\ \A m \in MsgId : Msg[m].name \in Name
  BY DEF Nul, Unit, Name
<1>2. ASSUME NEW m \in MsgId PROVE Header(m) \in Seq(Unit)
  <2>1. [k |-> "hd", m |-> m] \in Unit /\ [k |-> "tl", m |-> m] \in Unit
    BY <1>2 DEF Unit
  <2> QED
    BY <2>1 DEF Header
<1>3. ASSUME NEW m \in MsgId PROVE Data(m) \in Seq(Unit) /\ Len(Data(m)) \in 0 .. MaxLen
  <2>1. Msg[m].data \in Seq({"x", "nul"}) /\ Len(Msg[m].data) <= MaxLen /\ MaxLen \in Nat
    BY <1>3, ClientParseAssumption
  <2> DEFINE n == Len(Msg[m].data)
  <2>2. n \in 0 .. MaxLen
    BY <2>1
  <2>3. \A i \in 1 .. n : [k |-> Msg[m].data[i], m |-> m] \in Unit
    <3> SUFFICES ASSUME NEW i \in 1 .. n PROVE [k |-> Msg[m].data[i], m |-> m] \in Unit
      OBVIOUS
    <3>1. Msg[m].data[i] \in {"x", "nul"}
      BY <2>1
    <3> QED
      BY <3>1 DEF Unit
  <2>4. Data(m) = [i \in 1 .. n |-> [k |-> Msg[m].data[i], m |-> m]]
    BY DEF Data
  <2> HIDE DEF n
  <2>5. Data(m) \in [1 .. n -> Unit]
    BY <2>3, <2>4
  <2> QED
    BY <2>2, <2>5
<1> QED
  BY <1>1, <1>2, <1>3

\* A link hands over blocks that fit in the buffer.
LEMMA LinkBlock ==
  ASSUME NEW l \in Links
  PROVE  /\ l.block \in 1 .. PackSize /\ PackSize \in Nat
         /\ l.failing \in BOOLEAN /\ l.msgs \subseteq MsgId
<1>1. l.block \in 1 .. PackSize /\ PackSize \in Nat /\ l.msgs \subseteq MsgId
  BY ClientParseAssumption
<1>2. l.failing \in BOOLEAN
  BY ClientParseAssumption, Zenon
<1> QED
  BY <1>1, <1>2

----------------------------------------------------------------------------
(* The initial state and the environment. *)

\* The zeroed memory of the device satisfies the invariant.
LEMMA InitParserInv == Init => ParserInv
<1> SUFFICES ASSUME Init PROVE ParserInv
  OBVIOUS
<1> USE DEF Init
<1>1. TypeOK
  <2>1. link.block \in 1 .. PackSize /\ PackSize \in Nat /\ MaxLen \in Nat
    BY LinkBlock
  <2>2. << >> \in Seq(Unit)
    BY Empty
  <2>3. buffer \in [1 .. PackSize -> Unit] /\ files \in [Name -> Seq(Unit)] /\ "none" \in Name
    BY <2>2, MessageUnits DEF Name
  <2> QED
    BY <2>1, <2>2, <2>3 DEF TypeOK
<1>2. OwnsItsFile /\ CleanStart /\ RestsInNoneOrData /\ Control
  BY DEF OwnsItsFile, CleanStart, RestsInNoneOrData, Control
<1>3. StoredAsReceived /\ Receiving
  BY DEF StoredAsReceived, Receiving
<1> QED
  BY <1>1, <1>2, <1>3 DEF ParserInv

\* The server sends a message: only the stream grows.
LEMMA SendStep == ASSUME ParserInv, NEW m \in MsgId, Send(m) PROVE ParserInv'
<1> USE DEF ParserInv, Send, recv_info
<1>1. TypeOK'
  <2>1. stream' \in Seq(Unit)
    BY MessageUnits DEF TypeOK
  <2> QED
    BY <2>1 DEF TypeOK
<1>2. OwnsItsFile' /\ CleanStart' /\ RestsInNoneOrData' /\ Control'
  BY DEF OwnsItsFile, CleanStart, RestsInNoneOrData, Control
<1>3. StoredAsReceived' /\ Receiving'
  BY DEF StoredAsReceived, Receiving
<1> QED
  BY <1>1, <1>2, <1>3

\* A refused block leaves the parser as it was.
LEMMA LoseStep == ASSUME ParserInv, Lose PROVE ParserInv'
<1> USE DEF ParserInv, Lose, recv_info
<1>1. TypeOK'
  <2>1. PICK n \in 1 .. link.block : /\ n <= Len(stream)
                                     /\ stream' = SubSeq(stream, n + 1, Len(stream))
    BY DEF Block
  <2>2. stream' \in Seq(Unit)
    BY <2>1, LinkBlock DEF TypeOK
  <2>3. UNCHANGED <<link, sent, recv_info, buffer, len, pc, ret, files, open_fds, memo,
                    weather, cur, handed, verdict>>
    OBVIOUS
  <2> HIDE DEF Lose
  <2> QED
    BY <2>2, <2>3 DEF TypeOK
<1>2. OwnsItsFile' /\ CleanStart' /\ RestsInNoneOrData' /\ Control'
  BY DEF OwnsItsFile, CleanStart, RestsInNoneOrData, Control
<1>3. StoredAsReceived' /\ Receiving'
  BY DEF StoredAsReceived, Receiving
<1> QED
  BY <1>1, <1>2, <1>3

----------------------------------------------------------------------------
(* The parse thread. *)

\* A new block is in the buffer, and the call begins.
LEMMA GetStep == ASSUME ParserInv, Get PROVE ParserInv'
<1> USE DEF ParserInv, Get, recv_info
<1>1. PICK n \in 1 .. link.block :
        /\ n <= Len(stream)
        /\ buffer' = [i \in 1 .. PackSize |-> IF i <= n THEN stream[i] ELSE buffer[i]]
        /\ stream' = SubSeq(stream, n + 1, Len(stream))
        /\ len' = n
  BY DEF Block
<1>2. link.block \in 1 .. PackSize /\ PackSize \in Nat
  BY LinkBlock DEF TypeOK
<1>3. TypeOK'
  <2>1. stream' \in Seq(Unit)
    BY <1>1, <1>2 DEF TypeOK
  <2>2. buffer' \in [1 .. PackSize -> Unit]
    <3>1. \A i \in 1 .. PackSize : (IF i <= n THEN stream[i] ELSE buffer[i]) \in Unit
      BY <1>1, <1>2 DEF TypeOK
    <3> QED
      BY <1>1, <3>1
  <2> QED
    BY <1>1, <1>2, <2>1, <2>2 DEF TypeOK
<1>4. OwnsItsFile' /\ CleanStart' /\ RestsInNoneOrData' /\ Control'
  BY <1>1, <1>2 DEF OwnsItsFile, CleanStart, RestsInNoneOrData, Control
<1>5. StoredAsReceived'
  BY DEF StoredAsReceived
<1>6. Receiving'
  BY DEF Receiving, RestsInNoneOrData
<1> QED
  BY <1>3, <1>4, <1>5, <1>6

\* clear_client_info closes the descriptor recv_info names and leaves a clean state.
LEMMA ClearStep ==
  ASSUME TypeOK, OwnsItsFile, clear_client_info
  PROVE  /\ recv_state' = "NONE" /\ curparse_type' = "NONE"
         /\ datalen' = 0 /\ recv_len' = 0
         /\ update_file_name' = "none" /\ update_file_fd' \in {-1, 0}
         /\ update_file_crc' = update_file_crc
         /\ open_fds' \subseteq 0 .. 6
         /\ OwnsItsFile' /\ CleanStart'
<1> USE DEF clear_client_info, TypeOK
<1>1. update_file_fd' \in {-1, 0}
  OBVIOUS
<1>2. open_fds' = 0 .. 2
  BY DEF OwnsItsFile
<1>3. OwnsItsFile'
  BY <1>1, <1>2 DEF OwnsItsFile
<1>4. CleanStart'
  BY <1>1 DEF CleanStart
<1> QED
  BY <1>1, <1>2, <1>3, <1>4

\* A block is looked at for a header.
LEMMA NoneStep == ASSUME ParserInv, CRS_NONE PROVE ParserInv'
<1> USE DEF ParserInv, CRS_NONE, Case, Break
<1>1. TypeOK'
  <2>1. /\ recv_state' \in {"NONE", "HEAD", "DATA", "FINISH"}
        /\ pc' \in {"wait", "loop", "return"} /\ ret' \in {-3, -2, -1, 0, 1, 2}
    BY DEF TypeOK
  <2>2. UNCHANGED <<link, stream, sent, curparse_type, datalen, recv_len, update_file_fd,
                    update_file_name, update_file_crc, buffer, len, files, open_fds,
                    memo, weather, cur, handed, verdict>>
    OBVIOUS
  <2> HIDE DEF CRS_NONE
  <2> QED
    BY <2>1, <2>2 DEF TypeOK
<1>2. OwnsItsFile' /\ CleanStart' /\ RestsInNoneOrData' /\ Control'
  BY DEF OwnsItsFile, CleanStart, RestsInNoneOrData, Control
<1>3. StoredAsReceived' /\ Receiving'
  BY DEF StoredAsReceived, Receiving
<1> QED
  BY <1>1, <1>2, <1>3

\* A cleared state, with nothing else of the parser changed but pc, ret and verdict.
LEMMA ClearedInv ==
  ASSUME ParserInv, clear_client_info, pc' \in {"wait", "return"}, ret' \in {-3, -2, -1, 0, 1, 2},
         verdict' \in {"none", "ok", "bad"},
         UNCHANGED <<link, stream, sent, buffer, len, files, memo, weather, cur, handed>>
  PROVE  ParserInv'
<1> USE DEF ParserInv
<1>1. /\ recv_state' = "NONE" /\ curparse_type' = "NONE"
      /\ datalen' = 0 /\ recv_len' = 0
      /\ update_file_name' = "none" /\ update_file_fd' \in {-1, 0}
      /\ update_file_crc' = update_file_crc /\ open_fds' \subseteq 0 .. 6
      /\ OwnsItsFile' /\ CleanStart'
  BY ClearStep
<1>2. TypeOK'
  <2>1. link.block \in 1 .. PackSize /\ PackSize \in Nat /\ MaxLen \in Nat
    BY LinkBlock DEF TypeOK
  <2>2. "none" \in Name
    BY DEF Name
  <2> QED
    BY <1>1, <2>1, <2>2 DEF TypeOK
<1>3. RestsInNoneOrData' /\ Control'
  BY <1>1 DEF RestsInNoneOrData, Control
<1>4. StoredAsReceived' /\ Receiving'
  BY <1>1 DEF StoredAsReceived, Receiving
<1> QED
  BY <1>1, <1>2, <1>3, <1>4

\* A header that does not parse clears the state.
LEMMA RejectedStep == ASSUME ParserInv, CRS_HEAD_Rejected PROVE ParserInv'
<1>1. verdict' \in {"none", "ok", "bad"}
  BY DEF CRS_HEAD_Rejected, ParserInv, TypeOK
<1> QED
  BY <1>1, ClearedInv DEF CRS_HEAD_Rejected, Break

\* A finished message clears the state, whatever the CRC check says.
LEMMA FinishStep == ASSUME ParserInv, CRS_FINISH PROVE ParserInv'
<1>1. verdict' \in {"none", "ok", "bad"}
  BY DEF CRS_FINISH
<1> QED
  BY <1>1, ClearedInv DEF CRS_FINISH, Break

\* An error clears the state; a call that ended well keeps it.
LEMMA ReturnStep == ASSUME ParserInv, Return PROVE ParserInv'
<1>1. CASE ret < 0 /\ clear_client_info
  <2>1. verdict' \in {"none", "ok", "bad"} /\ ret' \in {-3, -2, -1, 0, 1, 2}
    BY DEF Return, ParserInv, TypeOK
  <2> QED
    BY <1>1, <2>1, ClearedInv DEF Return
<1>2. CASE ret >= 0 /\ UNCHANGED <<recv_info, open_fds>>
  <2> USE <1>2 DEF ParserInv, Return, recv_info
  <2>1. TypeOK'
    BY DEF TypeOK
  <2>2. OwnsItsFile' /\ CleanStart'
    BY DEF OwnsItsFile, CleanStart
  <2>3. RestsInNoneOrData' /\ Control'
    BY DEF RestsInNoneOrData, Control
  <2>4. StoredAsReceived'
    BY DEF StoredAsReceived
  <2>5. Receiving'
    <3>1. ret \in Int
      BY DEF TypeOK
    <3> QED
      BY <3>1 DEF Receiving
  <2> QED
    BY <2>1, <2>2, <2>3, <2>4, <2>5
<1> QED
  BY <1>1, <1>2 DEF Return

\* A message without data is finished by the next block.
LEMMA NoneExpectedStep == ASSUME ParserInv, CRS_DATA_NoneExpected PROVE ParserInv'
<1> USE DEF ParserInv, CRS_DATA_NoneExpected, Case
<1>1. TypeOK'
  BY DEF TypeOK
<1>2. OwnsItsFile' /\ CleanStart' /\ RestsInNoneOrData' /\ Control'
  BY DEF OwnsItsFile, CleanStart, RestsInNoneOrData, Control
<1>3. StoredAsReceived' /\ Receiving'
  BY DEF StoredAsReceived, Receiving
<1> QED
  BY <1>1, <1>2, <1>3

\* A header starts its message from nothing received.
LEMMA AcceptedStep == ASSUME ParserInv, CRS_HEAD_Accepted PROVE ParserInv'
<1> USE DEF ParserInv, Case
<1>1. PICK m \in HeaderOf :
        /\ curparse_type' = Msg[m].type
        /\ cur' = m /\ handed' = << >>
        /\ \/ /\ Msg[m].type = "MEMO"
              /\ memo' = m
              /\ recv_state' = "FINISH"
              /\ UNCHANGED <<datalen, update_file_name, update_file_crc, pc, ret>>
           \/ /\ Msg[m].type = "WEATHER"
              /\ datalen' = Len(Data(m))
              /\ recv_state' = "DATA" /\ Break(1)
              /\ UNCHANGED <<memo, update_file_name, update_file_crc>>
           \/ /\ Msg[m].type = "UPDATE"
              /\ datalen' = Len(Data(m))
              /\ update_file_crc' = Data(m)
              /\ update_file_name' = Msg[m].name
              /\ recv_state' = "DATA" /\ Break(1)
              /\ UNCHANGED memo
  BY DEF CRS_HEAD_Accepted
<1>2. /\ pc = "loop" /\ recv_state = "HEAD"
      /\ UNCHANGED <<link, stream, sent, recv_len, update_file_fd, buffer, len, files,
                     open_fds, weather, verdict>>
  BY DEF CRS_HEAD_Accepted
<1>3. /\ m \in MsgId /\ Data(m) \in Seq(Unit) /\ Len(Data(m)) \in 0 .. MaxLen
      /\ Msg[m].name \in Name
  BY MessageUnits DEF HeaderOf
<1>4. << >> \in Seq(Unit) /\ Len(<< >>) = 0 /\ link.block \in 1 .. PackSize /\ PackSize \in Nat
  BY Empty, LinkBlock DEF TypeOK
<1>5. datalen = 0 /\ recv_len = 0 /\ update_file_fd <= 0
  BY <1>2 DEF CleanStart
<1>6. TypeOK'
  <2>1. /\ datalen' \in 0 .. MaxLen
        /\ update_file_name' \in Name /\ update_file_crc' \in Seq(Unit)
        /\ memo' \in MsgId \cup {NoMsg}
        /\ recv_state' \in {"DATA", "FINISH"} /\ curparse_type' \in {"MEMO", "WEATHER", "UPDATE"}
    BY <1>1, <1>3, <1>5 DEF TypeOK
  <2>2. pc' \in {"loop", "return"} /\ ret' \in {-3, -2, -1, 0, 1, 2}
    BY <1>1, <1>2 DEF TypeOK, Break
  <2>3. datalen' \in Int /\ -link.block < datalen' /\ datalen' <= MaxLen
    BY <1>4, <2>1
  <2> QED
    BY <1>1, <1>2, <1>3, <1>4, <2>1, <2>2, <2>3, Zenon DEF TypeOK
<1>7. OwnsItsFile' /\ CleanStart'
  BY <1>1, <1>2 DEF OwnsItsFile, CleanStart
<1>8. RestsInNoneOrData' /\ Control'
  BY <1>1, <1>2 DEF RestsInNoneOrData, Control, Break
<1>9. Receiving'
  BY <1>1, <1>2, <1>3, <1>5 DEF Receiving, TypeOK
<1>10. StoredAsReceived'
  <2>1. SubSeq(weather, 1, 0) = << >>
    BY Length DEF ParserInv, TypeOK
  <2> QED
    BY <1>1, <1>2, <1>3, <1>4, <1>5, <2>1 DEF StoredAsReceived
<1> QED
  BY <1>6, <1>7, <1>8, <1>9, <1>10

\* The first len units of the buffer are a block of that length.
LEMMA BlockType ==
  ASSUME TypeOK
  PROVE  /\ block \in Seq(Unit) /\ Len(block) = len
         /\ \A n \in 0 .. len : SubSeq(buffer, 1, n) \in Seq(Unit)
<1>1. link.block \in 1 .. PackSize /\ PackSize \in Nat
  BY LinkBlock DEF TypeOK
<1>2. len \in 0 .. PackSize /\ buffer \in [1 .. PackSize -> Unit]
  BY <1>1 DEF TypeOK
<1>3. buffer \in Seq(Unit) /\ Len(buffer) = PackSize
  BY <1>1, <1>2
<1> QED
  BY <1>1, <1>2, <1>3 DEF block

\* Counting a block keeps the lengths consistent; what is left to show of each kind
\* of message is where its units are.
LEMMA CountStep ==
  ASSUME ParserInv, Case("DATA"), datalen > 0, Count, UNCHANGED link
  PROVE  /\ datalen' \in Int /\ -link.block < datalen' /\ datalen' <= MaxLen
         /\ recv_len' \in Nat /\ recv_len' > 0 /\ recv_len' = recv_len + len
         /\ handed \in Seq(Unit) /\ Len(handed) = recv_len
         /\ handed' = handed \o block /\ handed' \in Seq(Unit) /\ Len(handed') = recv_len'
         /\ recv_len' + datalen' = Len(Data(cur))
         /\ \/ recv_state' = "FINISH" /\ pc' = pc /\ ret' = ret
            \/ recv_state' = "DATA" /\ pc' = "return" /\ ret' = 2
<1> USE DEF ParserInv, Case, Count, Break
<1>1. link.block \in 1 .. PackSize /\ PackSize \in Nat /\ MaxLen \in Nat
  BY LinkBlock DEF TypeOK
<1>2. /\ datalen \in Int /\ datalen <= MaxLen /\ recv_len \in Nat /\ len \in 1 .. link.block
      /\ handed \in Seq(Unit)
  BY <1>1 DEF TypeOK, Control
<1>3. Len(handed) = recv_len /\ recv_len + datalen = Len(Data(cur))
  BY DEF StoredAsReceived, Receiving
<1>4. block \in Seq(Unit) /\ Len(block) = len
  BY BlockType
<1>5. handed \o block \in Seq(Unit) /\ Len(handed \o block) = Len(handed) + Len(block)
  <2> HIDE DEF ParserInv, Case, Count, Break
  <2>1. handed \in Seq(Unit) /\ block \in Seq(Unit)
    BY <1>2, <1>4
  <2> QED
    BY <2>1, Joined, Zenon
<1>6. datalen' = datalen - len /\ recv_len' = recv_len + len /\ handed' = handed \o block
  OBVIOUS
<1>7. /\ \/ recv_state' = "FINISH" /\ pc' = pc /\ ret' = ret
         \/ recv_state' = "DATA" /\ pc' = "return" /\ ret' = 2
  OBVIOUS
<1>8. /\ datalen - len \in Int /\ -link.block < datalen - len /\ datalen - len <= MaxLen
      /\ recv_len + len \in Nat /\ recv_len + len > 0
      /\ (recv_len + len) + (datalen - len) = recv_len + datalen
  BY <1>1, <1>2
<1> QED
  BY <1>2, <1>3, <1>4, <1>5, <1>6, <1>7, <1>8, Zenon

\* A block of weather goes behind the ones before it.
LEMMA WeatherStep == ASSUME ParserInv, CRS_DATA_Weather PROVE ParserInv'
<1> DEFINE rest == SubSeq(weather, recv_len + len + 1, Len(weather))
<1>1. /\ Case("DATA") /\ datalen > 0 /\ curparse_type = "WEATHER" /\ Count
      /\ weather' = SubSeq(weather, 1, recv_len) \o block \o rest
      /\ UNCHANGED <<link, stream, sent, curparse_type, update_file_fd, update_file_name,
                     update_file_crc, buffer, len, files, open_fds, memo, cur, verdict>>
  BY DEF CRS_DATA_Weather
<1>2. /\ datalen' \in Int /\ -link.block < datalen' /\ datalen' <= MaxLen
      /\ recv_len' \in Nat /\ recv_len' > 0 /\ recv_len' = recv_len + len
      /\ handed \in Seq(Unit) /\ Len(handed) = recv_len
      /\ handed' = handed \o block /\ handed' \in Seq(Unit) /\ Len(handed') = recv_len'
      /\ recv_len' + datalen' = Len(Data(cur))
      /\ \/ recv_state' = "FINISH" /\ pc' = pc /\ ret' = ret
         \/ recv_state' = "DATA" /\ pc' = "return" /\ ret' = 2
  BY <1>1, CountStep
<1>3. weather \in Seq(Unit) /\ recv_len \in Nat /\ len \in Nat
  BY LinkBlock DEF ParserInv, TypeOK
<1>4. SubSeq(weather, 1, recv_len) = handed /\ cur \in MsgId
  BY <1>1 DEF ParserInv, StoredAsReceived, Receiving, Case
<1>5. rest \in Seq(Unit)
  BY <1>3
<1> HIDE DEF rest
<1>6. weather' = handed' \o rest
  BY <1>1, <1>2, <1>4, Zenon
<1>7. /\ weather' \in Seq(Unit) /\ recv_len' <= Len(weather')
      /\ SubSeq(weather', 1, recv_len') = handed'
  <2> DEFINE h == handed'
  <2> HIDE DEF h
  <2>1. h \in Seq(Unit) /\ Len(h) = recv_len' /\ weather' = h \o rest
    BY <1>2, <1>6 DEF h
  <2>2. h \o rest \in Seq(Unit) /\ Len(h) <= Len(h \o rest) /\ SubSeq(h \o rest, 1, Len(h)) = h
    BY <1>5, <2>1, ConcatBegins, Zenon
  <2>3. /\ weather' \in Seq(Unit) /\ recv_len' <= Len(weather')
        /\ SubSeq(weather', 1, recv_len') = h
    BY <2>1, <2>2, Zenon
  <2> QED
    BY <2>3 DEF h
<1>8. TypeOK'
  <2>1. pc' \in {"wait", "loop", "return"} /\ ret' \in {-3, -2, -1, 0, 1, 2}
    <3>1. /\ pc \in {"wait", "loop", "return"} /\ ret \in {-3, -2, -1, 0, 1, 2}
          /\ (pc' = pc /\ ret' = ret) \/ (pc' = "return" /\ ret' = 2)
      BY <1>2, Zenon DEF ParserInv, TypeOK
    <3> QED
      BY ONLY <3>1
  <2> QED
    BY <1>1, <1>2, <1>7, <2>1, ZenonT(30) DEF ParserInv, TypeOK
<1>9. OwnsItsFile' /\ CleanStart'
  <2>1. OwnsItsFile /\ UNCHANGED <<open_fds, update_file_fd>> /\ recv_state' \notin {"NONE", "HEAD"}
    <3>1. OwnsItsFile /\ UNCHANGED <<open_fds, update_file_fd>>
      BY <1>1, Zenon DEF ParserInv
    <3>2. recv_state' \in {"DATA", "FINISH"}
      BY <1>2, Zenon
    <3> QED
      BY ONLY <3>1, <3>2
  <2>2. OwnsItsFile'
    BY <2>1, Zenon DEF OwnsItsFile
  <2>3. CleanStart'
    BY <2>1, Zenon DEF CleanStart
  <2> QED
    BY <2>2, <2>3, Zenon
<1>10. RestsInNoneOrData' /\ Control'
  BY <1>1, <1>2 DEF ParserInv, RestsInNoneOrData, Control, Case
<1>11. StoredAsReceived'
  BY <1>1, <1>2, <1>7, Zenon DEF StoredAsReceived
<1>12. Receiving'
  BY <1>1, <1>2, <1>4, <1>7 DEF Receiving
<1> QED
  BY <1>8, <1>9, <1>10, <1>11, <1>12 DEF ParserInv

\* The descriptor that a block of an update is written to: the open one, a new
\* one, or the error of an open that failed.
LEMMA OpenedFd ==
  ASSUME ParserInv, NEW fd \in Opened
  PROVE  /\ fd \in {-1} \cup 3 .. 6
         /\ update_file_fd > 0 => fd = update_file_fd
         /\ fd = -1 => link.failing /\ update_file_fd <= 0
<1>1. /\ update_file_fd \in {-1, 0} \cup 3 .. 6
      /\ open_fds = 0 .. 2 \cup (IF update_file_fd > 0 THEN {update_file_fd} ELSE {})
  BY DEF ParserInv, TypeOK, OwnsItsFile
<1>2. CASE update_file_fd > 0
  BY <1>1, <1>2 DEF Opened
<1>3. CASE ~ update_file_fd > 0
  <2> DEFINE new == CHOOSE d \in 3 .. 6 : d \notin open_fds
  <2>1. \E d \in 3 .. 6 : d \notin open_fds
    BY <1>1, <1>3
  <2>2. new \in 3 .. 6 /\ new \notin open_fds
    BY ONLY <2>1, Zenon
  <2>3. fd \in {new} \cup (IF link.failing THEN {-1} ELSE {})
    BY <1>3 DEF Opened
  <2> QED
    BY <1>1, <1>3, <2>2, <2>3
<1> QED
  BY <1>2, <1>3

\* What a block of an update does: the open fails, or a part of the block is
\* appended to what the open file holds; only a failing flash loses any of it.
LEMMA UpdateWrites ==
  ASSUME ParserInv, CRS_DATA_Update
  PROVE  /\ update_file_fd' \in {-1} \cup 3 .. 6
         /\ update_file_fd > 0 => update_file_fd' = update_file_fd
         /\ \/ /\ update_file_fd' = -1 /\ link.failing /\ update_file_fd <= 0
               /\ Failure /\ UNCHANGED <<files, open_fds>>
            \/ /\ update_file_fd' > 0 /\ open_fds' = open_fds \cup {update_file_fd'}
               /\ \E n \in 0 .. len :
                    /\ files' = [files EXCEPT ![update_file_name] =
                                  (IF update_file_fd > 0 THEN files[update_file_name] ELSE << >>)
                                  \o SubSeq(buffer, 1, n)]
                    /\ n < len => link.failing
                    /\ \/ link.failing /\ Failure
                       \/ Count
<1> DEFINE old == IF update_file_fd > 0 THEN files[update_file_name] ELSE << >>
           Stored(n) == files' = [files EXCEPT ![update_file_name] = old \o SubSeq(buffer, 1, n)]
<1>1. PICK fd \in Opened :
        /\ update_file_fd' = fd
        /\ \/ fd < 0 /\ Failure /\ UNCHANGED <<files, open_fds>>
           \/ /\ fd > 0 /\ open_fds' = open_fds \cup {fd}
              /\ \/ link.failing /\ Stored(0) /\ Failure
                 \/ \E n \in 0 .. len : (n < len => link.failing) /\ Stored(n) /\ Count
  BY Zenon DEF CRS_DATA_Update
<1>2. /\ fd \in {-1} \cup 3 .. 6
      /\ update_file_fd > 0 => fd = update_file_fd
      /\ fd = -1 => link.failing /\ update_file_fd <= 0
  BY OpenedFd
<1>3. 0 \in 0 .. len
  BY LinkBlock DEF ParserInv, TypeOK
<1>4. (\E n \in 0 .. len : (n < len => link.failing) /\ Stored(n)
                             /\ ((link.failing /\ Failure) \/ Count))
        \/ fd < 0
  BY <1>1, <1>3, Zenon
<1>5. (fd < 0 => fd = -1) /\ ~ (fd > 0 /\ fd < 0)
  BY <1>2
<1>6. CASE fd < 0
  BY <1>1, <1>2, <1>5, <1>6, Zenon
<1>7. CASE ~ fd < 0
  BY <1>1, <1>2, <1>4, <1>7, Zenon
<1> QED
  BY <1>6, <1>7, Zenon

\* A block of an update goes behind the ones before it, or its write fails.
LEMMA UpdateStep == ASSUME ParserInv, CRS_DATA_Update PROVE ParserInv'
<1> DEFINE old == IF update_file_fd > 0 THEN files[update_file_name] ELSE << >>
<1>1. /\ Case("DATA") /\ datalen > 0 /\ curparse_type = "UPDATE"
      /\ UNCHANGED <<link, stream, sent, curparse_type, update_file_name, update_file_crc,
                     buffer, len, memo, weather, cur, verdict>>
  BY DEF CRS_DATA_Update
<1>2. /\ update_file_fd' \in {-1} \cup 3 .. 6
      /\ update_file_fd > 0 => update_file_fd' = update_file_fd
      /\ \/ /\ update_file_fd' = -1 /\ link.failing /\ update_file_fd <= 0
            /\ Failure /\ UNCHANGED <<files, open_fds>>
         \/ /\ update_file_fd' > 0 /\ open_fds' = open_fds \cup {update_file_fd'}
            /\ \E n \in 0 .. len :
                 /\ files' = [files EXCEPT ![update_file_name] = old \o SubSeq(buffer, 1, n)]
                 /\ n < len => link.failing
                 /\ \/ link.failing /\ Failure
                    \/ Count
  BY UpdateWrites, Zenon
<1>3. /\ update_file_fd \in {-1, 0} \cup 3 .. 6 /\ recv_len \in Nat
      /\ update_file_name \in Name /\ files \in [Name -> Seq(Unit)]
      /\ recv_len > 0 => update_file_fd > 0
      /\ ret \in Int /\ len \in Int /\ cur \in MsgId
  <2>1. /\ update_file_fd \in {-1, 0} \cup 3 .. 6 /\ recv_len \in Nat
        /\ update_file_name \in Name /\ files \in [Name -> Seq(Unit)] /\ ret \in Int
    BY DEF ParserInv, TypeOK
  <2>2. len \in Int
    BY LinkBlock DEF ParserInv, TypeOK
  <2>3. (recv_len > 0 => update_file_fd > 0) /\ cur \in MsgId
    BY <1>1 DEF ParserInv, StoredAsReceived, Receiving, Case
  <2> QED
    BY <2>1, <2>2, <2>3
<1>4. old \in Seq(Unit)
  BY <1>3
<1>5. files' \in [Name -> Seq(Unit)]
  <2>1. CASE UNCHANGED files
    BY <1>3, <2>1
  <2>2. ASSUME NEW n \in 0 .. len,
               files' = [files EXCEPT ![update_file_name] = old \o SubSeq(buffer, 1, n)]
        PROVE  files' \in [Name -> Seq(Unit)]
    <3> HIDE DEF old
    <3>1. SubSeq(buffer, 1, n) \in Seq(Unit)
      BY BlockType DEF ParserInv
    <3>2. old \o SubSeq(buffer, 1, n) \in Seq(Unit)
      BY <1>4, <3>1, Joined, Zenon
    <3> QED
      BY <1>3, <2>2, <3>2
  <2> QED
    BY <1>2, <2>1, <2>2, Zenon
<1>6. OwnsItsFile' /\ open_fds' \subseteq 0 .. 6
  <2>1. open_fds = 0 .. 2 \cup (IF update_file_fd > 0 THEN {update_file_fd} ELSE {})
    BY DEF ParserInv, OwnsItsFile
  <2>2. CASE update_file_fd' = -1 /\ update_file_fd <= 0 /\ open_fds' = open_fds
    BY <1>3, <2>1, <2>2 DEF OwnsItsFile
  <2>3. CASE update_file_fd' > 0 /\ open_fds' = open_fds \cup {update_file_fd'}
    BY <1>2, <1>3, <2>1, <2>3 DEF OwnsItsFile
  <2> QED
    BY <1>2, <2>2, <2>3, Zenon
<1>7. CASE Failure /\ link.failing
  <2>1. /\ ret' = -3 /\ pc' = "return" /\ recv_state' = "DATA" /\ recv_state = "DATA"
        /\ UNCHANGED <<datalen, recv_len, handed>>
    BY <1>1, <1>7 DEF Failure, Break, Case
  <2>2. TypeOK'
    BY <1>1, <1>2, <1>5, <1>6, <2>1 DEF ParserInv, TypeOK
  <2>3. CleanStart' /\ RestsInNoneOrData' /\ Control'
    BY <2>1 DEF CleanStart, RestsInNoneOrData, Control
  <2>4. StoredAsReceived'
    BY <1>1, <1>2, <1>3, <1>7, <2>1 DEF ParserInv, StoredAsReceived
  <2>5. Receiving'
    BY <1>1, <1>3, <2>1 DEF Receiving
  <2> QED
    BY <1>6, <2>2, <2>3, <2>4, <2>5 DEF ParserInv
<1>8. ASSUME Count, update_file_fd' > 0, NEW n \in 0 .. len, n < len => link.failing,
             files' = [files EXCEPT ![update_file_name] = old \o SubSeq(buffer, 1, n)]
      PROVE  ParserInv'
  <2>1. /\ datalen' \in Int /\ -link.block < datalen' /\ datalen' <= MaxLen
        /\ recv_len' \in Nat /\ recv_len' > 0 /\ recv_len' = recv_len + len
        /\ handed \in Seq(Unit) /\ Len(handed) = recv_len
        /\ handed' = handed \o block /\ handed' \in Seq(Unit) /\ Len(handed') = recv_len'
        /\ recv_len' + datalen' = Len(Data(cur))
        /\ \/ recv_state' = "FINISH" /\ pc' = pc /\ ret' = ret
           \/ recv_state' = "DATA" /\ pc' = "return" /\ ret' = 2
    BY <1>1, <1>8, CountStep, ZenonT(30)
  <2>2. TypeOK'
    <3>1. pc' \in {"wait", "loop", "return"} /\ ret' \in {-3, -2, -1, 0, 1, 2}
      <4>1. /\ pc \in {"wait", "loop", "return"} /\ ret \in {-3, -2, -1, 0, 1, 2}
            /\ (pc' = pc /\ ret' = ret) \/ (pc' = "return" /\ ret' = 2)
        BY <2>1, Zenon DEF ParserInv, TypeOK
      <4> QED
        BY ONLY <4>1
    <3> QED
      BY <1>1, <1>2, <1>5, <1>6, <2>1, <3>1, ZenonT(30) DEF ParserInv, TypeOK
  <2>3. CleanStart' /\ RestsInNoneOrData' /\ Control'
    BY <1>1, <2>1 DEF ParserInv, CleanStart, RestsInNoneOrData, Control, Case
  <2>4. ~ link.failing => files'[update_file_name] = handed'
    <3> SUFFICES ASSUME ~ link.failing PROVE files'[update_file_name] = handed'
      OBVIOUS
    <3>1. n = len
      BY <1>3, <1>8
    <3>2. old = handed
      <4>1. CASE recv_len > 0
        BY <1>1, <1>3, <4>1 DEF ParserInv, StoredAsReceived, Case
      <4>2. CASE ~ recv_len > 0
        <5>1. recv_len = 0
          BY <1>3, <4>2
        <5>2. ~ update_file_fd > 0
          BY <1>1, <1>3, <5>1 DEF ParserInv, Receiving, Case
        <5>3. handed = << >>
          BY <2>1, <5>1, Length
        <5> QED
          BY <5>2, <5>3
      <4> QED
        BY <4>1, <4>2
    <3>3. /\ files'[update_file_name] = old \o SubSeq(buffer, 1, n)
          /\ handed' = handed \o SubSeq(buffer, 1, len)
      <4>1. handed' = handed \o SubSeq(buffer, 1, len)
        BY <2>1, Zenon DEF block
      <4>2. files' = [files EXCEPT ![update_file_name] = old \o SubSeq(buffer, 1, n)]
        BY <1>8, Zenon
      <4> HIDE DEF old
      <4> QED
        BY ONLY <1>3, <4>1, <4>2
    <3> HIDE DEF old
    <3> QED
      BY ONLY <3>1, <3>2, <3>3
  <2>5. StoredAsReceived'
    BY <1>1, <1>8, <2>1, <2>4, Zenon DEF StoredAsReceived
  <2>6. Receiving'
    BY <1>1, <1>3, <2>1 DEF Receiving
  <2> QED
    BY <1>6, <2>2, <2>3, <2>5, <2>6 DEF ParserInv
<1> HIDE DEF old
<1> QED
  BY <1>2, <1>7, <1>8

----------------------------------------------------------------------------
(* The theorems. *)

\* Every step keeps the invariant.
LEMMA NextStep == ASSUME ParserInv, [Next]_vars PROVE ParserInv'
<1>1. CASE UNCHANGED vars
  <2> USE <1>1 DEF vars, recv_info, ParserInv
  <2>1. TypeOK'
    <3>1. UNCHANGED <<link, stream, sent, recv_state, curparse_type>>
      BY Zenon
    <3>2. UNCHANGED <<link, datalen, recv_len, update_file_fd, update_file_name, update_file_crc>>
      BY Zenon
    <3>3. UNCHANGED <<link, buffer, len, pc, ret, files, open_fds>>
      BY Zenon
    <3>4. UNCHANGED <<memo, weather, cur, handed, verdict>>
      BY Zenon
    <3>5. TypeOK
      BY Zenon
    <3>6. /\ link' \in Links /\ stream' \in Seq(Unit) /\ sent' \subseteq MsgId
          /\ recv_state' \in {"NONE", "HEAD", "DATA", "FINISH"}
          /\ curparse_type' \in {"SUCCESS", "NONE", "MEMO", "WEATHER", "UPDATE"}
      BY ONLY <3>1, <3>5, SMT DEF TypeOK
    <3>7. /\ datalen' \in Int /\ -link'.block < datalen' /\ datalen' <= MaxLen
          /\ recv_len' \in Nat /\ update_file_fd' \in {-1, 0} \cup 3 .. 6
          /\ update_file_name' \in Name /\ update_file_crc' \in Seq(Unit)
      BY ONLY <3>2, <3>5, SMT DEF TypeOK
    <3>8. /\ buffer' \in [1 .. PackSize -> Unit] /\ len' \in 0 .. link'.block
          /\ pc' \in {"wait", "loop", "return"} /\ ret' \in {-3, -2, -1, 0, 1, 2}
          /\ files' \in [Name -> Seq(Unit)] /\ open_fds' \subseteq 0 .. 6
      BY ONLY <3>3, <3>5, SMT DEF TypeOK
    <3>9. /\ memo' \in MsgId \cup {NoMsg} /\ weather' \in Seq(Unit)
          /\ cur' \in MsgId \cup {NoMsg} /\ handed' \in Seq(Unit)
          /\ verdict' \in {"none", "ok", "bad"}
      BY ONLY <3>4, <3>5, SMT DEF TypeOK
    <3> QED
      BY ONLY <3>6, <3>7, <3>8, <3>9, Zenon DEF TypeOK
  <2>2. OwnsItsFile' /\ CleanStart' /\ RestsInNoneOrData' /\ Control'
    <3>1. OwnsItsFile'
      <4>1. UNCHANGED <<open_fds, update_file_fd>> /\ OwnsItsFile
        BY Zenon
      <4> QED
        BY ONLY <4>1, Zenon DEF OwnsItsFile
    <3>2. CleanStart'
      BY DEF CleanStart
    <3>3. RestsInNoneOrData' /\ Control'
      BY DEF RestsInNoneOrData, Control
    <3> QED
      BY ONLY <3>1, <3>2, <3>3, Zenon
  <2>3. StoredAsReceived' /\ Receiving'
    BY DEF StoredAsReceived, Receiving
  <2> QED
    BY <2>1, <2>2, <2>3, Zenon
<1>2. CASE \E m \in MsgId : Send(m)
  BY <1>2, SendStep
<1>3. CASE parse_recv_data
  BY <1>3, NoneStep, RejectedStep, AcceptedStep, NoneExpectedStep, WeatherStep, UpdateStep,
     FinishStep DEF parse_recv_data
<1> QED
  BY <1>1, <1>2, <1>3, LoseStep, GetStep, ReturnStep DEF Next

\* The parser's invariant (parse_recv_data and th_recv_parse, client.c): for any
\* messages, blocks, losses and failures of the flash.
THEOREM ParserInvariant == Spec => []ParserInv
<1>1. Init => ParserInv
  BY InitParserInv
<1>2. ParserInv /\ [Next]_vars => ParserInv'
  BY NextStep
<1> QED
  BY <1>1, <1>2, PTL DEF Spec

\* No descriptor leaks and the console stays open, whichever way a message ends
\* (clear_client_info closes the file of recv_info and nothing else).
THEOREM FileOwned == Spec => []OwnsItsFile
<1>1. ParserInv => OwnsItsFile
  BY DEF ParserInv
<1> QED
  BY <1>1, ParserInvariant, PTL

\* Nothing of the previous message is left when a header is looked at.
THEOREM StartsClean == Spec => []CleanStart
<1>1. ParserInv => CleanStart
  BY DEF ParserInv
<1> QED
  BY <1>1, ParserInvariant, PTL

\* Between two blocks the parser expects a header or data.
THEOREM Rests == Spec => []RestsInNoneOrData
<1>1. ParserInv => RestsInNoneOrData
  BY DEF ParserInv
<1> QED
  BY <1>1, ParserInvariant, PTL

\* What is stored of a message in progress is what was handed over, and the two
\* counts of client.recv_info agree with it.
THEOREM Stores == Spec => []StoredAsReceived
<1>1. ParserInv => StoredAsReceived
  BY DEF ParserInv
<1> QED
  BY <1>1, ParserInvariant, PTL

\* No step but the write of an update block changes a file.
LEMMA OtherFilesKept ==
  ASSUME [Next]_vars, ~ CRS_DATA_Update PROVE UNCHANGED files
<1>1. CASE UNCHANGED vars
  BY <1>1 DEF vars
<1>2. CASE \E m \in MsgId : Send(m)
  BY <1>2 DEF Send
<1>3. CASE Lose \/ Get \/ Return
  BY <1>3 DEF Lose, Get, Return
<1>4. CASE parse_recv_data
  BY <1>4, Zenon DEF parse_recv_data, CRS_NONE, CRS_HEAD_Rejected, CRS_HEAD_Accepted,
              CRS_DATA_NoneExpected, CRS_DATA_Weather, CRS_FINISH
<1> QED
  BY <1>1, <1>2, <1>3, <1>4 DEF Next

\* A write of an update block appends, unless it is the first of its message.
LEMMA UpdateAppends ==
  ASSUME ParserInv, CRS_DATA_Update, NEW f \in Name, files'[f] # files[f]
  PROVE  /\ f = update_file_name
         /\ \/ recv_len = 0
            \/ /\ Len(files[f]) <= Len(files'[f])
               /\ SubSeq(files'[f], 1, Len(files[f])) = files[f]
<1> DEFINE old == IF update_file_fd > 0 THEN files[update_file_name] ELSE << >>
<1>1. PICK n \in 0 .. len :
        files' = [files EXCEPT ![update_file_name] = old \o SubSeq(buffer, 1, n)]
  BY UpdateWrites, Zenon
<1>2. files \in [Name -> Seq(Unit)] /\ update_file_name \in Name /\ recv_len \in Nat
  BY Zenon DEF ParserInv, TypeOK
<1>3. f = update_file_name
  <2> HIDE DEF old
  <2> QED
    BY <1>1, <1>2
<1>4. recv_len = 0 \/ old = files[f]
  <2>1. recv_state = "DATA" /\ curparse_type = "UPDATE"
    BY DEF CRS_DATA_Update, Case
  <2>2. recv_len > 0 => update_file_fd > 0
    BY <2>1 DEF ParserInv, StoredAsReceived
  <2> QED
    BY <1>2, <1>3, <2>2
<1>5. ASSUME old = files[f]
      PROVE  /\ Len(files[f]) <= Len(files'[f])
             /\ SubSeq(files'[f], 1, Len(files[f])) = files[f]
  <2> HIDE DEF old
  <2>1. SubSeq(buffer, 1, n) \in Seq(Unit) /\ old \in Seq(Unit)
    BY <1>2, <1>5, BlockType DEF ParserInv
  <2>2. files'[f] = old \o SubSeq(buffer, 1, n)
    BY <1>1, <1>2, <1>3
  <2> DEFINE u == old \o SubSeq(buffer, 1, n)
  <2>3. Len(old) <= Len(u) /\ SubSeq(u, 1, Len(old)) = old
    BY <2>1, ConcatBegins, Zenon
  <2> QED
    BY <1>5, <2>2, <2>3, Zenon
<1> HIDE DEF old
<1> QED
  BY <1>3, <1>4, <1>5

\* An update file only grows, block behind block, until a new update of that name
\* begins: no block is written over, and no other file is touched.
THEOREM Appends == Spec => OnlyAppends
<1>1. ASSUME ParserInv, [Next]_vars
      PROVE  [\A f \in Name : files'[f] # files[f] =>
                /\ f = update_file_name
                /\ \/ recv_len = 0
                   \/ /\ Len(files[f]) <= Len(files'[f])
                      /\ SubSeq(files'[f], 1, Len(files[f])) = files[f]]_vars
  BY <1>1, OtherFilesKept, UpdateAppends, Zenon
<1> QED
  BY <1>1, ParserInvariant, PTL DEF Spec, OnlyAppends

----------------------------------------------------------------------------
(* What an intact link delivers. *)

\* A sequence displaced by d holds the data of a message from its place k + 1 on,
\* all of it, and then ends or goes on with the header of another message.
Holds(s, d, m, k) ==
  /\ d + Len(Data(m)) <= Len(s)
  /\ \A j \in k + 1 .. Len(Data(m)) : s[d + j] = Data(m)[j]
  /\ d + Len(Data(m)) < Len(s) => s[d + Len(Data(m)) + 1].k = "hd"

\* Every header of the stream is whole and followed by its data.
Framed ==
  \A i \in 1 .. Len(stream) :
    stream[i].k = "hd" =>
      /\ stream[i].m \in MsgId
      /\ i + 1 <= Len(stream) /\ stream[i + 1].k = "tl"
      /\ Holds(stream, i + 1, stream[i].m, 0)

\* So is a header in the buffer.
HeaderAtHand ==
  pc = "loop" /\ recv_state \in {"NONE", "HEAD"} /\ buffer[1].k = "hd" =>
    buffer[1].m \in MsgId /\ Holds(stream, 0, buffer[1].m, 0)

\* The block at hand continues what has been received of a message, and the
\* stream continues the block.
DataAtHand ==
  recv_state = "DATA" =>
    /\ pc # "loop" /\ ~ (pc = "return" /\ ret < 0) => Holds(stream, 0 - recv_len, cur, recv_len)
    /\ pc = "loop" /\ datalen > 0 =>
         /\ len <= datalen
         /\ \A j \in 1 .. len : buffer[j] = Data(cur)[recv_len + j]
         /\ Holds(stream, 0 - recv_len - len, cur, recv_len + len)

\* What has been handed over is what the message begins with, and a finished
\* message has been handed over whole.
HandedOver ==
  recv_state \in {"DATA", "FINISH"} /\ curparse_type # "MEMO" =>
    /\ \A i \in 1 .. recv_len : handed[i] = Data(cur)[i]
    /\ datalen >= 0
    /\ recv_state = "FINISH" => datalen = 0
    /\ curparse_type = "UPDATE" => update_file_crc = Data(cur)

\* What an intact link adds to the invariant of the parser.
DeliveryInv ==
  /\ pc = "loop" => verdict = "none"
  /\ Intact => Framed /\ HeaderAtHand /\ DataAtHand /\ HandedOver
  /\ CrcAccepts

\* No unit of a message's data is one of a header; its header is two units.
LEMMA DataUnits ==
  \A m \in MsgId : /\ Data(m) \in Seq(Unit) /\ Len(Data(m)) \in Nat
                   /\ \A j \in 1 .. Len(Data(m)) : Data(m)[j].k # "hd"
                   /\ Header(m) \in Seq(Unit) /\ Len(Header(m)) = 2
                   /\ Header(m)[1] = [k |-> "hd", m |-> m] /\ Header(m)[2] = [k |-> "tl", m |-> m]
<1> SUFFICES ASSUME NEW m \in MsgId
             PROVE  /\ Data(m) \in Seq(Unit) /\ Len(Data(m)) \in Nat
                    /\ \A j \in 1 .. Len(Data(m)) : Data(m)[j].k # "hd"
                    /\ Header(m) \in Seq(Unit) /\ Len(Header(m)) = 2
                    /\ Header(m)[1] = [k |-> "hd", m |-> m]
                    /\ Header(m)[2] = [k |-> "tl", m |-> m]
  BY Zenon
<1>1. Data(m) \in Seq(Unit) /\ Len(Data(m)) \in Nat /\ Header(m) \in Seq(Unit)
  BY MessageUnits, Length
<1>2. ASSUME NEW j \in 1 .. Len(Data(m)) PROVE Data(m)[j].k # "hd"
  <2>1. Msg[m].data \in Seq({"x", "nul"}) /\ Len(Msg[m].data) \in Nat
    BY ClientParseAssumption, Length
  <2>2. Len(Data(m)) = Len(Msg[m].data)
    BY <2>1 DEF Data
  <2>3. Msg[m].data[j] \in {"x", "nul"}
    BY <2>1, <2>2
  <2> QED
    BY <2>2, <2>3 DEF Data
<1>3. /\ Len(Header(m)) = 2
      /\ Header(m)[1] = [k |-> "hd", m |-> m] /\ Header(m)[2] = [k |-> "tl", m |-> m]
  BY DEF Header
<1> QED
  BY <1>1, <1>2, <1>3

\* The stream after a message has been sent.
Sent(s, m) == s \o Header(m) \o Data(m)

\* The message is at its end.
LEMMA SentMessage ==
  ASSUME NEW s \in Seq(Unit), NEW m \in MsgId
  PROVE  /\ Sent(s, m) \in Seq(Unit) /\ Len(Sent(s, m)) = Len(s) + 2 + Len(Data(m))
         /\ \A i \in 1 .. Len(s) : Sent(s, m)[i] = s[i]
         /\ Sent(s, m)[Len(s) + 1] = [k |-> "hd", m |-> m]
         /\ Sent(s, m)[Len(s) + 2] = [k |-> "tl", m |-> m]
         /\ \A j \in 1 .. Len(Data(m)) : Sent(s, m)[Len(s) + 2 + j] = Data(m)[j]
<1> DEFINE h == Header(m)
           e == Data(m)
           u == s \o h
           t == u \o e
<1>1. /\ h \in Seq(Unit) /\ Len(h) = 2 /\ h[1] = [k |-> "hd", m |-> m]
      /\ h[2] = [k |-> "tl", m |-> m] /\ e \in Seq(Unit) /\ Len(e) \in Nat /\ Len(s) \in Nat
  BY DataUnits, Length
<1>2. Sent(s, m) = t
  BY DEF Sent
<1> HIDE DEF h, e
<1>3. /\ u \in Seq(Unit) /\ Len(u) = Len(s) + Len(h)
      /\ \A i \in 1 .. Len(s) + Len(h) : u[i] = IF i <= Len(s) THEN s[i] ELSE h[i - Len(s)]
  BY <1>1, Joined, Zenon
<1> HIDE DEF u
<1>4. /\ t \in Seq(Unit) /\ Len(t) = Len(u) + Len(e)
      /\ \A i \in 1 .. Len(u) + Len(e) : t[i] = IF i <= Len(u) THEN u[i] ELSE e[i - Len(u)]
  <2>1. u \in Seq(Unit) /\ e \in Seq(Unit)
    BY <1>1, <1>3
  <2> QED
    BY <2>1, Joined, Zenon
<1> HIDE DEF t
<1>5. \A i \in 1 .. Len(s) : t[i] = s[i]
  BY ONLY <1>1, <1>3, <1>4
<1>6. t[Len(s) + 1] = h[1] /\ t[Len(s) + 2] = h[2]
  <2>1. ASSUME NEW i \in 1 .. 2 PROVE t[Len(s) + i] = h[i]
    <3>1. /\ Len(s) + i \in 1 .. Len(s) + Len(h) /\ Len(s) + i \in 1 .. Len(u) + Len(e)
          /\ ~ (Len(s) + i <= Len(s)) /\ Len(s) + i <= Len(u) /\ (Len(s) + i) - Len(s) = i
      BY ONLY <1>1, <1>3, i \in 1 .. 2
    <3> QED
      BY ONLY <1>3, <1>4, <3>1
  <2> QED
    BY ONLY <2>1
<1>7. ASSUME NEW j \in 1 .. Len(e) PROVE t[Len(s) + 2 + j] = e[j]
  <2>1. /\ Len(s) + 2 + j \in 1 .. Len(u) + Len(e) /\ ~ (Len(s) + 2 + j <= Len(u))
        /\ (Len(s) + 2 + j) - Len(u) = j
    BY ONLY <1>1, <1>3, j \in 1 .. Len(e)
  <2> QED
    BY ONLY <1>4, <2>1
<1> QED
  BY ONLY <1>1, <1>2, <1>3, <1>4, <1>5, <1>6, <1>7 DEF h, e

\* A message sent later does not disturb what the stream holds.
LEMMA HoldsSent ==
  ASSUME NEW s \in Seq(Unit), NEW x \in MsgId, NEW m \in MsgId, NEW d \in Int,
         NEW k \in 0 .. Len(Data(m)), 0 <= d + k, Holds(s, d, m, k)
  PROVE  Holds(Sent(s, x), d, m, k)
<1> DEFINE t == Sent(s, x)
<1>1. Len(s) \in Nat /\ Len(Data(m)) \in Nat /\ Len(Data(x)) \in Nat
  BY DataUnits, Length
<1>2. /\ Len(t) = Len(s) + 2 + Len(Data(x)) /\ \A i \in 1 .. Len(s) : t[i] = s[i]
      /\ t[Len(s) + 1] = [k |-> "hd", m |-> x]
  BY ONLY s \in Seq(Unit), x \in MsgId, SentMessage, Zenon
<1> HIDE DEF t
<1>3. /\ d + Len(Data(m)) <= Len(s)
      /\ \A j \in k + 1 .. Len(Data(m)) : s[d + j] = Data(m)[j]
      /\ d + Len(Data(m)) < Len(s) => s[d + Len(Data(m)) + 1].k = "hd"
  BY Zenon DEF Holds
<1>4. ASSUME NEW j \in k + 1 .. Len(Data(m)) PROVE t[d + j] = Data(m)[j]
  <2>1. d + j \in 1 .. Len(s)
    BY <1>1, <1>3
  <2> QED
    BY <1>2, <1>3, <2>1, Zenon
<1>5. ASSUME d + Len(Data(m)) < Len(t) PROVE t[d + Len(Data(m)) + 1].k = "hd"
  <2>1. CASE d + Len(Data(m)) < Len(s)
    <3>1. d + Len(Data(m)) + 1 \in 1 .. Len(s)
      BY <1>1, <1>3, <2>1
    <3> QED
      BY <1>2, <1>3, <2>1, <3>1, Zenon
  <2>2. CASE d + Len(Data(m)) = Len(s)
    BY <1>2, <2>2
  <2> QED
    BY <1>1, <1>3, <2>1, <2>2
<1>6. d + Len(Data(m)) <= Len(t)
  BY <1>1, <1>2, <1>3
<1> QED
  BY <1>4, <1>5, <1>6, Zenon DEF Holds, t

\* What is taken from the stream leaves the rest of it displaced.
LEMMA HoldsRest ==
  ASSUME NEW s \in Seq(Unit), NEW n \in 0 .. Len(s), NEW t, t = SubSeq(s, n + 1, Len(s)),
         NEW m \in MsgId, NEW d \in Int, NEW k \in 0 .. Len(Data(m)), n <= d + k,
         Holds(s, d, m, k)
  PROVE  Holds(t, d - n, m, k)
<1>1. Len(s) \in Nat /\ Len(Data(m)) \in Nat /\ n \in Nat /\ k \in Nat /\ k <= Len(Data(m))
  BY DataUnits, Length
<1>0. /\ d + Len(Data(m)) <= Len(s)
      /\ \A j \in k + 1 .. Len(Data(m)) : s[d + j] = Data(m)[j]
      /\ d + Len(Data(m)) < Len(s) => s[d + Len(Data(m)) + 1].k = "hd"
  BY Zenon DEF Holds
<1>2. Len(t) = Len(s) - n /\ \A i \in 1 .. Len(s) - n : t[i] = s[n + i]
  BY <1>1
<1>3. ASSUME NEW j \in k + 1 .. Len(Data(m)) PROVE t[d - n + j] = Data(m)[j]
  <2>1. d - n + j \in 1 .. Len(s) - n /\ n + (d - n + j) = d + j
    BY <1>0, <1>1
  <2>2. t[d - n + j] = s[n + (d - n + j)]
    BY <1>2, <2>1, Zenon
  <2> QED
    BY <1>0, <2>1, <2>2, Zenon
<1> DEFINE l == d + Len(Data(m))
<1>4. ASSUME d - n + Len(Data(m)) < Len(t) PROVE t[d - n + Len(Data(m)) + 1].k = "hd"
  <2>1. /\ l < Len(s) /\ d - n + Len(Data(m)) + 1 \in 1 .. Len(s) - n
        /\ n + (d - n + Len(Data(m)) + 1) = l + 1
    BY <1>1, <1>2, <1>4
  <2> QED
    BY <1>0, <1>2, <2>1, Zenon
<1>5. d - n + Len(Data(m)) <= Len(t)
  BY <1>0, <1>1, <1>2
<1> QED
  BY <1>3, <1>4, <1>5, Zenon DEF Holds

\* Framed, for the stream after a step.
LEMMA FramedNext ==
  ASSUME \A i \in 1 .. Len(stream') :
           stream'[i].k = "hd" =>
             /\ stream'[i].m \in MsgId /\ i + 1 <= Len(stream') /\ stream'[i + 1].k = "tl"
             /\ Holds(stream', i + 1, stream'[i].m, 0)
  PROVE  Framed'
BY Zenon DEF Framed, Holds

\* What the four parts of the invariant depend on.
LEMMA FramedSame == Framed /\ UNCHANGED stream => Framed'
<1> SUFFICES ASSUME Framed, stream' = stream PROVE Framed'
  BY Zenon
<1> QED
  BY Zenon DEF Framed, Holds

\* What was handed over depends on the message and the counts only.
LEMMA HandedSame ==
  HandedOver /\ UNCHANGED <<recv_state, curparse_type, datalen, recv_len, update_file_crc, cur, handed>>
    => HandedOver'
BY DEF HandedOver

\* The header at hand depends on the buffer and the stream behind it.
LEMMA HeaderSame == HeaderAtHand /\ UNCHANGED <<pc, recv_state, buffer, stream>> => HeaderAtHand'
BY DEF HeaderAtHand, Holds

\* There is none between two blocks or while data is expected.
LEMMA NoHeaderAtHand == pc' # "loop" \/ recv_state' \in {"DATA", "FINISH"} => HeaderAtHand'
BY DEF HeaderAtHand

\* The data at hand depends on buffer, stream and counts.
LEMMA DataSame ==
  DataAtHand /\ UNCHANGED <<pc, ret, recv_state, datalen, recv_len, cur, buffer, len, stream>>
    => DataAtHand'
<1> SUFFICES ASSUME DataAtHand,
                    UNCHANGED <<pc, ret, recv_state, datalen, recv_len, cur, buffer, len, stream>>
             PROVE  DataAtHand'
  BY Zenon
<1> QED
  BY Zenon DEF DataAtHand, Holds

\* There is none while no data is expected or after an error.
LEMMA NoDataAtHand ==
  recv_state' # "DATA" \/ (pc' = "return" /\ ret' < 0) => DataAtHand'
BY DEF DataAtHand

\* A sent message keeps the stream framed.
LEMMA FramedSent ==
  ASSUME NEW m \in MsgId, stream \in Seq(Unit), stream' = Sent(stream, m), Framed
  PROVE  Framed'
<1> DEFINE s == stream
           t == stream'
<1>1. /\ t \in Seq(Unit) /\ Len(t) = Len(s) + 2 + Len(Data(m))
      /\ \A i \in 1 .. Len(s) : t[i] = s[i]
      /\ t[Len(s) + 1] = [k |-> "hd", m |-> m] /\ t[Len(s) + 2] = [k |-> "tl", m |-> m]
      /\ \A j \in 1 .. Len(Data(m)) : t[Len(s) + 2 + j] = Data(m)[j]
  <2> DEFINE r == Sent(s, m)
  <2>1. /\ r \in Seq(Unit) /\ Len(r) = Len(s) + 2 + Len(Data(m))
        /\ \A i \in 1 .. Len(s) : r[i] = s[i]
        /\ r[Len(s) + 1] = [k |-> "hd", m |-> m] /\ r[Len(s) + 2] = [k |-> "tl", m |-> m]
        /\ \A j \in 1 .. Len(Data(m)) : r[Len(s) + 2 + j] = Data(m)[j]
    BY SentMessage, ZenonT(30)
  <2>2. t = r
    OBVIOUS
  <2> HIDE DEF r, s, t
  <2> QED
    BY ONLY <2>1, <2>2
<1>2. Len(s) \in Nat /\ Len(Data(m)) \in Nat /\ \A j \in 1 .. Len(Data(m)) : Data(m)[j].k # "hd"
  BY DataUnits, Length, Zenon
<1> SUFFICES ASSUME NEW i \in 1 .. Len(t), t[i].k = "hd"
             PROVE  /\ t[i].m \in MsgId /\ i + 1 <= Len(t) /\ t[i + 1].k = "tl"
                    /\ Holds(t, i + 1, t[i].m, 0)
  BY FramedNext, Zenon
<1>3. CASE i <= Len(s)
  <2>1. i \in 1 .. Len(s)
    BY <1>1, <1>2, <1>3
  <2>2. /\ t[i] = s[i] /\ s[i].m \in MsgId /\ i + 1 <= Len(s) /\ s[i + 1].k = "tl"
        /\ Holds(s, i + 1, s[i].m, 0)
    BY <1>1, <2>1 DEF Framed
  <2>3. Holds(t, i + 1, s[i].m, 0)
    <3>1. Len(Data(s[i].m)) \in Nat
      BY <2>2, DataUnits
    <3> DEFINE x == s[i].m
    <3>2. x \in MsgId /\ 0 \in 0 .. Len(Data(x)) /\ i + 1 \in Int /\ 0 <= i + 1 + 0
          /\ Holds(s, i + 1, x, 0)
      BY <2>1, <2>2, <3>1
    <3> HIDE DEF x
    <3>3. Holds(t, i + 1, x, 0)
      BY ONLY <3>2, stream \in Seq(Unit), m \in MsgId, stream' = Sent(stream, m), HoldsSent
    <3> QED
      BY <3>3 DEF x
  <2> QED
    BY <1>1, <1>2, <2>1, <2>2, <2>3
<1>4. CASE i > Len(s)
  <2>1. i = Len(s) + 1
    <3>1. i # Len(s) + 2
      BY <1>1
    <3>2. ASSUME i > Len(s) + 2 PROVE FALSE
      <4>1. i - Len(s) - 2 \in 1 .. Len(Data(m)) /\ i = Len(s) + 2 + (i - Len(s) - 2)
        BY <1>1, <1>2, <3>2
      <4>2. t[i] = Data(m)[i - Len(s) - 2]
        BY <1>1, <4>1
      <4> QED
        BY <1>2, <4>1, <4>2
    <3> QED
      BY <1>2, <1>4, <3>1, <3>2
  <2>2. Holds(t, i + 1, m, 0)
    BY <1>1, <1>2, <2>1 DEF Holds
  <2> QED
    BY <1>1, <1>2, <2>1, <2>2
<1> QED
  BY <1>2, <1>3, <1>4

\* So does what is taken from it.
LEMMA FramedRest ==
  ASSUME stream \in Seq(Unit), NEW n \in 0 .. Len(stream),
         stream' = SubSeq(stream, n + 1, Len(stream)), Framed
  PROVE  Framed'
<1> DEFINE s == stream
           t == stream'
<1>1. Len(s) \in Nat /\ n \in Nat /\ n <= Len(s)
  BY Length
<1>2. Len(t) = Len(s) - n /\ \A i \in 1 .. Len(s) - n : t[i] = s[n + i]
  BY <1>1
<1> SUFFICES ASSUME NEW i \in 1 .. Len(t), t[i].k = "hd"
             PROVE  /\ t[i].m \in MsgId /\ i + 1 <= Len(t) /\ t[i + 1].k = "tl"
                    /\ Holds(t, i + 1, t[i].m, 0)
  BY FramedNext, Zenon
<1>3. n + i \in 1 .. Len(s) /\ t[i] = s[n + i] /\ i \in Nat
  BY <1>1, <1>2
<1>4. /\ s[n + i].m \in MsgId /\ n + i + 1 <= Len(s) /\ s[n + i + 1].k = "tl"
      /\ Holds(s, n + i + 1, s[n + i].m, 0)
  BY <1>3, Zenon DEF Framed
<1>5. i + 1 <= Len(t) /\ t[i + 1].k = "tl"
  BY <1>1, <1>2, <1>3, <1>4
<1>6. Holds(t, i + 1, s[n + i].m, 0)
  <2> DEFINE x == s[n + i].m
             d == n + i + 1
  <2>1. x \in MsgId /\ 0 \in 0 .. Len(Data(x)) /\ d \in Int /\ n <= d + 0 /\ Holds(s, d, x, 0)
    BY <1>1, <1>3, <1>4, DataUnits
  <2>2. d - n = i + 1
    BY <1>1, <1>3
  <2> HIDE DEF x, d
  <2>3. Holds(t, d - n, x, 0)
    BY <2>1, HoldsRest, Zenon
  <2> QED
    BY <2>2, <2>3, Zenon DEF x
<1> QED
  BY <1>3, <1>4, <1>5, <1>6, Zenon

----------------------------------------------------------------------------
(* The steps over an intact link. *)

\* The message in progress, and how much of it is still expected.
LEMMA InMessage ==
  ASSUME ParserInv, HandedOver, recv_state = "DATA"
  PROVE  /\ cur \in MsgId /\ curparse_type \in {"WEATHER", "UPDATE"}
         /\ Len(Data(cur)) \in Nat /\ recv_len \in 0 .. Len(Data(cur))
         /\ datalen = Len(Data(cur)) - recv_len
<1>1. cur \in MsgId /\ curparse_type \in {"WEATHER", "UPDATE"}
  BY DEF ParserInv, Receiving
<1>2. recv_len + datalen = Len(Data(cur)) /\ datalen >= 0
  BY <1>1 DEF ParserInv, StoredAsReceived, HandedOver
<1>3. Len(Data(cur)) \in Nat /\ recv_len \in Nat /\ datalen \in Int
  BY <1>1, DataUnits DEF ParserInv, TypeOK
<1> QED
  BY ONLY <1>1, <1>2, <1>3

\* A message is sent: what is at hand is still followed by what belongs to it.
LEMMA SendDelivers == ASSUME ParserInv, DeliveryInv, NEW m \in MsgId, Send(m) PROVE DeliveryInv'
<1>0. UNCHANGED <<link, pc, ret, recv_state, curparse_type, datalen, recv_len, update_file_crc,
                  buffer, len, cur, handed, verdict>>
  BY DEF Send, recv_info
<1>1. stream \in Seq(Unit) /\ stream' = Sent(stream, m)
  BY DEF ParserInv, TypeOK, Send, Sent
<1>2. CrcAccepts' /\ (pc = "loop" => verdict = "none")'
  BY <1>0 DEF DeliveryInv, CrcAccepts, Intact
<1>3. ASSUME Intact PROVE Framed' /\ HeaderAtHand' /\ DataAtHand' /\ HandedOver'
  <2>1. Framed /\ HeaderAtHand /\ DataAtHand /\ HandedOver
    BY <1>3 DEF DeliveryInv
  <2>2. Framed'
    BY <1>1, <2>1, FramedSent
  <2>3. ASSUME NEW x \in MsgId, NEW d \in Int, NEW k \in 0 .. Len(Data(x)), 0 <= d + k,
               Holds(stream, d, x, k)
        PROVE  Holds(stream', d, x, k)
    BY ONLY <1>1, <2>3, m \in MsgId, HoldsSent, Zenon
  <2>4. HeaderAtHand'
    <3>1. \A x \in MsgId : 0 \in Int /\ 0 \in 0 .. Len(Data(x)) /\ 0 <= 0 + 0
      BY DataUnits
    <3>2. \A x \in MsgId : Holds(stream, 0, x, 0) => Holds(stream', 0, x, 0)
      BY ONLY <2>3, <3>1, Zenon
    <3> QED
      BY ONLY <1>0, <2>1, <3>2 DEF HeaderAtHand
  <2>5. DataAtHand'
    <3> SUFFICES ASSUME recv_state = "DATA" PROVE DataAtHand'
      BY <1>0, NoDataAtHand
    <3>2. /\ cur \in MsgId /\ Len(Data(cur)) \in Nat /\ recv_len \in 0 .. Len(Data(cur))
          /\ datalen = Len(Data(cur)) - recv_len
      BY <2>1, InMessage
    <3>3. ASSUME NEW k \in 0 .. Len(Data(cur)), Holds(stream, 0 - k, cur, k)
          PROVE  Holds(stream', 0 - k, cur, k)
      BY <2>3, <3>2, <3>3
    <3>4. ASSUME pc # "loop", ~ (pc = "return" /\ ret < 0)
          PROVE  Holds(stream', 0 - recv_len, cur, recv_len)
      BY <2>1, <3>2, <3>3, <3>4 DEF DataAtHand
    <3>5. ASSUME pc = "loop", datalen > 0
          PROVE  Holds(stream', 0 - recv_len - len, cur, recv_len + len)
      <4>1. len <= datalen /\ Holds(stream, 0 - recv_len - len, cur, recv_len + len) /\ len \in Nat
        <5>1. len \in Nat
          BY LinkBlock DEF ParserInv, TypeOK
        <5> QED
          BY ONLY <2>1, <3>5, <5>1, recv_state = "DATA" DEF DataAtHand
      <4>2. recv_len + len \in 0 .. Len(Data(cur)) /\ 0 - recv_len - len = 0 - (recv_len + len)
        BY <3>2, <4>1
      <4> QED
        BY <3>3, <4>1, <4>2
    <3> QED
      BY ONLY <1>0, <2>1, <3>4, <3>5 DEF DataAtHand
  <2>6. HandedOver'
    BY <1>0, <2>1, HandedSame
  <2> QED
    BY <2>2, <2>4, <2>5, <2>6
<1>4. Intact' = Intact
  BY <1>0 DEF Intact
<1> QED
  BY <1>2, <1>3, <1>4, Zenon DEF DeliveryInv

\* A block is handed over: it is a header, or data that continues the message.
LEMMA GetDelivers == ASSUME ParserInv, DeliveryInv, Get PROVE DeliveryInv'
<1>1. PICK n \in 1 .. link.block :
        /\ Block(n)
        /\ buffer' = [i \in 1 .. PackSize |-> IF i <= n THEN stream[i] ELSE buffer[i]]
        /\ stream' = SubSeq(stream, n + 1, Len(stream))
        /\ len' = n
  BY DEF Get
<1>2. /\ pc = "wait" /\ pc' = "loop" /\ verdict' = "none"
      /\ UNCHANGED <<link, recv_state, curparse_type, datalen, recv_len, update_file_crc, cur, handed>>
  BY DEF Get, recv_info
<1>3. (pc = "loop" => verdict = "none")' /\ CrcAccepts'
  BY <1>2 DEF CrcAccepts
<1>4. ASSUME Intact PROVE Framed' /\ HeaderAtHand' /\ DataAtHand' /\ HandedOver'
  <2>1. Framed /\ HeaderAtHand /\ DataAtHand /\ HandedOver
    BY <1>4 DEF DeliveryInv
  <2>2. /\ stream \in Seq(Unit) /\ Len(stream) \in Nat /\ n \in Nat /\ 1 <= n /\ n <= PackSize
        /\ PackSize \in Nat
    BY <1>1, LinkBlock, Length DEF ParserInv, TypeOK
  <2>3. /\ n <= Len(stream) /\ stream[n].k # "hd"
        /\ \A i \in 1 .. n - 1 : stream[i].k # "tl" /\ stream[i + 1].k # "hd"
    BY <1>1, <1>4 DEF Block, Intact
  <2>4. n \in 0 .. Len(stream)
    BY ONLY <2>2, <2>3
  <2>5. \A j \in 1 .. n : buffer'[j] = stream[j]
    BY ONLY <1>1, <2>2
  <2>6. Framed'
    BY ONLY <1>1, <2>1, <2>2, <2>4, FramedRest
  <2>7. HeaderAtHand'
    <3> SUFFICES ASSUME buffer'[1].k = "hd"
                 PROVE  buffer'[1].m \in MsgId /\ Holds(stream', 0, buffer'[1].m, 0)
      BY DEF HeaderAtHand
    <3> DEFINE m == stream[1].m
    <3>1. buffer'[1] = stream[1] /\ 1 \in 1 .. Len(stream)
      BY ONLY <2>2, <2>3, <2>5
    <3>2. m \in MsgId /\ stream[2].k = "tl" /\ Holds(stream, 2, m, 0)
      BY <2>1, <3>1 DEF Framed
    <3>3. n = 2
      <4>1. n # 1
        BY <2>3, <3>1
      <4>2. ~ (2 \in 1 .. n - 1)
        BY ONLY <2>3, <3>2
      <4> QED
        BY ONLY <2>2, <4>1, <4>2
    <3>4. 2 \in Int /\ 0 \in 0 .. Len(Data(m)) /\ n <= 2 + 0 /\ 2 - n = 0
      BY <3>2, <3>3, DataUnits
    <3> HIDE DEF m
    <3>5. Holds(stream', 2 - n, m, 0)
      BY ONLY <1>1, <2>2, <2>4, <3>2, <3>4, HoldsRest, Zenon
    <3> QED
      BY <3>1, <3>2, <3>4, <3>5 DEF m
  <2>8. DataAtHand'
    <3> SUFFICES ASSUME recv_state = "DATA", datalen > 0
                 PROVE  /\ n <= datalen
                        /\ \A j \in 1 .. n : buffer'[j] = Data(cur)[recv_len + j]
                        /\ Holds(stream', 0 - recv_len - n, cur, recv_len + n)
      BY <1>1, <1>2, Zenon DEF DataAtHand, Holds
    <3>1. /\ cur \in MsgId /\ Len(Data(cur)) \in Nat /\ recv_len \in 0 .. Len(Data(cur))
          /\ datalen = Len(Data(cur)) - recv_len
      BY <2>1, InMessage
    <3>2. Holds(stream, 0 - recv_len, cur, recv_len)
      BY <1>2, <2>1 DEF DataAtHand
    <3>3. /\ 0 - recv_len + Len(Data(cur)) <= Len(stream)
          /\ \A j \in recv_len + 1 .. Len(Data(cur)) : stream[0 - recv_len + j] = Data(cur)[j]
          /\ 0 - recv_len + Len(Data(cur)) < Len(stream)
               => stream[0 - recv_len + Len(Data(cur)) + 1].k = "hd"
      BY <3>2 DEF Holds
    <3>4. n <= datalen
      <4> SUFFICES ASSUME n > datalen PROVE FALSE
        BY <2>2, <3>1
      <4>1. datalen \in Nat /\ 0 - recv_len + Len(Data(cur)) = datalen
        BY <3>1
      <4>2. datalen < Len(stream) /\ datalen + 1 \in 1 .. n
        BY <2>2, <2>3, <4>1
      <4>3. stream[datalen + 1].k = "hd"
        BY ONLY <3>3, <4>1, <4>2
      <4>4. datalen + 1 = n \/ datalen \in 1 .. n - 1
        BY <2>2, <4>1, <4>2
      <4> QED
        BY ONLY <2>3, <4>3, <4>4
    <3>5. ASSUME NEW j \in 1 .. n PROVE buffer'[j] = Data(cur)[recv_len + j]
      <4>1. recv_len + j \in recv_len + 1 .. Len(Data(cur)) /\ 0 - recv_len + (recv_len + j) = j
        BY <2>2, <3>1, <3>4
      <4> QED
        BY ONLY <2>5, <3>3, <3>5, <4>1
    <3>6. Holds(stream', 0 - recv_len - n, cur, recv_len + n)
      <4> DEFINE k == recv_len + n
                 d == 0 - recv_len
      <4>1. d \in Int /\ k \in 0 .. Len(Data(cur)) /\ n <= d + k
        BY <2>2, <3>1, <3>4
      <4>2. Holds(stream, d, cur, k)
        BY <2>2, <3>1, <3>3 DEF Holds
      <4> HIDE DEF d, k
      <4>3. Holds(stream', d - n, cur, k)
        BY ONLY <1>1, <2>2, <2>4, <3>1, <4>1, <4>2, HoldsRest, Zenon
      <4> QED
        BY <4>3 DEF d, k
    <3> QED
      BY ONLY <3>4, <3>5, <3>6
  <2>9. HandedOver'
    BY <1>2, <2>1 DEF HandedOver
  <2> QED
    BY <2>6, <2>7, <2>8, <2>9
<1>5. Intact' = Intact
  BY <1>2 DEF Intact
<1> QED
  BY <1>3, <1>4, <1>5 DEF DeliveryInv

\* A refused block is not what an intact link does.
LEMMA LoseDelivers == ASSUME DeliveryInv, Lose PROVE DeliveryInv'
<1>1. ~ Intact /\ UNCHANGED <<link, pc, cur, verdict>>
  BY DEF Lose, Intact
<1> QED
  BY <1>1 DEF DeliveryInv, CrcAccepts, Intact

\* Nothing is expected of the stream once the state is cleared.
LEMMA ClearedDelivers ==
  ASSUME DeliveryInv, recv_state' = "NONE", pc' # "loop", UNCHANGED <<link, stream>>, CrcAccepts'
  PROVE  DeliveryInv'
<1>1. HeaderAtHand' /\ DataAtHand' /\ HandedOver'
  BY DEF HeaderAtHand, DataAtHand, HandedOver
<1>2. Framed => Framed'
  BY FramedSame, Zenon
<1> QED
  BY <1>1, <1>2 DEF DeliveryInv, Intact

\* A block that is looked at for a header stays what it is.
LEMMA NoneDelivers == ASSUME DeliveryInv, CRS_NONE PROVE DeliveryInv'
<1>1. /\ recv_state = "NONE" /\ recv_state' \in {"NONE", "HEAD"} /\ pc = "loop"
      /\ UNCHANGED <<link, stream, buffer, cur, verdict>>
  BY DEF CRS_NONE, Case
<1>2. HeaderAtHand => HeaderAtHand'
  BY <1>1 DEF HeaderAtHand, Holds
<1>3. DataAtHand' /\ HandedOver' /\ (Framed => Framed')
  BY <1>1, FramedSame DEF DataAtHand, HandedOver
<1>4. CrcAccepts'
  BY <1>1 DEF DeliveryInv, CrcAccepts
<1> QED
  BY <1>1, <1>2, <1>3, <1>4 DEF DeliveryInv, Intact

\* A rejected header clears the state.
LEMMA RejectedDelivers == ASSUME DeliveryInv, CRS_HEAD_Rejected PROVE DeliveryInv'
<1>1. recv_state' = "NONE" /\ pc' # "loop" /\ UNCHANGED <<link, stream, cur, verdict>>
  BY DEF CRS_HEAD_Rejected, clear_client_info, Break
<1>2. CrcAccepts'
  BY <1>1 DEF DeliveryInv, CrcAccepts, Intact
<1> QED
  BY <1>1, <1>2, ClearedDelivers

\* The data of an accepted header is what the stream goes on with.
LEMMA AcceptedDelivers == ASSUME ParserInv, DeliveryInv, CRS_HEAD_Accepted PROVE DeliveryInv'
<1>1. PICK m \in HeaderOf :
        /\ cur' = m /\ curparse_type' = Msg[m].type
        /\ \/ Msg[m].type = "MEMO" /\ recv_state' = "FINISH"
           \/ /\ Msg[m].type \in {"WEATHER", "UPDATE"}
              /\ recv_state' = "DATA" /\ pc' = "return" /\ ret' = 1
              /\ datalen' = Len(Data(m))
              /\ Msg[m].type = "UPDATE" => update_file_crc' = Data(m)
  BY DEF CRS_HEAD_Accepted, Break
<1>2. /\ pc = "loop" /\ recv_state = "HEAD" /\ recv_len' = recv_len
      /\ UNCHANGED <<link, stream, verdict>>
  BY DEF CRS_HEAD_Accepted, Case
<1>3. recv_len = 0 /\ verdict = "none"
  BY <1>2 DEF ParserInv, CleanStart, DeliveryInv
<1>4. (pc = "loop" => verdict = "none")' /\ CrcAccepts'
  BY <1>2, <1>3 DEF CrcAccepts
<1>5. ASSUME Intact PROVE Framed' /\ HeaderAtHand' /\ DataAtHand' /\ HandedOver'
  <2>1. Framed /\ HeaderAtHand
    BY <1>5 DEF DeliveryInv
  <2>2. Framed' /\ HeaderAtHand'
    BY <1>1, <1>2, <2>1, Zenon DEF Framed, HeaderAtHand, Holds
  <2>3. m \in MsgId /\ Holds(stream, 0, m, 0) /\ Len(Data(m)) \in Nat
    <3>1. m \in MsgId /\ buffer[1] = [k |-> "hd", m |-> m]
      BY <1>1, DataUnits, Zenon DEF HeaderOf
    <3> QED
      BY <1>2, <2>1, <3>1, DataUnits DEF HeaderAtHand
  <2>4. DataAtHand'
    <3>1. recv_len' = 0 /\ stream' = stream /\ cur' = m
      BY <1>1, <1>2, <1>3
    <3>2. Holds(stream', 0 - recv_len', cur', recv_len')
      <4>1. 0 - recv_len' = 0
        BY ONLY <3>1
      <4> QED
        BY ONLY <2>3, <3>1, <4>1
    <3>3. Holds(stream, 0 - recv_len, cur, recv_len)'
      BY ONLY <3>2 DEF Holds
    <3> QED
      BY <1>1, <3>3 DEF DataAtHand
  <2>5. HandedOver'
    BY <1>1, <1>2, <1>3, <2>3 DEF HandedOver
  <2> QED
    BY <2>2, <2>4, <2>5
<1>6. Intact' = Intact
  BY <1>2 DEF Intact
<1> QED
  BY <1>4, <1>5, <1>6 DEF DeliveryInv

\* A block of the message is counted: the next one follows in the stream.
LEMMA CountDelivers ==
  ASSUME ParserInv, Framed, DataAtHand, HandedOver, Case("DATA"), datalen > 0, Count,
         UNCHANGED <<stream, curparse_type, update_file_crc, cur>>
  PROVE  Framed' /\ HeaderAtHand' /\ DataAtHand' /\ HandedOver'
<1>1. /\ cur \in MsgId /\ curparse_type \in {"WEATHER", "UPDATE"} /\ Len(Data(cur)) \in Nat
      /\ recv_len \in 0 .. Len(Data(cur)) /\ datalen = Len(Data(cur)) - recv_len
  BY InMessage DEF Case
<1>2. /\ len <= datalen /\ \A j \in 1 .. len : buffer[j] = Data(cur)[recv_len + j]
      /\ Holds(stream, 0 - recv_len - len, cur, recv_len + len)
  BY DEF DataAtHand, Case
<1>3. len \in Nat /\ len <= PackSize /\ PackSize \in Nat /\ buffer \in [1 .. PackSize -> Unit]
  BY LinkBlock DEF ParserInv, TypeOK
<1>4. /\ recv_len' = recv_len + len /\ datalen' = datalen - len /\ handed' = handed \o block
      /\ \/ datalen' <= 0 /\ recv_state' = "FINISH"
         \/ datalen' > 0 /\ pc' = "return" /\ recv_state' = "DATA"
  BY DEF Count, Break, Case
<1>5. Framed'
  BY FramedSame, Zenon
<1>6. HeaderAtHand'
  BY <1>4 DEF HeaderAtHand
<1>7. DataAtHand'
  <2>1. 0 - recv_len - len = 0 - (recv_len + len)
    BY <1>1, <1>3
  <2>2. Holds(stream', 0 - recv_len', cur', recv_len')
    BY ONLY <1>2, <1>4, <2>1, stream' = stream, cur' = cur
  <2>3. Holds(stream, 0 - recv_len, cur, recv_len)'
    BY ONLY <2>2 DEF Holds
  <2> QED
    BY <1>4, <2>3 DEF DataAtHand
<1>8. \A i \in 1 .. recv_len + len : handed'[i] = Data(cur)[i]
  <2>1. handed \in Seq(Unit) /\ Len(handed) = recv_len /\ recv_len \in Nat
    BY <1>1 DEF ParserInv, TypeOK, StoredAsReceived, Case
  <2>2. block \in Seq(Unit) /\ Len(block) = len /\ \A j \in 1 .. len : block[j] = buffer[j]
    BY <1>3 DEF block
  <2> HIDE DEF block
  <2>3. \A i \in 1 .. recv_len + len :
          handed'[i] = IF i <= recv_len THEN handed[i] ELSE block[i - recv_len]
    BY <1>4, <2>1, <2>2
  <2>4. \A i \in 1 .. recv_len : handed[i] = Data(cur)[i]
    BY <1>1 DEF HandedOver, Case
  <2> SUFFICES ASSUME NEW i \in 1 .. recv_len + len PROVE handed'[i] = Data(cur)[i]
    OBVIOUS
  <2>5. CASE i <= recv_len
    BY ONLY <2>1, <2>3, <2>4, <2>5, i \in 1 .. recv_len + len
  <2>6. CASE ~ (i <= recv_len)
    <3>1. i - recv_len \in 1 .. len /\ recv_len + (i - recv_len) = i
      BY <1>3, <2>1, <2>6
    <3> QED
      BY ONLY <1>2, <2>2, <2>3, <2>6, <3>1, i \in 1 .. recv_len + len
  <2> QED
    BY <2>5, <2>6
<1>9. HandedOver'
  <2>1. curparse_type = "UPDATE" => update_file_crc = Data(cur)
    BY <1>1 DEF HandedOver, Case
  <2>2. datalen' >= 0 /\ datalen' \in Int
    BY ONLY <1>1, <1>2, <1>3, <1>4
  <2>3. \A i \in 1 .. recv_len' : handed'[i] = Data(cur')[i]
    BY ONLY <1>4, <1>8, cur' = cur, Zenon
  <2>4. recv_state' = "FINISH" => datalen' = 0
    BY ONLY <1>4, <2>2
  <2> QED
    BY <2>1, <2>2, <2>3, <2>4 DEF HandedOver
<1> QED
  BY <1>5, <1>6, <1>7, <1>9

\* A message without data is finished.
LEMMA NoneExpectedDelivers ==
  ASSUME ParserInv, DeliveryInv, CRS_DATA_NoneExpected PROVE DeliveryInv'
<1>1. /\ recv_state = "DATA" /\ recv_state' = "FINISH" /\ datalen <= 0
      /\ UNCHANGED <<link, stream, pc, curparse_type, datalen, recv_len, update_file_crc, cur,
                     handed, verdict>>
  BY DEF CRS_DATA_NoneExpected, Case
<1>2. (pc = "loop" => verdict = "none")' /\ CrcAccepts'
  BY <1>1 DEF DeliveryInv, CrcAccepts, Intact
<1>3. ASSUME Intact PROVE Framed' /\ HeaderAtHand' /\ DataAtHand' /\ HandedOver'
  <2>1. Framed /\ HandedOver
    BY <1>3 DEF DeliveryInv
  <2>2. Framed' /\ HeaderAtHand' /\ DataAtHand'
    BY <1>1, <2>1, FramedSame, NoHeaderAtHand, NoDataAtHand
  <2>3. datalen \in Int
    BY DEF ParserInv, TypeOK
  <2>4. HandedOver'
    BY <1>1, <2>1, <2>3 DEF HandedOver
  <2> QED
    BY <2>2, <2>4
<1>4. Intact' = Intact
  BY <1>1 DEF Intact
<1> QED
  BY <1>2, <1>3, <1>4 DEF DeliveryInv

\* A block of weather data is counted.
LEMMA WeatherDelivers == ASSUME ParserInv, DeliveryInv, CRS_DATA_Weather PROVE DeliveryInv'
<1>1. /\ Case("DATA") /\ datalen > 0 /\ Count
      /\ UNCHANGED <<link, stream, curparse_type, update_file_crc, cur, verdict>>
  BY DEF CRS_DATA_Weather
<1>2. verdict = "none"
  BY <1>1 DEF DeliveryInv, Case
<1>3. Intact => Framed' /\ HeaderAtHand' /\ DataAtHand' /\ HandedOver'
  BY <1>1, CountDelivers DEF DeliveryInv
<1> QED
  BY <1>1, <1>2, <1>3 DEF DeliveryInv, CrcAccepts, Intact

\* A block of an update is counted, or the message ends with an error.
LEMMA UpdateDelivers == ASSUME ParserInv, DeliveryInv, CRS_DATA_Update PROVE DeliveryInv'
<1>1. /\ Case("DATA") /\ datalen > 0 /\ (Count \/ Failure)
      /\ UNCHANGED <<link, stream, curparse_type, update_file_crc, cur, verdict>>
  BY Zenon DEF CRS_DATA_Update
<1>2. verdict = "none"
  BY <1>1 DEF DeliveryInv, Case
<1>3. ASSUME Intact PROVE Framed' /\ HeaderAtHand' /\ DataAtHand' /\ HandedOver'
  <2>1. Framed /\ DataAtHand /\ HandedOver
    BY <1>3 DEF DeliveryInv
  <2>2. CASE Count
    BY <1>1, <2>1, <2>2, CountDelivers
  <2>3. CASE Failure
    <3>1. /\ recv_state = "DATA" /\ pc' = "return" /\ ret' = -3
          /\ UNCHANGED <<recv_state, datalen, recv_len, handed>>
      BY <1>1, <2>3 DEF Failure, Break, Case
    <3>2. Framed' /\ HeaderAtHand' /\ DataAtHand'
      BY <1>1, <2>1, <3>1, FramedSame, NoHeaderAtHand, NoDataAtHand
    <3>3. HandedOver'
      BY <1>1, <2>1, <3>1, HandedSame
    <3> QED
      BY <3>2, <3>3
  <2> QED
    BY <1>1, <2>2, <2>3
<1> QED
  BY <1>1, <1>2, <1>3 DEF DeliveryInv, CrcAccepts, Intact

\* The file of a finished update is its data, which is what the CRC was taken of.
LEMMA FinishDelivers == ASSUME ParserInv, DeliveryInv, CRS_FINISH PROVE DeliveryInv'
<1>1. /\ recv_state = "FINISH" /\ recv_state' = "NONE" /\ pc' # "loop"
      /\ UNCHANGED <<link, stream, cur>>
      /\ verdict' = "bad" =>
           curparse_type = "UPDATE" /\ files[update_file_name] # update_file_crc
  BY DEF CRS_FINISH, Case, clear_client_info, Break
<1>2. CrcAccepts'
  <2> SUFFICES ASSUME Intact, cur \in MsgId, Data(cur) # << >>, verdict' = "bad"
               PROVE  FALSE
    BY <1>1 DEF CrcAccepts, Intact
  <2>1. curparse_type = "UPDATE" /\ files[update_file_name] # update_file_crc
    BY <1>1
  <2>2. /\ \A i \in 1 .. recv_len : handed[i] = Data(cur)[i]
        /\ datalen = 0 /\ update_file_crc = Data(cur)
    BY <1>1, <2>1 DEF DeliveryInv, HandedOver
  <2>3. /\ recv_len = Len(handed) /\ recv_len + datalen = Len(Data(cur))
        /\ recv_len > 0 => files[update_file_name] = handed
    BY <1>1, <2>1 DEF ParserInv, StoredAsReceived, Intact
  <2>4. /\ handed \in Seq(Unit) /\ Data(cur) \in Seq(Unit) /\ Len(Data(cur)) \in Nat
        /\ recv_len \in Nat
    BY DataUnits, Zenon DEF ParserInv, TypeOK
  <2>5. Len(Data(cur)) # 0
    BY ONLY <2>4, Data(cur) # << >>, Length
  <2>6. recv_len = Len(Data(cur)) /\ recv_len > 0
    BY ONLY <2>2, <2>3, <2>4, <2>5
  <2>7. handed = Data(cur)
    BY ONLY <2>2, <2>3, <2>4, <2>6, SameSeq, Zenon
  <2> QED
    BY ONLY <2>1, <2>2, <2>3, <2>6, <2>7
<1> QED
  BY <1>1, <1>2, ClearedDelivers

\* The call returns: the state is cleared, or the stream is waited for.
LEMMA ReturnDelivers == ASSUME ParserInv, DeliveryInv, Return PROVE DeliveryInv'
<1>1. pc = "return" /\ pc' = "wait" /\ UNCHANGED <<link, stream, ret, cur, handed, verdict>>
  BY DEF Return
<1>2. CrcAccepts'
  BY <1>1 DEF DeliveryInv, CrcAccepts, Intact
<1>3. CASE ret < 0 /\ clear_client_info
  BY <1>1, <1>2, <1>3, ClearedDelivers DEF clear_client_info
<1>4. CASE ret >= 0 /\ UNCHANGED <<recv_info, open_fds>>
  <2>1. UNCHANGED <<recv_state, curparse_type, datalen, recv_len, update_file_crc>>
    BY <1>4 DEF recv_info
  <2>2. ~ (ret < 0)
    BY <1>4 DEF ParserInv, TypeOK
  <2>3. HeaderAtHand' /\ (Framed => Framed') /\ (HandedOver => HandedOver')
    BY <1>1, <2>1, NoHeaderAtHand, FramedSame, HandedSame
  <2>4. DataAtHand => DataAtHand'
    BY ONLY <1>1, <2>1, <2>2 DEF DataAtHand, Holds
  <2> QED
    BY <1>1, <1>2, <2>3, <2>4 DEF DeliveryInv, Intact
<1> QED
  BY <1>3, <1>4 DEF Return

\* Over an intact link the parser never refuses an update at its CRC check: the
\* file holds the data the header announced.
THEOREM CrcHolds == Spec => []CrcAccepts
<1>1. Init => DeliveryInv
  <2> SUFFICES ASSUME Init PROVE DeliveryInv
    OBVIOUS
  <2>1. Len(stream) = 0 /\ pc = "wait" /\ recv_state = "NONE" /\ verdict = "none"
    BY DEF Init
  <2>2. Framed
    BY <2>1 DEF Framed
  <2> QED
    BY <2>1, <2>2 DEF DeliveryInv, HeaderAtHand, DataAtHand, HandedOver, CrcAccepts
<1>2. ParserInv /\ DeliveryInv /\ [Next]_vars => DeliveryInv'
  <2> SUFFICES ASSUME ParserInv, DeliveryInv, [Next]_vars PROVE DeliveryInv'
    OBVIOUS
  <2>1. CASE UNCHANGED vars
    <3>1. /\ UNCHANGED <<link, stream, recv_state, curparse_type, datalen, recv_len,
                         update_file_crc, buffer, len, pc, ret, cur, handed, verdict>>
      BY <2>1 DEF vars, recv_info
    <3>2. /\ (Framed => Framed') /\ (HeaderAtHand => HeaderAtHand')
          /\ (DataAtHand => DataAtHand') /\ (HandedOver => HandedOver')
      BY ONLY <3>1, FramedSame, HeaderSame, DataSame, HandedSame
    <3> QED
      BY ONLY <3>1, <3>2, DeliveryInv DEF DeliveryInv, CrcAccepts, Intact
  <2>2. ASSUME NEW m \in MsgId, Send(m) PROVE DeliveryInv'
    BY <2>2, SendDelivers
  <2>3. CASE Lose \/ Get \/ Return
    BY <2>3, LoseDelivers, GetDelivers, ReturnDelivers
  <2>4. CASE parse_recv_data
    BY <2>4, NoneDelivers, RejectedDelivers, AcceptedDelivers, NoneExpectedDelivers,
       WeatherDelivers, UpdateDelivers, FinishDelivers DEF parse_recv_data
  <2> QED
    BY <2>1, <2>2, <2>3, <2>4 DEF Next
<1>3. DeliveryInv => CrcAccepts
  BY DEF DeliveryInv
<1> QED
  BY <1>1, <1>2, <1>3, ParserInvariant, PTL DEF Spec
============================================================================
