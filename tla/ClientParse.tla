---------------------------- MODULE ClientParse ----------------------------
(***************************************************************************)
(* th_recv_parse and the message state machine of parse_recv_data.         *)
(*                                                                         *)
(* The server sends messages: a JSON header and, for weather and software  *)
(* updates, as many bytes of data as the header announces.  TCP hands the  *)
(* bytes over in blocks.  Every block is given to parse_recv_data, which   *)
(* loops over its states (one action per case of the switch) until it      *)
(* returns; recv_info keeps the state between the calls.                   *)
(*                                                                         *)
(* A header is two units, its opening and its closing half; data is made   *)
(* of units that are NUL or not (and never braces), for strlen and is_json *)
(* stop at the first NUL of the buffer and not at the end of the block.    *)
(***************************************************************************)
EXTENDS Integers, Sequences, FiniteSets

CONSTANTS
  Msg,           \* the messages the server may send: id -> [type, name, data]
  PackSize,      \* CLIENT_RECV_PACKSIZE, the size of the parse buffer
  MaxLen,        \* bound: the longest data of a message
  Links          \* the conditions the device may work under, records of
                 \*   msgs:    the messages the server may send
                 \*   sent:    bound on the messages sent
                 \*   block:   the longest block the ring buffer hands over
                 \*   aligned: no block crosses the end of a header or a message
                 \*   lossy:   a full ring buffer may refuse a block
                 \*   failing: open and write of the update file may fail

MsgId == DOMAIN Msg
NoMsg == 0                                   \* not an id
Name  == {Msg[m].name : m \in MsgId} \cup {"none"}
Unit  == [k : {"hd", "tl", "x", "nul"}, m : MsgId \cup {NoMsg}]
Nul   == [k |-> "nul", m |-> NoMsg]

ASSUME ClientParseAssumption ==
  /\ \A m \in MsgId : /\ m # NoMsg
                      /\ Msg[m].type \in {"MEMO", "WEATHER", "UPDATE", "BAD"}
                      /\ Msg[m].data \in Seq({"x", "nul"})
                      /\ Len(Msg[m].data) <= MaxLen
  /\ MaxLen \in Nat /\ PackSize \in Nat \ {0, 1}
  /\ \A l \in Links : /\ l.msgs \subseteq MsgId /\ l.sent \in Nat
                      /\ l.block \in 1 .. PackSize
                      /\ {l.aligned, l.lossy, l.failing} \subseteq BOOLEAN

VARIABLES
  link,          \* the conditions of this behaviour; never changes
  stream,        \* units sent by the server and not yet handed over
  sent,          \* messages the server has sent
  recv_state, curparse_type, datalen, recv_len,               \* client.recv_info
  update_file_fd, update_file_name, update_file_crc,          \* client.recv_info
  buffer, len,   \* the parse buffer and the length of the block in it
  pc,            \* "wait", "loop" (in parse_recv_data) or "return"
  ret,           \* what parse_recv_data returns
  files,         \* the update files; an absent one is empty (crcfile: 0 for both)
  open_fds,      \* open file descriptors
  memo, weather, \* device_cfg.memo and device_cfg.weather_info
  cur,           \* message of the header accepted last (auxiliary)
  handed,        \* units handed over as its data (auxiliary)
  verdict        \* outcome of the CRC check in this call (auxiliary)

recv_info == <<recv_state, curparse_type, datalen, recv_len,
               update_file_fd, update_file_name, update_file_crc>>
vars == <<link, stream, sent, recv_info, buffer, len, pc, ret, files, open_fds,
          memo, weather, cur, handed, verdict>>

Header(m) == <<[k |-> "hd", m |-> m], [k |-> "tl", m |-> m]>>
Data(m)   == [i \in 1 .. Len(Msg[m].data) |-> [k |-> Msg[m].data[i], m |-> m]]

\* The memory of the device is zeroed when it starts: no file is open, and
\* descriptor 0 is the console.
Init ==
  /\ link \in Links
  /\ stream = << >> /\ sent = {}
  /\ recv_state = "NONE" /\ curparse_type = "SUCCESS"
  /\ datalen = 0 /\ recv_len = 0
  /\ update_file_fd = 0 /\ update_file_name = "none" /\ update_file_crc = << >>
  /\ buffer = [i \in 1 .. PackSize |-> Nul] /\ len = 0
  /\ pc = "wait" /\ ret = 0
  /\ files = [f \in Name |-> << >>] /\ open_fds = 0 .. 2
  /\ memo = NoMsg /\ weather = << >>
  /\ cur = NoMsg /\ handed = << >> /\ verdict = "none"

----------------------------------------------------------------------------
(* The server and the way to the parser (external). *)

Send(m) ==
  /\ m \in link.msgs \ sent /\ Cardinality(sent) < link.sent
  /\ sent' = sent \cup {m}
  /\ stream' = stream \o Header(m) \o Data(m)
  /\ UNCHANGED <<link, recv_info, buffer, len, pc, ret, files, open_fds, memo, weather,
                 cur, handed, verdict>>

\* A block ends at the n-th unit of the stream.
Block(n) ==
  /\ n <= Len(stream)
  /\ link.aligned =>
       /\ \A i \in 1 .. n - 1 : stream[i].k # "tl" /\ stream[i + 1].k # "hd"
       /\ stream[n].k # "hd"

\* rt_ringbuffer_put refuses a block.
Lose ==
  /\ link.lossy
  /\ \E n \in 1 .. link.block : Block(n) /\ stream' = SubSeq(stream, n + 1, Len(stream))
  /\ UNCHANGED <<link, sent, recv_info, buffer, len, pc, ret, files, open_fds, memo, weather,
                 cur, handed, verdict>>

----------------------------------------------------------------------------
(* th_recv_parse *)

\* rt_ringbuffer_get fills the first n units of the buffer, which is never
\* cleared, and parse_recv_data is called.
Get ==
  /\ pc = "wait"
  /\ \E n \in 1 .. link.block :
       /\ Block(n)
       /\ buffer' = [i \in 1 .. PackSize |-> IF i <= n THEN stream[i] ELSE buffer[i]]
       /\ stream' = SubSeq(stream, n + 1, Len(stream))
       /\ len' = n
  /\ pc' = "loop" /\ ret' = 0 /\ verdict' = "none"
  /\ UNCHANGED <<link, sent, recv_info, files, open_fds, memo, weather, cur, handed>>

Case(state) == pc = "loop" /\ recv_state = state

\* The outcomes of is_json(buffer, strlen(buffer)).  Without a NUL in the buffer
\* strlen runs on into other memory, and the last character may be anything.
is_json ==
  LET nuls == {i \in 1 .. PackSize : buffer[i].k = "nul"}
      last == CHOOSE i \in nuls : \A j \in nuls : i <= j
  IN  IF buffer[1].k # "hd" THEN {FALSE}
      ELSE IF nuls = {} THEN BOOLEAN
      ELSE {last > 2 /\ buffer[last - 1].k = "tl"}

\* The message of the header at the beginning of the buffer, as cJSON_Parse
\* (which ignores what follows the first value) and parse_json_data see it.
HeaderOf ==
  {m \in MsgId : /\ buffer[1] = Header(m)[1] /\ buffer[2] = Header(m)[2]
                 /\ Msg[m].type # "BAD"}

----------------------------------------------------------------------------
(* clear_client_info *)

\* Mutant: descriptor 0 counts as an open file.
clear_client_info_ClosesZero ==
  /\ recv_state' = "NONE" /\ curparse_type' = "NONE"
  /\ datalen' = 0 /\ recv_len' = 0
  /\ update_file_name' = "none" /\ update_file_fd' = -1
  /\ open_fds' = open_fds \ {update_file_fd}
  /\ UNCHANGED update_file_crc

\* Mutant: the count of received bytes is kept.
clear_client_info_KeepsLen ==
  /\ recv_state' = "NONE" /\ curparse_type' = "NONE"
  /\ datalen' = 0
  /\ update_file_name' = "none"
  /\ update_file_fd' = IF update_file_fd > 0 THEN -1 ELSE update_file_fd
  /\ open_fds' = open_fds \ (IF update_file_fd > 0 THEN {update_file_fd} ELSE {})
  /\ UNCHANGED <<update_file_crc, recv_len>>

clear_client_info ==
  /\ recv_state' = "NONE" /\ curparse_type' = "NONE"
  /\ datalen' = 0 /\ recv_len' = 0
  /\ update_file_name' = "none"
  /\ update_file_fd' = IF update_file_fd > 0 THEN -1 ELSE update_file_fd
  /\ open_fds' = open_fds \ (IF update_file_fd > 0 THEN {update_file_fd} ELSE {})
  /\ UNCHANGED update_file_crc

\* A case that sets ret # 0 leaves the loop.
Break(result) == ret' = result /\ pc' = "return"

----------------------------------------------------------------------------
(* The cases of parse_recv_data *)

\* Mutant: a block that is not JSON is ignored without an error.
CRS_NONE_NoError ==
  /\ Case("NONE")
  /\ \E json \in is_json : recv_state' = IF json THEN "HEAD" ELSE "NONE"
  /\ UNCHANGED <<link, stream, sent, curparse_type, datalen, recv_len, update_file_fd,
                 update_file_name, update_file_crc, buffer, len, pc, ret, files,
                 open_fds, memo, weather, cur, handed, verdict>>

CRS_NONE ==
  /\ Case("NONE")
  /\ \E json \in is_json :
       \/ json /\ recv_state' = "HEAD" /\ UNCHANGED <<pc, ret>>
       \/ ~ json /\ Break(-1) /\ UNCHANGED recv_state
  /\ UNCHANGED <<link, stream, sent, curparse_type, datalen, recv_len, update_file_fd,
                 update_file_name, update_file_crc, buffer, len, files, open_fds,
                 memo, weather, cur, handed, verdict>>

\* parse_json_data fails: not JSON after all, or no well-formed header.
CRS_HEAD_Rejected ==
  /\ Case("HEAD")
  /\ FALSE \in is_json \/ HeaderOf = {}
  /\ clear_client_info
  /\ Break(-2)
  /\ UNCHANGED <<link, stream, sent, buffer, len, files, memo, weather, cur, handed, verdict>>

\* parse_msgtype: a memo is complete with its header, the others wait for data.
CRS_HEAD_Accepted ==
  /\ Case("HEAD")
  /\ TRUE \in is_json
  /\ \E m \in HeaderOf :
       /\ curparse_type' = Msg[m].type
       /\ cur' = m /\ handed' = << >>
       /\ \/ /\ Msg[m].type = "MEMO"
             /\ memo' = m
             /\ recv_state' = "FINISH"
             /\ UNCHANGED <<datalen, update_file_name, update_file_crc, pc, ret>>
          \/ /\ Msg[m].type = "WEATHER"
             /\ datalen' = Len(Data(m))
             /\ recv_state' = "DATA" /\ Break(1)
             /\ UNCHANGED <<memo, update_file_name, update_file_crc>>
          \/ /\ Msg[m].type = "UPDATE"
             /\ datalen' = Len(Data(m))
             /\ update_file_crc' = Data(m)
             /\ update_file_name' = Msg[m].name
             /\ recv_state' = "DATA" /\ Break(1)
             /\ UNCHANGED memo
  /\ UNCHANGED <<link, stream, sent, recv_len, update_file_fd, buffer, len, files, open_fds,
                 weather, verdict>>

block == SubSeq(buffer, 1, len)

\* Mutant: a message that is exactly complete waits for one more block.
Count_OneMore ==
  /\ recv_len' = recv_len + len
  /\ datalen' = datalen - len
  /\ handed' = handed \o block
  /\ \/ datalen' < 0 /\ recv_state' = "FINISH" /\ UNCHANGED <<pc, ret>>
     \/ datalen' >= 0 /\ Break(2) /\ UNCHANGED recv_state

\* The block is counted; with the last one the message is finished.
Count ==
  /\ recv_len' = recv_len + len
  /\ datalen' = datalen - len
  /\ handed' = handed \o block
  /\ \/ datalen' <= 0 /\ recv_state' = "FINISH" /\ UNCHANGED <<pc, ret>>
     \/ datalen' > 0 /\ Break(2) /\ UNCHANGED recv_state

\* The header announced no data: the block at hand only ends the message.
CRS_DATA_NoneExpected ==
  /\ Case("DATA")
  /\ datalen <= 0
  /\ recv_state' = "FINISH"
  /\ UNCHANGED <<link, stream, sent, curparse_type, datalen, recv_len, update_file_fd,
                 update_file_name, update_file_crc, buffer, len, pc, ret, files,
                 open_fds, memo, weather, cur, handed, verdict>>

\* memcpy behind the bytes received before; whether write_ele_ds_cfg succeeds
\* makes no difference, its result is overwritten.
CRS_DATA_Weather ==
  /\ Case("DATA")
  /\ datalen > 0 /\ curparse_type = "WEATHER"
  /\ weather' = SubSeq(weather, 1, recv_len) \o block
                \o SubSeq(weather, recv_len + len + 1, Len(weather))
  /\ Count
  /\ UNCHANGED <<link, stream, sent, curparse_type, update_file_fd, update_file_name,
                 update_file_crc, buffer, len, files, open_fds, memo, cur, verdict>>

Failure == Break(-3) /\ UNCHANGED <<recv_state, datalen, recv_len, handed>>

\* What update_file_fd may be after the open that the first block needs.
Opened ==
  IF update_file_fd > 0 THEN {update_file_fd}
  ELSE {CHOOSE fd \in 3 .. 6 : fd \notin open_fds} \cup (IF link.failing THEN {-1} ELSE {})

\* Mutant: the file is opened, and truncated, for every block.
CRS_DATA_Update_Reopens ==
  /\ Case("DATA")
  /\ datalen > 0 /\ curparse_type = "UPDATE"
  /\ update_file_fd' = 3 /\ open_fds' = open_fds \cup {3}
  /\ files' = [files EXCEPT ![update_file_name] = block]
  /\ Count
  /\ UNCHANGED <<link, stream, sent, curparse_type, update_file_name, update_file_crc,
                 buffer, len, memo, weather, cur, verdict>>

\* The update file is opened (and truncated) with the first block, and the block
\* appended.  write may fail, or store only a part, which the code does not see.
CRS_DATA_Update ==
  /\ Case("DATA")
  /\ datalen > 0 /\ curparse_type = "UPDATE"
  /\ \E fd \in Opened :
       LET old == IF update_file_fd > 0 THEN files[update_file_name] ELSE << >>
           Stored(n) == files' = [files EXCEPT ![update_file_name] = old \o SubSeq(buffer, 1, n)]
       IN  /\ update_file_fd' = fd
           /\ \/ fd < 0 /\ Failure /\ UNCHANGED <<files, open_fds>>
              \/ /\ fd > 0 /\ open_fds' = open_fds \cup {fd}
                 /\ \/ link.failing /\ Stored(0) /\ Failure
                    \/ \E n \in 0 .. len : (n < len => link.failing) /\ Stored(n) /\ Count
  /\ UNCHANGED <<link, stream, sent, curparse_type, update_file_name, update_file_crc,
                 buffer, len, memo, weather, cur, verdict>>

\* The state is cleared first; the result of the CRC check (ret, 1 or -4) is
\* local to the case, which returns 0.
CRS_FINISH ==
  /\ Case("FINISH")
  /\ verdict' = IF curparse_type # "UPDATE" THEN "none"
                ELSE IF files[update_file_name] = update_file_crc THEN "ok" ELSE "bad"
  /\ clear_client_info
  /\ Break(0)
  /\ UNCHANGED <<link, stream, sent, buffer, len, files, memo, weather, cur, handed>>

\* Mutant: the thread only logs an error.
Return_LogsOnly ==
  /\ pc = "return"
  /\ pc' = "wait"
  /\ UNCHANGED <<link, stream, sent, recv_info, buffer, len, ret, files, open_fds, memo,
                 weather, cur, handed, verdict>>

\* Back in the thread: an error clears the state.
Return ==
  /\ pc = "return"
  /\ pc' = "wait"
  /\ \/ ret < 0 /\ clear_client_info
     \/ ret >= 0 /\ UNCHANGED <<recv_info, open_fds>>
  /\ UNCHANGED <<link, stream, sent, buffer, len, ret, files, memo, weather, cur, handed, verdict>>

----------------------------------------------------------------------------
parse_recv_data ==
  \/ CRS_NONE \/ CRS_HEAD_Rejected \/ CRS_HEAD_Accepted
  \/ CRS_DATA_NoneExpected \/ CRS_DATA_Weather \/ CRS_DATA_Update
  \/ CRS_FINISH

Next ==
  \/ \E m \in MsgId : Send(m)
  \/ Lose \/ Get \/ parse_recv_data \/ Return

Spec == Init /\ [][Next]_vars

\* The parse thread runs when there is something to do; the server owes nothing.
FairSpec == Spec /\ WF_vars(Get) /\ WF_vars(parse_recv_data) /\ WF_vars(Return)

----------------------------------------------------------------------------
\* The types of the variables; what is still expected never exceeds the longest
\* message, and falls below zero by less than a block.
TypeOK ==
  /\ link \in Links /\ stream \in Seq(Unit) /\ sent \subseteq MsgId
  /\ recv_state \in {"NONE", "HEAD", "DATA", "FINISH"}
  /\ curparse_type \in {"SUCCESS", "NONE", "MEMO", "WEATHER", "UPDATE"}
  /\ datalen \in Int /\ -link.block < datalen /\ datalen <= MaxLen
  /\ recv_len \in Nat
  /\ update_file_fd \in {-1, 0} \cup 3 .. 6
  /\ update_file_name \in Name /\ update_file_crc \in Seq(Unit)
  /\ buffer \in [1 .. PackSize -> Unit] /\ len \in 0 .. link.block
  /\ pc \in {"wait", "loop", "return"} /\ ret \in {-3, -2, -1, 0, 1, 2}
  /\ files \in [Name -> Seq(Unit)] /\ open_fds \subseteq 0 .. 6
  /\ memo \in MsgId \cup {NoMsg} /\ weather \in Seq(Unit)
  /\ cur \in MsgId \cup {NoMsg} /\ handed \in Seq(Unit)
  /\ verdict \in {"none", "ok", "bad"}

\* The only descriptor the parser holds is the one recv_info names: none leaks
\* on an error path, and the console (descriptor 0, which update_file_fd holds
\* when the device starts) is never closed.
OwnsItsFile ==
  open_fds = 0 .. 2 \cup (IF update_file_fd > 0 THEN {update_file_fd} ELSE {})

\* A message starts from nothing: whatever ended the previous one, no length,
\* file or name of it is left when the next header is looked at.
CleanStart ==
  recv_state \in {"NONE", "HEAD"} =>
    datalen = 0 /\ recv_len = 0 /\ update_file_name = "none" /\ update_file_fd <= 0

\* Between calls the parser waits for a header or for announced data, never in
\* the middle of a header or in front of a finished message.
RestsInNoneOrData ==
  pc = "wait" => recv_state = "NONE" \/ (recv_state = "DATA" /\ ret >= 0)

\* While data is received, what is still expected and what has been counted add
\* up to the announced length, and what has been stored is exactly the blocks
\* handed over since the header (a flash that is full may store less).
StoredAsReceived ==
  recv_state \in {"DATA", "FINISH"} /\ curparse_type # "MEMO" =>
    /\ recv_len = Len(handed)
    /\ recv_len + datalen = Len(Data(cur))
    /\ curparse_type = "WEATHER" => SubSeq(weather, 1, recv_len) = handed
    /\ (curparse_type = "UPDATE" /\ recv_len > 0) =>
         /\ update_file_fd > 0
         /\ ~ link.failing => files[update_file_name] = handed

\* An update file changes only by appending to it, except that the first block
\* of a new update of that name replaces it.
OnlyAppends ==
  [][\A f \in Name : files'[f] # files[f] =>
       /\ f = update_file_name
       /\ \/ recv_len = 0
          \/ /\ Len(files[f]) <= Len(files'[f])
             /\ SubSeq(files'[f], 1, Len(files[f])) = files[f]]_vars

\* Every call of parse_recv_data returns: no state loops on the same block.
CallReturns == pc = "loop" ~> pc = "wait"

\* A message that waits for data ends, be it with an error, as long as no block is
\* lost or crosses the end of a header.  (Nothing but data ends it: the timer of
\* client.c:287 is never started, so after a loss the parser waits for good.)
MessageEnds ==
  recv_state = "DATA" /\ datalen > 0 /\ link.aligned /\ ~ link.lossy ~> recv_state = "NONE"

----------------------------------------------------------------------------
(* What the comments promise. *)

\* Nothing is lost, the flash works, and no block crosses the end of a header or
\* of a message.
Intact == link.aligned /\ ~ link.lossy /\ ~ link.failing

\* Moreover no block is longer than a header, so that none leaves a tail behind.
Reliable == Intact /\ link.block <= 2

\* Over a reliable link every update the server sends ends up on the flash, every
\* weather message in weather_info and every memo in memory.
EveryMessageStored ==
  \A m \in MsgId :
    m \in sent /\ Reliable ~>
      CASE Msg[m].type = "UPDATE"  -> files[Msg[m].name] = Data(m)
        [] Msg[m].type = "MEMO"    -> memo = m
        [] Msg[m].type = "WEATHER" -> weather = Data(m)
        [] OTHER                   -> TRUE

\* The CRC check never refuses an update that came over an intact link: what
\* crcfile reads back, after the file was closed, is what the header announced.
\* (An update without data opens no file: an older one of that name is checked.)
CrcAccepts == Intact /\ cur \in MsgId /\ Data(cur) # << >> => verdict # "bad"

\* A block that is the header of a message is accepted as one (client.c:234).
HeaderAccepted ==
  pc = "return" /\ len = 2 /\ HeaderOf # {} => ret # -1
============================================================================
