--------------------------- MODULE MCClientParse ---------------------------
(* Messages and links for model checking ClientParse. *)
EXTENDS ClientParse

MCMsg == <<
  \* Two updates of the same file, so that the second replaces the first, weather
  \* with and without data, a memo and a header parse_json_data rejects.
  [type |-> "UPDATE",  name |-> "a", data |-> <<"x", "x", "nul">>],
  [type |-> "UPDATE",  name |-> "a", data |-> <<"x">>],
  [type |-> "WEATHER", name |-> "none",  data |-> <<"nul", "x">>],
  [type |-> "WEATHER", name |-> "none",  data |-> << >>],
  [type |-> "MEMO",    name |-> "none",  data |-> << >>],
  [type |-> "BAD",     name |-> "none",  data |-> << >>],
  \* What a server sends in a day: an update, the weather and a memo (5).
  [type |-> "UPDATE",  name |-> "a", data |-> <<"x", "x", "nul", "x", "x">>],
  [type |-> "WEATHER", name |-> "none",  data |-> <<"x", "x", "x">>],
  \* An update without data.
  [type |-> "UPDATE",  name |-> "a", data |-> << >>] >>

Day == [msgs |-> {5, 7, 8}, sent |-> 3, block |-> 2,
        aligned |-> TRUE, lossy |-> FALSE, failing |-> FALSE]

\* Any two messages over a bad link, which may lose blocks or only a full flash
\* spoils; a day over a reliable one; or three updates in longer blocks.
Bad == [msgs |-> 1 .. 6, sent |-> 2, block |-> 3,
        aligned |-> FALSE, lossy |-> TRUE, failing |-> TRUE]
MCLinks == {Bad, [Bad EXCEPT !.aligned = TRUE, !.lossy = FALSE], Day,
            [Day EXCEPT !.msgs = {1, 7, 9}, !.block = 3]}

\* Blocks longer than a header; nothing else is wrong.
MCLongBlocks == {[Day EXCEPT !.block = 3]}
============================================================================
