---------------------------- MODULE MCBunSnippet ----------------------------
(* Names and payloads around the limits: a snippet shows 3 bytes of a name    *)
(* and 5 of a payload, a line of a dump has 2, and a u8 is cut to 0 .. 3 so    *)
(* that a count reaches its maximum before the output buffer is full.        *)
EXTENDS BunSnippet

Header ==
  [ZeroHeader EXCEPT !.string_table_offset = 0, !.string_table_size = 8,
                     !.data_section_offset = 8, !.data_section_size = 16]

File(bytes, size) ==
  [size |-> size, header |-> Header, records |-> << >>, bytes |-> bytes]

Rec(name, payload) ==
  [ZeroRecord EXCEPT !.name_offset = name[1], !.name_length = name[2],
                     !.data_offset = payload[1], !.data_size = payload[2],
                     !.compression = payload[3]]

\* Letters, a backslash, the letters its escapes end in, a tab, control bytes.
Texts == {<<65, 92, 120, 48, 49, 9, 110, 1>>, <<65, 66, 1, 110, 92, 92, 10, 49>>,
          <<31, 97, 92, 126, 127, 255, 13, 65>>, <<65, 66, 67, 9, 31, 65, 10, 92>>}

\* Text as name and as an uncompressed payload.
Plain ==
  {[file |-> File([p \in 0 .. 15 |-> t[(p % 8) + 1]], size), rec |-> Rec(name, payload)] :
     t \in Texts, size \in {11, 24},
     name \in {<<0, 0>>, <<0, 3>>, <<1, 4>>, <<0, 2>>, <<5, 3>>, <<4, 9>>},
     payload \in {<<0, 0, 0>>, <<0, 4, 0>>, <<0, 5, 0>>, <<1, 7, 0>>, <<2, 6, 0>>,
                  <<0, 3, 2>>, <<12, 8, 0>>}}

\* Six pairs, one more than the snippet reads, and sizes that cut a pair.
Pairs(counts) ==
  [p \in 8 .. 19 |-> IF p % 2 = 0 THEN counts[(p - 6) \div 2] ELSE 60 + p \div 2]

Compressed ==
  {[file |-> File(IF odd THEN (13 :> 7) @@ Pairs(c) ELSE Pairs(c), 24),
    rec |-> Rec(<<0, 1>>, <<0, n, 1>>)] :
     c \in [1 .. 6 -> {0, 1, 3}], odd \in BOOLEAN, n \in {1, 5, 10, 12}}

AllShows == Plain \cup Compressed

=============================================================================
