---------------------------- MODULE MCBunWriter ----------------------------
(* The 31 fixtures of tests/make_fixtures.py with the exit codes of           *)
(* tests/fixtures/expectations.tsv, the generator's minimal file, and         *)
(* _simple_valid over other lengths. Sizes, text and counts are real; magic   *)
(* and the largest integers are cut so that TLC can count with them.          *)
EXTENDS BunWritten

NoEdit == [reserved |-> 0]
Bytes8(from, n) == [k \in 1 .. n |-> from + k]
Repeat(s, n) == [k \in 1 .. n * Len(s) |-> s[((k - 1) % Len(s)) + 1]]

X == Asset(<<120>>, <<121>>)
Hello == Asset(<<104, 101, 108, 108, 111>>, Bytes8(32, 18))
ABCD == Asset(<<99>>, Bytes8(64, 4))
Stored(n, payload, compression, size) ==
  [Asset(Bytes8(96, n), payload) EXCEPT !.compression = compression,
                                        !.uncompressed_size = size]
One(a) == simple_valid(<<a>>, NoEdit)
Edited(f, v) == simple_valid(<<X>>, f :> v)
Rec(name_offset, name_length, data_offset, data_size) ==
  [Record(X, name_offset, data_offset) EXCEPT !.name_length = name_length,
                                              !.data_size = data_size]
Rle(raw) == One(Stored(8, rle_encode(raw), 1, Len(raw)))

Valid ==
  {simple_valid(<<>>, NoEdit), One([Hello EXCEPT !.type = 1]),
   simple_valid(<<[Asset(Bytes8(65, 17), Repeat(<<0, 128, 0>>, 16)) EXCEPT !.type = 1],
                  [Asset(Bytes8(75, 15), Repeat(<<16, 32, 48, 64>>, 8)) EXCEPT !.type = 2],
                  [Asset(Bytes8(85, 15), Bytes8(39, 12)) EXCEPT !.type = 3]>>, NoEdit),
   Rle(Repeat(<<65>>, 8)),
   One([Asset(Bytes8(97, 12), <<77, 90, 144, 0>>) EXCEPT !.flags = 2]),
   One([Asset(Bytes8(97, 12), <<0, 1, 2, 3>>) EXCEPT !.flags = 1]),
   One(Asset(Bytes8(31, 95), Bytes8(97, 7))),
   Edited("reserved", 1 + 256 * (2 + 256 * (3 + 256 * 4))),
   One(Asset(Bytes8(97, 5), <<>>)),
   \* 10: the data section before the string table
   by_hand(Layout(1, 60, 116, 4, 108, 8), <<Rec(0, 4, 0, 5)>>,
           Bytes8(65, 5) \o write_padding(3) \o Bytes8(97, 4))}

Malformed ==
  {Edited("magic", 57005),
   Written(Bytes8(65, 4) \o write_padding(20), ZeroHeader, <<>>, <<>>),
   by_hand(Layout(1, 60, 108, 4, 112, 1000), <<Rec(0, 1, 0, 4)>>,
           <<104, 105, 0, 0, 65, 66, 67, 68>>),
   Written(write_header(Layout(0, 61, 64, 0, 64, 0)), Layout(0, 61, 64, 0, 64, 0), <<>>, <<>>),
   by_hand(Layout(0, 60, 60, 3, 64, 0), <<>>, write_padding(3)),
   by_hand(Layout(1, 60, 76, 16, 140, 4), <<>>, write_padding(84)),
   by_hand(Layout(UINT32_MAX, 60, 60, 0, 60, 0), <<>>, write_padding(4)),
   by_hand(Layout(1, 60, 108, 4, 112, 4), <<Rec(2, 10, 0, 1)>>, Bytes8(96, 8)),
   by_hand(Layout(1, 60, 108, 4, 112, 4), <<Rec(0, 1, 2, 10)>>, Bytes8(96, 8)),
   One(Asset(<<98, 97, 100, 1, 110, 97, 109, 101>>, <<121>>)),
   by_hand(Layout(1, 60, 108, 4, 112, 4), <<Rec(0, 0, 0, 1)>>,
           write_padding(4) \o Bytes8(86, 4)),
   One(Stored(7, <<3, 65, 255>>, 1, 3)), One(Stored(8, <<0, 65>>, 1, 0)),
   One(Stored(9, <<3, 65>>, 1, 99)), One(Stored(5, Bytes8(64, 4), 0, 999))}

Unsupported ==
  {Edited("version_major", 2), Edited("version_minor", 5),
   One(Stored(1, <<120, 156, 1, 0, 0, 255, 255>>, 2, 0)), One(Stored(1, <<0, 0>>, 99, 2)),
   One([ABCD EXCEPT !.checksum = 51966]), One([ABCD EXCEPT !.flags = 128])}

\* One to three assets over lengths on both sides of a multiple of 4, and raw
\* data with runs up to the largest count and beyond.
More ==
  LET a(from, n, m) == Asset(Bytes8(from, n), Bytes8(100 + from, m))
  IN  {simple_valid(<<a(64, n, m), a(96, 5 - n, k)>>, NoEdit) :
         n \in {1, 3, 4}, m \in {0, 1, 4, 7}, k \in {0, 2, 5}}
      \cup {simple_valid(<<a(40, n, 3), a(64, 2, 2), a(96, n, 3)>>, NoEdit) : n \in 1 .. 4}
      \cup {minimal(a(64, n, m)) : n \in 1 .. 5, m \in 0 .. 5}
      \cup {Rle(raw) : raw \in UNION {[1 .. n -> {65, 66}] : n \in 0 .. 4}}
      \cup {Rle(Repeat(<<65>>, n)) : n \in {254, 255, 256, 257, 510}}

WrittenFiles ==
  LET file(w, code) == FileOf(w.bytes) @@ [written |-> w, code |-> code]
  IN  {file(w, BUN_OK) : w \in Valid \cup More}
      \cup {file(w, BUN_MALFORMED) : w \in Malformed}
      \cup {file(w, BUN_UNSUPPORTED) : w \in Unsupported}

=============================================================================
