----------------------------- MODULE MCBunParse -----------------------------
(* Files for model-checking BunParse. The header and record sizes are the   *)
(* real ones; u32, long and u64 are cut to 15, 511 and 1023 so that offsets *)
(* overflow and seeks fail within reach.                                    *)
EXTENDS BunComposed, TLC

Header(count, table, strings, strings_size, data, data_size) ==
  [magic |-> BUN_MAGIC, version_major |-> 1, version_minor |-> 0,
   asset_count |-> count, asset_table_offset |-> table,
   string_table_offset |-> strings, string_table_size |-> strings_size,
   data_section_offset |-> data, data_section_size |-> data_size]

NoBytes == << >>
NoRecords == << >>

\* A record that is valid over any string table starting with a letter.
Plain == [name_offset |-> 0, name_length |-> 1, data_offset |-> 0,
          data_size |-> 2, uncompressed_size |-> 0, compression |-> 0,
          checksum |-> 0, flags |-> 0]

-----------------------------------------------------------------------------
(* Layouts: sections that touch, gap, overlap, nest, are empty, misaligned,  *)
(* out of the file, or end beyond LONG_MAX or UINT64_MAX.                    *)
LayoutHeaders ==
  {Header(c, t, s, ss, d, ds) :
     c \in {0, 1, 2}, t \in {56, 60, 116, 512},
     s \in {60, 62, 108, 156}, ss \in {0, 4, 6},
     d \in {60, 112, 164, 1020}, ds \in {0, 4, 8}}

OddHeaders ==
  LET base == Header(1, 60, 108, 4, 112, 4)
  IN  {base, [base EXCEPT !.magic = 0], [base EXCEPT !.version_major = 2],
       [base EXCEPT !.version_minor = 1],
       [base EXCEPT !.version_major = 0, !.magic = 1],
       [base EXCEPT !.version_minor = 1, !.string_table_size = 6],
       [base EXCEPT !.asset_count = 15],
       [base EXCEPT !.asset_table_offset = 62],
       \* The seek past the last record ends as near LONG_MAX as a table can.
       [base EXCEPT !.asset_table_offset = 460],
       [base EXCEPT !.data_section_offset = 113],
       [base EXCEPT !.data_section_size = 3]}

Blank(h, size) ==
  [size |-> size, header |-> h,
   records |-> h.asset_table_offset :> Plain
                 @@ (h.asset_table_offset + 48) :> Plain,
   bytes |-> h.string_table_offset :> 65 @@ h.data_section_offset :> 66]

LayoutFiles ==
  {Blank(h, size) : h \in LayoutHeaders, size \in {116, 172}}
    \cup {Blank(h, size) : h \in OddHeaders, size \in {0, 59, 60, 116, 511}}

-----------------------------------------------------------------------------
(* Assets: one layout, two records, each good or wrong in one or more ways.  *)
Records ==
  LET r(no, nl, do, ds, us, c) ==
        [name_offset |-> no, name_length |-> nl, data_offset |-> do,
         data_size |-> ds, uncompressed_size |-> us, compression |-> c,
         checksum |-> 0, flags |-> 0]
  IN  {Plain, r(2, 6, 10, 6, 0, 0), r(4, 0, 0, 0, 0, 0), r(4, 5, 0, 1, 0, 0),
       r(15, 15, 1023, 1, 1, 0), r(1, 3, 14, 5, 7, 0),
       r(4, 0, 9, 8, 0, 0), r(0, 2, 0, 2, 0, 2), r(0, 2, 20, 2, 0, 3),
       r(0, 5, 0, 4, 5, 1), r(0, 2, 4, 8, 9, 1), r(0, 2, 0, 0, 0, 1),
       r(0, 1, 1, 3, 2, 1), r(0, 1, 8, 20, 0, 1), r(0, 1, 400, 2, 0, 1),
       r(0, 1, 900, 2, 0, 1), r(0, 1, 2, 10, 14, 1), r(0, 1, 10, 6, 9, 1),
       r(7, 3, 0, 8, 9, 1), r(4, 0, 0, 2, 1, 2)}
       \cup {[Plain EXCEPT !.checksum = 5], [Plain EXCEPT !.flags = 3],
             [Plain EXCEPT !.flags = 4, !.checksum = 1, !.name_length = 12]}

\* "name" and payload bytes: printable throughout, or not at one place; RLE
\* counts that fit, include a zero, or overflow 1023.
Texts == {[k \in 0 .. 7 |-> 65], [k \in 0 .. 7 |-> IF k = 3 THEN 127 ELSE 32]}
Payloads ==
  {[k \in 0 .. 15 |-> IF k = 0 THEN 3 ELSE IF k = 2 THEN 2 ELSE IF k < 10 THEN 1 ELSE 2],
   [k \in 0 .. 15 |-> IF k = 6 THEN 0 ELSE 1],
   [k \in 0 .. 15 |-> 255]}

\* The sections from "at" on: the table first, or the strings and the data
\* first.
Placed(t, r, text, payload, h, size) ==
  [size |-> size, header |-> h,
   records |-> t :> r[1] @@ (t + 48) :> r[2],
   bytes |-> [p \in h.string_table_offset .. h.string_table_offset + 7 |->
                text[p - h.string_table_offset]]
             @@ [p \in h.data_section_offset .. h.data_section_offset + 15 |->
                   payload[p - h.data_section_offset]]]

TableFirst(r, text, payload) ==
  Placed(60, r, text, payload, Header(2, 60, 156, 8, 164, 16), 180)
DataFirst(r, text, payload) ==
  Placed(84, r, text, payload, Header(2, 84, 76, 8, 60, 16), 190)

AssetFiles ==
  {TableFirst(r, text, payload) :
     r \in Records \X Records, text \in Texts, payload \in Payloads}
  \cup {DataFirst(<<r, Plain>>, text, payload) :
          r \in Records, text \in Texts, payload \in Payloads}

-----------------------------------------------------------------------------
(* Failures: few files, every stdio call may fail.                          *)
FaultFiles ==
  LET text == CHOOSE t \in Texts : t[3] = 65
      payload == CHOOSE q \in Payloads : q[0] = 3
  IN  {TableFirst(<<r, q>>, text, payload) :
         r \in Records, q \in {Plain, [Plain EXCEPT !.checksum = 5]}}
      \cup {TableFirst(<<[Plain EXCEPT !.checksum = 1, !.flags = 4], r>>, text, payload) :
               r \in {Plain, [Plain EXCEPT !.name_length = 0]}}
      \cup {Blank(h, 116) : h \in OddHeaders}

=============================================================================
