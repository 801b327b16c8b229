------------------------------ MODULE BunWriter ------------------------------
(* The Python side: the layout computed by bunfile_generator.py and by        *)
(* _simple_valid of tests/make_fixtures.py, and the bytes they write one      *)
(* after the other. Nothing seeks, so a section is where the header says only *)
(* if the lengths of all that is written before it add up.                    *)
EXTENDS BunCodec, SequencesExt

\* An asset as the scripts take it: bytes of the name and of the payload as
\* stored, and the fields that are not computed.
Asset(name, payload) ==
  [name |-> name, payload |-> payload, compression |-> 0, uncompressed_size |-> 0,
   type |-> 0, checksum |-> 0, flags |-> 0]

align4(n) == 4 * ((n + 3) \div 4)

\* assert n >= 0: a negative length is a byte no file has.
AssertionError == -1
write_padding(n) == IF n >= 0 THEN [k \in 1 .. n |-> 0] ELSE <<AssertionError>>

\* Defaults of write_header's arguments.
Layout(count, table, strings, strings_size, data, data_size) ==
  [magic |-> BUN_MAGIC, version_major |-> 1, version_minor |-> 0,
   asset_count |-> count, asset_table_offset |-> table,
   string_table_offset |-> strings, string_table_size |-> strings_size,
   data_section_offset |-> data, data_section_size |-> data_size, reserved |-> 0]

Concat(assets, f) == FlattenSeq([k \in DOMAIN assets |-> assets[k][f]])

\* The record of an asset whose name and payload start at these places.
Record(a, name_offset, data_offset) ==
  [name_offset |-> name_offset, name_length |-> Len(a.name),
   data_offset |-> data_offset, data_size |-> Len(a.payload),
   uncompressed_size |-> a.uncompressed_size, compression |-> a.compression,
   type |-> a.type, checksum |-> a.checksum, flags |-> a.flags]

\* Mutant: the data cursor moves with the names.
Records_by_name(assets) ==
  [k \in DOMAIN assets |->
     LET before == SubSeq(assets, 1, k - 1)
     IN  Record(assets[k], Len(Concat(before, "name")), Len(Concat(before, "name")))]

\* The records, with a name cursor and a data cursor.
Records(assets) ==
  [k \in DOMAIN assets |->
     LET before == SubSeq(assets, 1, k - 1)
     IN  Record(assets[k], Len(Concat(before, "name")), Len(Concat(before, "payload")))]

WriteRecords(rs) == FlattenSeq([k \in DOMAIN rs |-> write_asset_record(rs[k])])

\* What a script has written, and what it was asked to write.
Written(bytes, h, rs, assets) ==
  [bytes |-> bytes, header |-> h, records |-> rs, assets |-> assets]

\* Keyword arguments override the defaults.
Overridden(h, edit) == [f \in DOMAIN h |-> IF f \in DOMAIN edit THEN edit[f] ELSE h[f]]

\* _simple_valid; edit overrides magic, version and reserved.
simple_valid(assets, edit) ==
  LET names == Concat(assets, "name")
      payloads == Concat(assets, "payload")
      table == align4(BUN_HEADER_SIZE)
      table_end == table + Len(assets) * BUN_ASSET_RECORD_SIZE
      strings == align4(table_end)
      strings_size == align4(Len(names))
      data == align4(strings + strings_size)
      data_size == align4(Len(payloads))
      h == Overridden(Layout(Len(assets), table, strings, strings_size, data, data_size), edit)
      rs == Records(assets)
  IN  Written(write_header(h) \o write_padding(table - BUN_HEADER_SIZE)
                \o WriteRecords(rs) \o write_padding(strings - table_end)
                \o names \o write_padding(strings_size - Len(names))
                \o write_padding(data - (strings + strings_size))
                \o payloads \o write_padding(data_size - Len(payloads)),
              h, rs, assets)

\* main of bunfile_generator.py: one asset, an own formula for the data
\* section, and padding that is skipped, not asserted, when negative.
write_padded(n) == IF n > 0 THEN write_padding(n) ELSE <<>>

minimal(asset) ==
  LET table == align4(BUN_HEADER_SIZE)
      strings == align4(table + BUN_ASSET_RECORD_SIZE)
      strings_size == align4(Len(asset.name))
      data == align4(strings + Len(asset.name))
      data_size == align4(Len(asset.payload))
      h == Layout(1, table, strings, strings_size, data, data_size)
      rs == Records(<<asset>>)
  IN  Written(write_header(h) \o write_padded(table - BUN_HEADER_SIZE)
                \o WriteRecords(rs)
                \o write_padded(strings - (table + BUN_ASSET_RECORD_SIZE))
                \o asset.name \o write_padded(strings_size - Len(asset.name))
                \o write_padded(data - (strings + strings_size))
                \o asset.payload \o write_padded(data_size - Len(asset.payload)),
              h, rs, <<asset>>)

\* A fixture written by hand: header, padding up to the table, records, rest.
by_hand(h, rs, rest) ==
  Written(write_header(h) \o write_padding(h.asset_table_offset - BUN_HEADER_SIZE)
            \o WriteRecords(rs) \o rest,
          h, rs, <<>>)

-----------------------------------------------------------------------------
\* Mutant: a run may be one longer than a count can say.
rle_encode_long(raw) ==
  LET enc[i \in 1 .. Len(raw) + 1] ==
        IF i > Len(raw) THEN <<>>
        ELSE LET runs == {n \in 1 .. AtMost(256, Len(raw) - i + 1) :
                            \A k \in 0 .. n - 1 : raw[i + k] = raw[i]}
                 run == Cardinality(runs)
             IN  <<run % BASE, raw[i]>> \o enc[i + run]
  IN  enc[1]

\* _rle_encode: pairs of a count of at most 255 and a byte.
rle_encode(raw) ==
  LET enc[i \in 1 .. Len(raw) + 1] ==
        IF i > Len(raw) THEN <<>>
        ELSE LET runs == {n \in 1 .. AtMost(255, Len(raw) - i + 1) :
                            \A k \in 0 .. n - 1 : raw[i + k] = raw[i]}
                 run == Cardinality(runs)
             IN  <<run, raw[i]>> \o enc[i + run]
  IN  enc[1]

=============================================================================
