------------------------------ MODULE MCBunApi ------------------------------
(* Files of each class, among them ones whose header is bad in different     *)
(* ways over good and bad assets. A header has 8 bytes and a record 4.       *)
EXTENDS BunApi, TLC

Header(count, strings) ==
  [ZeroHeader EXCEPT !.magic = BUN_MAGIC, !.version_major = 1, !.asset_count = count,
     !.asset_table_offset = 8, !.string_table_offset = strings,
     !.string_table_size = 4, !.data_section_offset = strings + 4,
     !.data_section_size = 4]

Good == [ZeroRecord EXCEPT !.name_length = 1]

File(h, first, second, size) ==
  [size |-> size, header |-> h, records |-> 8 :> first @@ 12 :> second,
   bytes |-> h.string_table_offset :> 65]

\* Its one record is good, but an unsupported one lies where the others' is.
MovedTable(h, other) ==
  [File([h EXCEPT !.asset_table_offset = 24, !.asset_count = 1], other, Good, 28)
     EXCEPT !.records = @ @@ 24 :> Good]

ApiFiles ==
  LET h == Header(2, 16)
      zlib == [Good EXCEPT !.compression = 2]
      nameless == [Good EXCEPT !.name_length = 0]
      minor == [h EXCEPT !.version_minor = 1]
  IN  {File(h, Good, Good, 24), File(h, zlib, nameless, 24), File(h, Good, zlib, 24),
       File(minor, Good, nameless, 24), File(minor, Good, Good, 24),
       File([h EXCEPT !.magic = 0], Good, Good, 24), File(h, Good, Good, 4),
       [File(h, [Good EXCEPT !.compression = 1, !.data_size = 2, !.uncompressed_size = 3],
             Good, 24) EXCEPT !.bytes = 16 :> 65 @@ 20 :> 3],
       File([h EXCEPT !.asset_count = 5], Good, zlib, 24),
       File([h EXCEPT !.asset_table_offset = 60, !.asset_count = 3], Good, Good, 70),
       MovedTable(h, zlib)}

\* None, and one or two of: a seek, a record, a payload or a name in part.
ApiStops ==
  {NoFailures, <<1, "seek">> :> -1, <<1, "record">> :> 3, <<0, "data">> :> 1,
   <<0, "name">> :> -1 @@ <<2, "seek">> :> -1}

=============================================================================
