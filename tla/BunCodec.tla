------------------------------ MODULE BunCodec ------------------------------
(* Numbers and structures as bytes: the little-endian reads of bun_utils.c,  *)
(* the offsets at which bun_parse.c looks for each field, what               *)
(* bun_print_header and bun_print_asset_record print of them, and on the     *)
(* other side Python's struct.pack as bunfile_generator.py uses it.          *)
(* A buffer is a sequence; the C offset n is its place n + 1.                *)
EXTENDS BunFile

BASE == 256
IsBuffer(b, n) == b \in Seq(Byte) /\ Len(b) = n

read_u16_le(b, o) == b[o + 1] + BASE * b[o + 2]

\* The shifts and ors of the code, from the highest byte down, so that no
\* intermediate value exceeds the result.
read_u32_le(b, o) == read_u16_le(b, o) + BASE * (BASE * read_u16_le(b, o + 2))

read_u64_le(b, o) ==
  read_u32_le(b, o) + BASE * (BASE * (BASE * (BASE * read_u32_le(b, o + 4))))

DecodeHeader(b) ==
  [magic |-> read_u32_le(b, 0), version_major |-> read_u16_le(b, 4),
   version_minor |-> read_u16_le(b, 6), asset_count |-> read_u32_le(b, 8),
   asset_table_offset |-> read_u64_le(b, 12), string_table_offset |-> read_u64_le(b, 20),
   string_table_size |-> read_u64_le(b, 28), data_section_offset |-> read_u64_le(b, 36),
   data_section_size |-> read_u64_le(b, 44), reserved |-> read_u64_le(b, 52)]

\* Mutant: offset and size of the payload change places.
read_asset_record_swapped(b) ==
  [name_offset |-> read_u32_le(b, 0), name_length |-> read_u32_le(b, 4),
   data_offset |-> read_u64_le(b, 16), data_size |-> read_u64_le(b, 8),
   uncompressed_size |-> read_u64_le(b, 24), compression |-> read_u32_le(b, 32),
   type |-> read_u32_le(b, 36), checksum |-> read_u32_le(b, 40),
   flags |-> read_u32_le(b, 44)]

read_asset_record_from_buf(b) ==
  [name_offset |-> read_u32_le(b, 0), name_length |-> read_u32_le(b, 4),
   data_offset |-> read_u64_le(b, 8), data_size |-> read_u64_le(b, 16),
   uncompressed_size |-> read_u64_le(b, 24), compression |-> read_u32_le(b, 32),
   type |-> read_u32_le(b, 36), checksum |-> read_u32_le(b, 40),
   flags |-> read_u32_le(b, 44)]

\* What is printed: a label and a value a line.
bun_print_header(h) ==
  << <<"magic", h.magic>>, <<"version_major", h.version_major>>,
     <<"version_minor", h.version_minor>>, <<"asset_count", h.asset_count>>,
     <<"asset_table_offset", h.asset_table_offset>>,
     <<"string_table_offset", h.string_table_offset>>,
     <<"string_table_size", h.string_table_size>>,
     <<"data_section_offset", h.data_section_offset>>,
     <<"data_section_size", h.data_section_size>>, <<"reserved", h.reserved>> >>

bun_print_asset_record(r) ==
  << <<"name_offset", r.name_offset>>, <<"name_length", r.name_length>>,
     <<"data_offset", r.data_offset>>, <<"data_size", r.data_size>>,
     <<"uncompressed_size", r.uncompressed_size>>, <<"compression", r.compression>>,
     <<"type", r.type>>, <<"checksum", r.checksum>>, <<"flags", r.flags>> >>

\* A file of these bytes as BunFile sees it: the header at 0, the records at the
\* slots of the table. reserved and type are printed and not judged.
FileOf(b) ==
  LET whole == IF Len(b) < BUN_HEADER_SIZE THEN ZeroHeader ELSE DecodeHeader(b)
      header == [f \in DOMAIN ZeroHeader |-> whole[f]]
      rec(p) == read_asset_record_from_buf(SubSeq(b, p + 1, p + BUN_ASSET_RECORD_SIZE))
      slots == {p \in header.asset_table_offset .. Len(b) - BUN_ASSET_RECORD_SIZE :
                  /\ (p - header.asset_table_offset) % BUN_ASSET_RECORD_SIZE = 0
                  /\ (p - header.asset_table_offset) \div BUN_ASSET_RECORD_SIZE
                       < header.asset_count}
  IN  [size |-> Len(b), header |-> header,
       records |-> [p \in slots |-> [f \in DOMAIN ZeroRecord |-> rec(p)[f]]],
       bytes |-> [p \in 0 .. Len(b) - 1 |-> b[p + 1]]]

-----------------------------------------------------------------------------
(* struct.pack: the letters H, I and Q after a "<", for values that fit.    *)
pack_H(n) == <<n % BASE, (n \div BASE) % BASE>>
pack_I(n) == pack_H(n) \o pack_H((n \div BASE) \div BASE)
pack_Q(n) == pack_I(n) \o pack_I((((n \div BASE) \div BASE) \div BASE) \div BASE)

\* struct.pack("<IHHIQQQQQQ", ...)
write_header(h) ==
  pack_I(h.magic) \o pack_H(h.version_major) \o pack_H(h.version_minor)
    \o pack_I(h.asset_count) \o pack_Q(h.asset_table_offset)
    \o pack_Q(h.string_table_offset) \o pack_Q(h.string_table_size)
    \o pack_Q(h.data_section_offset) \o pack_Q(h.data_section_size) \o pack_Q(h.reserved)

\* struct.pack("<IIQQQIIII", ...)
write_asset_record(r) ==
  pack_I(r.name_offset) \o pack_I(r.name_length) \o pack_Q(r.data_offset)
    \o pack_Q(r.data_size) \o pack_Q(r.uncompressed_size) \o pack_I(r.compression)
    \o pack_I(r.type) \o pack_I(r.checksum) \o pack_I(r.flags)

=============================================================================
