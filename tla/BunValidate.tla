---------------------------- MODULE BunValidate ----------------------------
(* bun_validate.c. A validator is the sequence of add_error calls it makes;  *)
(* the state machine applies them to the context. The readers among them    *)
(* take "left", the number of bytes the stream delivers from where they      *)
(* seek, and "seeks", whether that fseek succeeds.                           *)
EXTENDS BunFile

CONSTANT BUFFER_SIZE        \* uint8_t buffer[4096] in validate_compression

ASSUME BufferAssumption == BUFFER_SIZE \in Nat \ {0} /\ BUFFER_SIZE % 2 = 0

is_aligned4(n) == n % 4 = 0

\* Mutant: DEL counts as printable.
PrintableWithDel == 32 .. 127

Printable == 32 .. 126      \* PRINTABLE_ASCII_MIN .. PRINTABLE_ASCII_MAX

-----------------------------------------------------------------------------
(* Header.                                                                  *)
validate_header_basic(h) ==
     Check(h.magic # BUN_MAGIC, BUN_MALFORMED, "magic", <<>>)
  \o Check(\/ h.version_major # BUN_VERSION_MAJOR
           \/ h.version_minor # BUN_VERSION_MINOR,
           BUN_UNSUPPORTED, "version", <<>>)

Alignment(h) ==
     Check(~is_aligned4(h.asset_table_offset), BUN_MALFORMED, "align", <<1>>)
  \o Check(~is_aligned4(h.string_table_offset), BUN_MALFORMED, "align", <<2>>)
  \o Check(~is_aligned4(h.string_table_size), BUN_MALFORMED, "align", <<3>>)
  \o Check(~is_aligned4(h.data_section_offset), BUN_MALFORMED, "align", <<4>>)
  \o Check(~is_aligned4(h.data_section_size), BUN_MALFORMED, "align", <<5>>)

Section(offset, size) == [offset |-> offset, size |-> size]

TableSize(h) == bun_u64_mul(h.asset_count, BUN_ASSET_RECORD_SIZE)

\* header, asset entry table, string table, data section
sections(h) ==
  << Section(0, BUN_HEADER_SIZE),
     Section(h.asset_table_offset, TableSize(h).out),
     Section(h.string_table_offset, h.string_table_size),
     Section(h.data_section_offset, h.data_section_size) >>

section_end(s) == bun_u64_add(s.offset, s.size)

\* Mutant: sections that touch overlap.
sections_touch(a, b) ==
  \/ ~section_end(a).ok \/ ~section_end(b).ok
  \/ ~(section_end(a).out < b.offset \/ section_end(b).out < a.offset)

sections_overlap(a, b) ==
  \/ ~section_end(a).ok \/ ~section_end(b).ok
  \/ ~(section_end(a).out <= b.offset \/ section_end(b).out <= a.offset)

Bounds(s, k, file_size) ==
     Check(~section_end(s).ok, BUN_MALFORMED, "end overflow", <<k>>)
  \o Check(/\ section_end(s).ok
           /\ ~check_range_within_file(s.offset, s.size, file_size),
           BUN_MALFORMED, "outside file", <<k>>)

Overlap(ss, j, k) ==
  Check(sections_overlap(ss[j], ss[k]), BUN_MALFORMED, "overlap", <<j, k>>)

\* Mutant: a section is compared with its neighbour in the header alone.
validate_header_offsets_adjacent(h, file_size) ==
  LET ss == sections(h) IN
     Alignment(h)
  \o Check(~TableSize(h).ok, BUN_MALFORMED, "table overflow", <<>>)
  \o (   Bounds(ss[1], 1, file_size) \o Bounds(ss[2], 2, file_size)
      \o Bounds(ss[3], 3, file_size) \o Bounds(ss[4], 4, file_size))
  \o Overlap(ss, 1, 2) \o Overlap(ss, 2, 3) \o Overlap(ss, 3, 4)

validate_header_offsets(h, file_size) ==
  LET ss == sections(h) IN
     Alignment(h)
  \o Check(~TableSize(h).ok, BUN_MALFORMED, "table overflow", <<>>)
  \o (   Bounds(ss[1], 1, file_size) \o Bounds(ss[2], 2, file_size)
      \o Bounds(ss[3], 3, file_size) \o Bounds(ss[4], 4, file_size))
  \o (   Overlap(ss, 1, 2) \o Overlap(ss, 1, 3) \o Overlap(ss, 1, 4)
      \o Overlap(ss, 2, 3) \o Overlap(ss, 2, 4) \o Overlap(ss, 3, 4))

-----------------------------------------------------------------------------
(* RLE payload: the 4096-byte chunk loop in one step; module BunRle has the  *)
(* loop itself and shows that it computes this.                              *)

\* Bytes in the chunks that were read whole.
WholeChunks(n, left) ==
  IF n <= left THEN n ELSE left - (left % BUFFER_SIZE)

\* The pairs, among the first n \div 2 at "from", that stop the loop.
StoppingPairs(f, from, n) ==
  {p \in 0 .. (n \div 2) - 1 :
     \/ ByteAt(f, from + 2 * p) = 0
     \/ Counts(f, from, p + 1) > UINT64_MAX}

FirstOf(S) == CHOOSE p \in S : \A q \in S : p <= q

RleVerdict(f, from, n, left, declared) ==
  LET read  == WholeChunks(n, left)
      stops == StoppingPairs(f, from, read)
      first == FirstOf(stops)
  IN  IF stops # {}
        THEN IF ByteAt(f, from + 2 * first) = 0
               THEN [what |-> "rle zero count", pos |-> 2 * first]
               ELSE [what |-> "rle expanded overflow", pos |-> 2 * first]
      ELSE IF read < n THEN [what |-> "rle read failed", pos |-> read]
      ELSE IF Counts(f, from, n \div 2) # declared
             THEN [what |-> "rle size", pos |-> n]
             ELSE [what |-> "ok", pos |-> n]

\* Mutant: a zero count is reported by its pair and not by its byte.
RleErrorsByPair(f, from, n, left, declared, i) ==
  LET v == RleVerdict(f, from, n, left, declared)
  IN  Check(v.what # "ok", BUN_MALFORMED, v.what,
            IF v.what = "rle zero count" THEN <<i, v.pos \div 2>> ELSE <<i>>)

RleErrors(f, from, n, left, declared, i) ==
  LET v == RleVerdict(f, from, n, left, declared)
  IN  Check(v.what # "ok", BUN_MALFORMED, v.what,
            IF v.what = "rle zero count" THEN <<i, v.pos>> ELSE <<i>>)

\* Bytes the loop has taken from the stream when it stops.
RleConsumed(f, from, n, left, declared) ==
  LET v   == RleVerdict(f, from, n, left, declared)
      end == (v.pos \div BUFFER_SIZE + 1) * BUFFER_SIZE
  IN  CASE v.what \in {"rle zero count", "rle expanded overflow"} ->
             IF end <= n THEN end ELSE n
        [] v.what = "rle read failed" -> left
        [] OTHER -> n

-----------------------------------------------------------------------------
(* Asset record.                                                            *)
DataStart(h, r) == bun_u64_add(h.data_section_offset, r.data_offset)
NameStart(h, r) == bun_u64_add(h.string_table_offset, r.name_offset)

\* The record makes validate_compression read its payload.
ScansPayload(h, r) ==
  /\ r.compression = BUN_COMPRESSION_RLE
  /\ r.data_size % 2 = 0
  /\ DataStart(h, r).ok /\ Seekable(DataStart(h, r).out)

validate_compression(f, h, r, i, seeks, left) ==
  CASE r.compression = BUN_COMPRESSION_NONE ->
         Check(r.uncompressed_size # 0, BUN_MALFORMED, "uncompressed size", <<i>>)
    [] r.compression = BUN_COMPRESSION_ZLIB ->
         Check(TRUE, BUN_UNSUPPORTED, "zlib", <<i>>)
    [] r.compression = BUN_COMPRESSION_RLE ->
         IF r.data_size % 2 # 0
           THEN Check(TRUE, BUN_MALFORMED, "rle odd", <<i>>)
         ELSE IF ~DataStart(h, r).ok
           THEN Check(TRUE, BUN_MALFORMED, "data offset overflow", <<i>>)
         ELSE IF ~Seekable(DataStart(h, r).out) \/ ~seeks
           THEN Check(TRUE, BUN_MALFORMED, "rle seek failed", <<i>>)
         ELSE RleErrors(f, DataStart(h, r).out, r.data_size, left,
                        r.uncompressed_size, i)
    [] OTHER -> Check(TRUE, BUN_UNSUPPORTED, "unknown compression", <<i>>)

\* Mutant: the RLE payload of a record without a good name is not looked at.
validate_asset_record_named(f, h, r, i, seeks, left) ==
  LET named == name_range_safe(h, r) IN
     Check(~named, BUN_MALFORMED,
           IF r.name_length = 0 THEN "empty name" ELSE "name range", <<i>>)
  \o Check(~data_range_safe(h, r), BUN_MALFORMED, "data range", <<i>>)
  \o Check(r.flags > BUN_ALLOWED_FLAGS, BUN_UNSUPPORTED, "flags", <<i>>)
  \o Check(r.checksum # 0, BUN_UNSUPPORTED, "checksum", <<i>>)
  \o (IF named \/ r.compression # BUN_COMPRESSION_RLE
        THEN validate_compression(f, h, r, i, seeks, left) ELSE <<>>)

validate_asset_record(f, h, r, i, seeks, left) ==
     Check(r.name_length = 0, BUN_MALFORMED, "empty name", <<i>>)
  \o Check(/\ r.name_length # 0
           /\ ~EndsBy(r.name_offset, r.name_length, h.string_table_size),
           BUN_MALFORMED, "name range", <<i>>)
  \o Check(~data_range_safe(h, r), BUN_MALFORMED, "data range", <<i>>)
  \o Check(r.flags > BUN_ALLOWED_FLAGS, BUN_UNSUPPORTED, "flags", <<i>>)
  \o Check(r.checksum # 0, BUN_UNSUPPORTED, "checksum", <<i>>)
  \o validate_compression(f, h, r, i, seeks, left)

\* Offsets in the name, among those read, of bytes that are not printable.
BadChars(f, from, n, left) ==
  {k \in 0 .. n - 1 : k < left /\ ByteAt(f, from + k) \notin Printable}

validate_asset_name(f, h, r, i, seeks, left) ==
  IF r.name_length = 0
    THEN Check(TRUE, BUN_MALFORMED, "empty name", <<i>>)
  ELSE IF ~NameStart(h, r).ok
    THEN Check(TRUE, BUN_MALFORMED, "name offset overflow", <<i>>)
  ELSE IF ~Seekable(NameStart(h, r).out) \/ ~seeks
    THEN Check(TRUE, BUN_MALFORMED, "name seek failed", <<i>>)
  ELSE LET bad == BadChars(f, NameStart(h, r).out, r.name_length, left) IN
         IF bad # {}
           THEN Check(TRUE, BUN_MALFORMED, "name byte", <<i, FirstOf(bad)>>)
           ELSE Check(left < r.name_length, BUN_MALFORMED, "name read failed", <<i>>)

\* Characters fgetc has taken from the stream when the name check stops.
NameConsumed(f, from, n, left) ==
  LET bad == BadChars(f, from, n, left)
  IN  IF bad # {} THEN FirstOf(bad) + 1 ELSE IF left < n THEN left ELSE n

=============================================================================
