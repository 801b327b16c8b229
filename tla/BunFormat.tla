----------------------------- MODULE BunFormat -----------------------------
(* What the verdicts mean, said of a file alone: unbounded integers, sets of *)
(* byte positions, no stream, no order of checks, no error list. BunParse is *)
(* judged against this module.                                              *)
EXTENDS BunFile

\* The byte positions a section covers.
Positions(offset, size) == offset .. offset + size - 1

HeaderSections(h) ==
  << [lo |-> 0, len |-> BUN_HEADER_SIZE],
     [lo |-> h.asset_table_offset, len |-> h.asset_count * BUN_ASSET_RECORD_SIZE],
     [lo |-> h.string_table_offset, len |-> h.string_table_size],
     [lo |-> h.data_section_offset, len |-> h.data_section_size] >>

Inside(s, f) == s.lo + s.len <= f.size

\* Two sections collide when they share a byte, or when an empty one lies
\* strictly inside the other.
Collide(s, t) ==
  \/ \E p \in Positions(s.lo, s.len) : t.lo <= p /\ p < t.lo + t.len
  \/ t.lo < s.lo /\ s.lo < t.lo + t.len
  \/ s.lo < t.lo /\ t.lo < s.lo + s.len

HeaderMalformed(f) ==
  LET h == f.header
      ss == HeaderSections(h)
  IN  \/ f.size < BUN_HEADER_SIZE
      \/ h.magic # BUN_MAGIC
      \/ \E n \in {h.asset_table_offset, h.string_table_offset,
                   h.string_table_size, h.data_section_offset,
                   h.data_section_size} : n % 4 # 0
      \/ \E j \in 1 .. 4 : ~Inside(ss[j], f)
      \/ \E j, k \in 1 .. 4 : j < k /\ Collide(ss[j], ss[k])

\* A version other than 1.0.
HeaderUnsupported(f) == f.header.version_major # 1 \/ f.header.version_minor # 0

-----------------------------------------------------------------------------
\* The i-th entry of the asset table.
Entry(f, i) ==
  RecordAt(f, f.header.asset_table_offset + i * BUN_ASSET_RECORD_SIZE)

NameInside(h, r) ==
  r.name_length > 0 /\ r.name_offset + r.name_length <= h.string_table_size

NamePrintable(f, r) ==
  \A k \in 0 .. r.name_length - 1 :
    ByteAt(f, f.header.string_table_offset + r.name_offset + k) \in 32 .. 126

DataInside(h, r) == r.data_offset + r.data_size <= h.data_section_size

\* The payload is whole pairs, none of count zero, that expand to the declared
\* size.
RleWellFormed(f, r) ==
  LET from == f.header.data_section_offset + r.data_offset
      pairs == r.data_size \div 2
  IN  /\ r.data_size % 2 = 0
      /\ \A p \in 0 .. pairs - 1 : ByteAt(f, from + 2 * p) # 0
      /\ Counts(f, from, pairs) = r.uncompressed_size

RecordMalformed(f, r) ==
  \/ ~NameInside(f.header, r)
  \/ ~NamePrintable(f, r)
  \/ ~DataInside(f.header, r)
  \/ r.compression = BUN_COMPRESSION_NONE /\ r.uncompressed_size # 0
  \/ r.compression = BUN_COMPRESSION_RLE /\ ~RleWellFormed(f, r)

RecordUnsupported(r) ==
  \/ r.flags > BUN_ALLOWED_FLAGS
  \/ r.checksum # 0
  \/ r.compression \notin {BUN_COMPRESSION_NONE, BUN_COMPRESSION_RLE}

\* The asset table is examined only under a header without complaint, so a
\* wrong version hides whatever is wrong with the assets.
Classify(f) ==
  IF HeaderMalformed(f) THEN BUN_MALFORMED
  ELSE IF HeaderUnsupported(f) THEN BUN_UNSUPPORTED
  ELSE LET indices == 0 .. f.header.asset_count - 1 IN
       IF \E i \in indices : RecordMalformed(f, Entry(f, i)) THEN BUN_MALFORMED
       ELSE IF \E i \in indices : RecordUnsupported(Entry(f, i)) THEN BUN_UNSUPPORTED
       ELSE BUN_OK

=============================================================================
