-------------------------- MODULE BunChecks_proofs --------------------------
(* The checks against the format, both ways: what they pass breaks no rule   *)
(* of BunFormat, and what they complain of breaks one. Hence what            *)
(* bun_parse_header and the loop of bun_parse_assets make of a whole file.   *)
EXTENDS BunCalls, BunValidate_proofs

-----------------------------------------------------------------------------
(* The header.                                                              *)

\* Two rows of messages make one; it has a code when one of them has it.
LEMMA RowConcat ==
  \A s, t \in Seq(Error) :
    /\ s \o t \in Seq(Error)
    /\ \A c : Has(s \o t, c) <=> Has(s, c) \/ Has(t, c)
BY ConcatType, HasConcat

\* The same for four rows, as the section checks make them.
LEMMA RowOfFour ==
  ASSUME NEW a \in Seq(Error), NEW b \in Seq(Error), NEW c \in Seq(Error),
         NEW d \in Seq(Error)
  PROVE  /\ a \o b \o c \o d \in Seq(Error)
         /\ \A code : Has(a \o b \o c \o d, code) <=>
              Has(a, code) \/ Has(b, code) \/ Has(c, code) \/ Has(d, code)
<1>1. a \o b \in Seq(Error) /\ \A code : Has(a \o b, code) <=> Has(a, code) \/ Has(b, code)
  BY RowConcat, Zenon
<1>2. /\ a \o b \o c \in Seq(Error)
      /\ \A code : Has(a \o b \o c, code) <=> Has(a \o b, code) \/ Has(c, code)
  BY <1>1, RowConcat, Zenon
<1>3. /\ a \o b \o c \o d \in Seq(Error)
      /\ \A code : Has(a \o b \o c \o d, code) <=> Has(a \o b \o c, code) \/ Has(d, code)
  BY <1>2, RowConcat, Zenon
<1>4. QED BY <1>1, <1>2, <1>3, Zenon

\* The two verdict codes are told apart.
LEMMA CodesDiffer == BUN_MALFORMED # BUN_UNSUPPORTED
BY DEF BUN_MALFORMED, BUN_UNSUPPORTED

\* validate_header_basic complains just when magic or version is wrong.
LEMMA BasicSound ==
  ASSUME NEW h \in BunHeader
  PROVE  /\ Has(validate_header_basic(h), BUN_MALFORMED) <=> h.magic # BUN_MAGIC
         /\ Has(validate_header_basic(h), BUN_UNSUPPORTED) <=>
              h.version_major # 1 \/ h.version_minor # 0
<1> DEFINE m == Check(h.magic # BUN_MAGIC, BUN_MALFORMED, "magic", <<>>)
           v == Check(h.version_major # BUN_VERSION_MAJOR
                        \/ h.version_minor # BUN_VERSION_MINOR,
                      BUN_UNSUPPORTED, "version", <<>>)
<1>1. m \in Seq(Error) /\ v \in Seq(Error)
  BY CheckType, PlaceType DEF Complaint
<1>2. Has(m, BUN_MALFORMED) <=> h.magic # BUN_MAGIC
  BY HasCheck, Zenon
<1>3. ~Has(m, BUN_UNSUPPORTED) /\ ~Has(v, BUN_MALFORMED)
  BY HasCheck, CodesDiffer, Zenon
<1>4. Has(v, BUN_UNSUPPORTED) <=>
        h.version_major # BUN_VERSION_MAJOR \/ h.version_minor # BUN_VERSION_MINOR
  BY HasCheck, Zenon
<1>5. validate_header_basic(h) = m \o v
  BY DEF validate_header_basic
<1> HIDE DEF m, v
<1>6. \A c : Has(m \o v, c) <=> Has(m, c) \/ Has(v, c)
  BY <1>1, RowConcat, Zenon
<1>7. QED BY <1>2, <1>3, <1>4, <1>5, <1>6 DEF BUN_VERSION_MAJOR, BUN_VERSION_MINOR

\* The alignment checks complain just when a field is not a multiple of 4.
LEMMA AlignmentSound ==
  ASSUME NEW h \in BunHeader
  PROVE  /\ Has(Alignment(h), BUN_MALFORMED) <=>
              \E n \in {h.asset_table_offset, h.string_table_offset,
                        h.string_table_size, h.data_section_offset,
                        h.data_section_size} : n % 4 # 0
         /\ ~Has(Alignment(h), BUN_UNSUPPORTED)
<1> DEFINE a(n, k) == Check(~is_aligned4(n), BUN_MALFORMED, "align", <<k>>)
<1>1. \A n, k \in Nat : a(n, k) \in Seq(Error)
  BY CheckType, PlaceType DEF Complaint
<1>2. \A n, k : Has(a(n, k), BUN_MALFORMED) <=> ~is_aligned4(n)
  BY HasCheck, Zenon
<1>3. \A n, k : ~Has(a(n, k), BUN_UNSUPPORTED)
  BY HasCheck, CodesDiffer, Zenon
<1>4. Alignment(h) =
        a(h.asset_table_offset, 1) \o a(h.string_table_offset, 2)
          \o a(h.string_table_size, 3) \o a(h.data_section_offset, 4)
          \o a(h.data_section_size, 5)
  BY DEF Alignment
<1> HIDE DEF a
<1>5. /\ a(h.asset_table_offset, 1) \in Seq(Error)
      /\ a(h.string_table_offset, 2) \in Seq(Error)
      /\ a(h.string_table_size, 3) \in Seq(Error)
      /\ a(h.data_section_offset, 4) \in Seq(Error)
      /\ a(h.data_section_size, 5) \in Seq(Error)
  <2>1. /\ h.asset_table_offset \in Nat /\ h.string_table_offset \in Nat
        /\ h.string_table_size \in Nat /\ h.data_section_offset \in Nat
        /\ h.data_section_size \in Nat
    BY WidthAssumption DEF BunHeader, u64
  <2>2. 1 \in Nat /\ 2 \in Nat /\ 3 \in Nat /\ 4 \in Nat /\ 5 \in Nat
    OBVIOUS
  <2>3. QED BY <1>1, <2>1, <2>2, Zenon
<1>6. \A c : Has(Alignment(h), c) <=>
        \/ Has(a(h.asset_table_offset, 1), c) \/ Has(a(h.string_table_offset, 2), c)
        \/ Has(a(h.string_table_size, 3), c) \/ Has(a(h.data_section_offset, 4), c)
        \/ Has(a(h.data_section_size, 5), c)
  <2> DEFINE row == a(h.asset_table_offset, 1) \o a(h.string_table_offset, 2)
                      \o a(h.string_table_size, 3) \o a(h.data_section_offset, 4)
  <2>1. /\ row \in Seq(Error)
        /\ \A c : Has(row, c) <=>
             \/ Has(a(h.asset_table_offset, 1), c) \/ Has(a(h.string_table_offset, 2), c)
             \/ Has(a(h.string_table_size, 3), c) \/ Has(a(h.data_section_offset, 4), c)
    BY <1>5, RowOfFour
  <2>2. Alignment(h) = row \o a(h.data_section_size, 5)
    BY <1>4
  <2> HIDE DEF row
  <2>3. \A c : Has(row \o a(h.data_section_size, 5), c) <=>
          Has(row, c) \/ Has(a(h.data_section_size, 5), c)
    <3>1. row \in Seq(Error)
      BY <2>1
    <3>2. a(h.data_section_size, 5) \in Seq(Error)
      BY <1>5
    <3>3. QED BY <3>1, <3>2, RowConcat, Zenon
  <2>4. QED BY <2>1, <2>2, <2>3, Zenon
<1>7. QED BY <1>2, <1>3, <1>6 DEF is_aligned4

\* The end of a section, in unbounded arithmetic.
LEMMA EndExact ==
  ASSUME NEW s \in SectionType
  PROVE  /\ section_end(s).ok <=> s.offset + s.size <= UINT64_MAX
         /\ section_end(s).ok => section_end(s).out = s.offset + s.size
<1>1. s.offset + s.size \in Nat
  BY WidthAssumption DEF SectionType, u64
<1>2. section_end(s) = Saturating(s.offset + s.size)
  BY DEF section_end, bun_u64_add
<1>3. QED BY <1>1, <1>2, SaturatingExact

\* A section without a bounds complaint lies in the file.
LEMMA BoundsSound ==
  ASSUME NEW s \in SectionType, NEW k \in 1 .. 4, NEW size \in offset_t
  PROVE  /\ Has(Bounds(s, k, size), BUN_MALFORMED) <=> ~(s.offset + s.size <= size)
         /\ ~Has(Bounds(s, k, size), BUN_UNSUPPORTED)
<1> DEFINE b == Check(~section_end(s).ok, BUN_MALFORMED, "end overflow", <<k>>)
           c == Check(section_end(s).ok /\ ~check_range_within_file(s.offset, s.size, size),
                      BUN_MALFORMED, "outside file", <<k>>)
<1>1. b \in Seq(Error) /\ c \in Seq(Error)
  <2>1. <<k>> \in Seq(Nat)
    OBVIOUS
  <2>2. QED BY <2>1, CheckType DEF Complaint
<1>2. Has(b, BUN_MALFORMED) <=> ~section_end(s).ok
  BY HasCheck, Zenon
<1>3. Has(c, BUN_MALFORMED) <=>
        section_end(s).ok /\ ~check_range_within_file(s.offset, s.size, size)
  BY HasCheck, Zenon
<1>4. ~Has(b, BUN_UNSUPPORTED) /\ ~Has(c, BUN_UNSUPPORTED)
  BY HasCheck, CodesDiffer, Zenon
<1>5. Bounds(s, k, size) = b \o c
  BY DEF Bounds
<1> HIDE DEF b, c
<1>6. \A code : Has(b \o c, code) <=> Has(b, code) \/ Has(c, code)
  BY <1>1, RowConcat, Zenon
<1>7. s.offset \in Nat /\ s.size \in Nat /\ size <= UINT64_MAX /\ size \in Nat
  BY WidthAssumption DEF SectionType, u64, offset_t
<1>8. check_range_within_file(s.offset, s.size, size) <=> s.offset + s.size <= size
  BY <1>7, EndsByExact DEF check_range_within_file
<1>9. s.offset + s.size <= size => section_end(s).ok
  BY <1>7, EndExact, WidthAssumption
<1>10. QED BY <1>2, <1>3, <1>4, <1>5, <1>6, <1>8, <1>9

\* An overlap check complains just when sections_overlap says so.
LEMMA OverlapHas ==
  ASSUME NEW ss, NEW j, NEW k
  PROVE  Has(Overlap(ss, j, k), BUN_MALFORMED) <=> sections_overlap(ss[j], ss[k])
<1>1. CASE sections_overlap(ss[j], ss[k])
  BY <1>1 DEF Overlap, Has, Check
<1>2. CASE ~sections_overlap(ss[j], ss[k])
  BY <1>2 DEF Overlap, Has, Check
<1>3. QED BY <1>1, <1>2

\* Sections that end within the width and do not overlap do not collide.
LEMMA OverlapSound ==
  ASSUME NEW ss, NEW j \in 1 .. 4, NEW k \in 1 .. 4,
         ss[j] \in SectionType, ss[k] \in SectionType
  PROVE  /\ ~Has(Overlap(ss, j, k), BUN_MALFORMED) =>
              ~Collide([lo |-> ss[j].offset, len |-> ss[j].size],
                       [lo |-> ss[k].offset, len |-> ss[k].size])
         /\ ~Has(Overlap(ss, j, k), BUN_UNSUPPORTED)
<1>1. Has(Overlap(ss, j, k), BUN_MALFORMED) <=> sections_overlap(ss[j], ss[k])
  BY OverlapHas
<1>2. ~Has(Overlap(ss, j, k), BUN_UNSUPPORTED)
  BY HasCheck, CodesDiffer, Zenon DEF Overlap
<1>3. ~sections_overlap(ss[j], ss[k]) =>
        \/ ss[j].offset + ss[j].size <= ss[k].offset
        \/ ss[k].offset + ss[k].size <= ss[j].offset
  BY EndExact DEF sections_overlap
<1>4. \A a, m, b, n \in Nat :
        a + m <= b \/ b + n <= a =>
          ~Collide([lo |-> a, len |-> m], [lo |-> b, len |-> n])
  BY DEF Collide, Positions
<1>5. /\ ss[j].offset \in Nat /\ ss[j].size \in Nat
      /\ ss[k].offset \in Nat /\ ss[k].size \in Nat
  BY WidthAssumption DEF SectionType, u64
<1>6. QED BY <1>1, <1>2, <1>3, <1>4, <1>5

\* Sections that end within the width and overlap do collide.
LEMMA OverlapComplete ==
  ASSUME NEW ss, NEW j \in 1 .. 4, NEW k \in 1 .. 4,
         ss[j] \in SectionType, ss[k] \in SectionType,
         ss[j].offset + ss[j].size <= UINT64_MAX,
         ss[k].offset + ss[k].size <= UINT64_MAX,
         Has(Overlap(ss, j, k), BUN_MALFORMED)
  PROVE  Collide([lo |-> ss[j].offset, len |-> ss[j].size],
                 [lo |-> ss[k].offset, len |-> ss[k].size])
<1>1. sections_overlap(ss[j], ss[k])
  BY OverlapHas
<1>2. /\ ss[j].offset \in Nat /\ ss[j].size \in Nat
      /\ ss[k].offset \in Nat /\ ss[k].size \in Nat
  BY WidthAssumption DEF SectionType, u64
<1>3. /\ ss[k].offset < ss[j].offset + ss[j].size
      /\ ss[j].offset < ss[k].offset + ss[k].size
  BY <1>1, <1>2, EndExact DEF sections_overlap
<1>4. \A a, m, b, n \in Nat :
        b < a + m /\ a < b + n => Collide([lo |-> a, len |-> m], [lo |-> b, len |-> n])
  <2>1. SUFFICES ASSUME NEW a \in Nat, NEW m \in Nat, NEW b \in Nat, NEW n \in Nat,
                        b < a + m, a < b + n
                 PROVE  Collide([lo |-> a, len |-> m], [lo |-> b, len |-> n])
    OBVIOUS
  <2>2. a = b => a \in Positions(a, m)
    BY <2>1 DEF Positions
  <2>3. QED BY <2>1, <2>2 DEF Collide
<1>5. QED BY <1>2, <1>3, <1>4

\* The offset checks complain just when the header breaks a rule about its
\* sections, and nothing they say is BUN_UNSUPPORTED.
LEMMA OffsetsExact ==
  ASSUME NEW f, f.header \in BunHeader, f.size \in offset_t
  PROVE  /\ ~Has(validate_header_offsets(f.header, f.size), BUN_MALFORMED)
                /\ f.header.magic = BUN_MAGIC /\ f.size >= BUN_HEADER_SIZE
              => ~HeaderMalformed(f)
         /\ Has(validate_header_offsets(f.header, f.size), BUN_MALFORMED)
              => HeaderMalformed(f)
         /\ ~Has(validate_header_offsets(f.header, f.size), BUN_UNSUPPORTED)
<1> DEFINE h == f.header
           ss == sections(h)
           t == Check(~TableSize(h).ok, BUN_MALFORMED, "table overflow", <<>>)
           b(k) == Bounds(ss[k], k, f.size)
           bounds == b(1) \o b(2) \o b(3) \o b(4)
           early == Overlap(ss, 1, 2) \o Overlap(ss, 1, 3) \o Overlap(ss, 1, 4)
                      \o Overlap(ss, 2, 3)
           overlaps == early \o Overlap(ss, 2, 4) \o Overlap(ss, 3, 4)
           all == validate_header_offsets(h, f.size)
<1>1. \A k \in 1 .. 4 : ss[k] \in SectionType
  BY SectionsType
<1>2. t \in Seq(Error) /\ ~Has(t, BUN_UNSUPPORTED)
  <2>1. t \in Seq(Error)
    BY CheckType, PlaceType DEF Complaint
  <2>2. \A bad : ~Has(Check(bad, BUN_MALFORMED, "table overflow", <<>>), BUN_UNSUPPORTED)
    BY HasCheck, CodesDiffer, Zenon
  <2>3. QED BY <2>1, <2>2, Zenon
<1>3. /\ bounds \in Seq(Error)
      /\ \A c : Has(bounds, c) <=> \E k \in 1 .. 4 : Has(b(k), c)
  <2>1. \A k \in 1 .. 4 : b(k) \in Seq(Error)
    BY <1>1, BoundsType
  <2> HIDE DEF b
  <2>2. b(1) \in Seq(Error) /\ b(2) \in Seq(Error) /\ b(3) \in Seq(Error) /\ b(4) \in Seq(Error)
    BY <2>1
  <2>3. /\ bounds \in Seq(Error)
        /\ \A c : Has(bounds, c) <=> Has(b(1), c) \/ Has(b(2), c) \/ Has(b(3), c) \/ Has(b(4), c)
    BY <2>2, RowOfFour
  <2>4. \A k \in 1 .. 4 : k = 1 \/ k = 2 \/ k = 3 \/ k = 4
    OBVIOUS
  <2>5. 1 \in 1 .. 4 /\ 2 \in 1 .. 4 /\ 3 \in 1 .. 4 /\ 4 \in 1 .. 4
    OBVIOUS
  <2> HIDE DEF bounds
  <2>6. QED BY <2>3, <2>4, <2>5, Zenon
<1>4. /\ overlaps \in Seq(Error)
      /\ \A c : Has(overlaps, c) <=>
           \E j, k \in 1 .. 4 : j < k /\ Has(Overlap(ss, j, k), c)
  <2> DEFINE o(j, k) == Overlap(ss, j, k)
  <2>1. \A j, k \in 1 .. 4 : o(j, k) \in Seq(Error)
    BY OverlapType
  <2> HIDE DEF o
  <2>2. /\ o(1, 2) \in Seq(Error) /\ o(1, 3) \in Seq(Error) /\ o(1, 4) \in Seq(Error)
        /\ o(2, 3) \in Seq(Error) /\ o(2, 4) \in Seq(Error) /\ o(3, 4) \in Seq(Error)
    BY <2>1
  <2>3. early = o(1, 2) \o o(1, 3) \o o(1, 4) \o o(2, 3)
    BY DEF o
  <2> HIDE DEF early
  <2>4. /\ early \in Seq(Error)
        /\ \A c : Has(early, c) <=>
             Has(o(1, 2), c) \/ Has(o(1, 3), c) \/ Has(o(1, 4), c) \/ Has(o(2, 3), c)
    BY <2>2, <2>3, RowOfFour
  <2>5. overlaps = early \o o(2, 4) \o o(3, 4)
    BY DEF o
  <2> HIDE DEF overlaps
  <2> DEFINE most == early \o o(2, 4)
  <2>6. /\ most \in Seq(Error)
        /\ \A c : Has(most, c) <=> Has(early, c) \/ Has(o(2, 4), c)
    <3>1. early \in Seq(Error)
      BY <2>4
    <3>2. o(2, 4) \in Seq(Error)
      BY <2>2
    <3>3. QED BY <3>1, <3>2, RowConcat, Zenon
  <2> HIDE DEF most
  <2>7. /\ overlaps \in Seq(Error)
        /\ \A c : Has(overlaps, c) <=> Has(most, c) \/ Has(o(3, 4), c)
    <3>1. most \in Seq(Error)
      BY <2>6
    <3>2. o(3, 4) \in Seq(Error)
      BY <2>2
    <3>3. overlaps = most \o o(3, 4)
      BY <2>5 DEF most
    <3>4. QED BY <3>1, <3>2, <3>3, RowConcat, Zenon
  <2>8. \A c : Has(overlaps, c) <=>
          \/ Has(o(1, 2), c) \/ Has(o(1, 3), c) \/ Has(o(1, 4), c)
          \/ Has(o(2, 3), c) \/ Has(o(2, 4), c) \/ Has(o(3, 4), c)
    BY <2>4, <2>6, <2>7, Zenon
  <2>9. \A c : Has(overlaps, c) <=> \E j, k \in 1 .. 4 : j < k /\ Has(o(j, k), c)
    <3>1. \A j, k \in 1 .. 4 : j < k <=>
            \/ j = 1 /\ k = 2
            \/ j = 1 /\ k = 3
            \/ j = 1 /\ k = 4
            \/ j = 2 /\ k = 3
            \/ j = 2 /\ k = 4
            \/ j = 3 /\ k = 4
      OBVIOUS
    <3>2. 1 \in 1 .. 4 /\ 2 \in 1 .. 4 /\ 3 \in 1 .. 4 /\ 4 \in 1 .. 4
      OBVIOUS
    <3>3. QED BY <2>8, <3>1, <3>2, Zenon
  <2>10. QED BY <2>7, <2>9 DEF o
<1>5. Alignment(h) \in Seq(Error)
  BY AlignmentType
<1>6. all = Alignment(h) \o t \o bounds \o overlaps
  BY DEF validate_header_offsets
<1> HIDE DEF t, bounds, early, overlaps, all
<1>7. \A c : Has(all, c) <=>
        Has(Alignment(h), c) \/ Has(t, c) \/ Has(bounds, c) \/ Has(overlaps, c)
  BY <1>2, <1>3, <1>4, <1>5, <1>6, RowOfFour
<1>8. ~Has(all, BUN_UNSUPPORTED)
  <2>1. ~Has(Alignment(h), BUN_UNSUPPORTED)
    BY AlignmentSound
  <2>2. ~Has(bounds, BUN_UNSUPPORTED)
    BY <1>1, <1>3, BoundsSound
  <2>3. ~Has(overlaps, BUN_UNSUPPORTED)
    BY <1>1, <1>4, OverlapSound
  <2>4. QED BY <1>2, <1>7, <2>1, <2>2, <2>3
<1> DEFINE hs == HeaderSections(h)
<1>9. \A k \in 1 .. 4 : hs[k] = [lo |-> ss[k].offset, len |-> ss[k].size]
  <2>1. /\ hs[1] = [lo |-> 0, len |-> BUN_HEADER_SIZE]
        /\ hs[2] = [lo |-> h.asset_table_offset,
                    len |-> h.asset_count * BUN_ASSET_RECORD_SIZE]
        /\ hs[3] = [lo |-> h.string_table_offset, len |-> h.string_table_size]
        /\ hs[4] = [lo |-> h.data_section_offset, len |-> h.data_section_size]
    BY DEF HeaderSections
  <2> HIDE DEF hs
  <2>2. /\ ss[1].offset = 0 /\ ss[1].size = BUN_HEADER_SIZE
        /\ ss[2].offset = h.asset_table_offset
        /\ ss[2].size = h.asset_count * BUN_ASSET_RECORD_SIZE
        /\ ss[3].offset = h.string_table_offset /\ ss[3].size = h.string_table_size
        /\ ss[4].offset = h.data_section_offset /\ ss[4].size = h.data_section_size
    <3>1. /\ ss[1] = Section(0, BUN_HEADER_SIZE)
          /\ ss[2] = Section(h.asset_table_offset, TableSize(h).out)
          /\ ss[3] = Section(h.string_table_offset, h.string_table_size)
          /\ ss[4] = Section(h.data_section_offset, h.data_section_size)
      BY SectionsType
    <3>2. TableSize(h).out = h.asset_count * BUN_ASSET_RECORD_SIZE
      BY TableSizeExact
    <3> HIDE DEF ss
    <3>3. QED BY <3>1, <3>2 DEF Section
  <2> HIDE DEF ss
  <2>3. QED BY <2>1, <2>2
<1> HIDE DEF hs
<1>10. ASSUME ~Has(all, BUN_MALFORMED), h.magic = BUN_MAGIC, f.size >= BUN_HEADER_SIZE
      PROVE  ~HeaderMalformed(f)
  <2>2. \A n \in {h.asset_table_offset, h.string_table_offset, h.string_table_size,
                  h.data_section_offset, h.data_section_size} : n % 4 = 0
    BY <1>7, <1>10, AlignmentSound
  <2>3. \A k \in 1 .. 4 : Inside(hs[k], f)
    <3>1. \A k \in 1 .. 4 : ss[k].offset + ss[k].size <= f.size
      BY <1>1, <1>3, <1>7, <1>10, BoundsSound
    <3>2. QED BY <1>9, <3>1 DEF Inside
  <2>4. \A j, k \in 1 .. 4 : j < k => ~Collide(hs[j], hs[k])
    <3>1. \A j, k \in 1 .. 4 : j < k => ~Has(Overlap(ss, j, k), BUN_MALFORMED)
      BY <1>4, <1>7, <1>10
    <3>2. QED BY <1>1, <1>9, <3>1, OverlapSound
  <2>5. ~(f.size < BUN_HEADER_SIZE)
    BY <1>10, WidthAssumption DEF offset_t
  <2>6. QED BY <1>10, <2>2, <2>3, <2>4, <2>5 DEF HeaderMalformed, hs
<1>11. ASSUME Has(all, BUN_MALFORMED) PROVE HeaderMalformed(f)
  <2>1. CASE Has(Alignment(h), BUN_MALFORMED)
    <3>1. \E n \in {h.asset_table_offset, h.string_table_offset, h.string_table_size,
                    h.data_section_offset, h.data_section_size} : n % 4 # 0
      BY <2>1, AlignmentSound
    <3>2. QED BY <3>1, Zenon DEF HeaderMalformed
  <2>2. ~Has(t, BUN_MALFORMED)
    <3>1. TableSize(h).ok
      BY TableSizeExact
    <3>2. QED BY <3>1 DEF t, Check, Has
  <2>3. CASE \E k \in 1 .. 4 : ~(ss[k].offset + ss[k].size <= f.size)
    <3>1. \E k \in 1 .. 4 : ~Inside(hs[k], f)
      BY <1>9, <2>3 DEF Inside
    <3>2. QED BY <3>1, Zenon DEF HeaderMalformed, hs
  <2>4. CASE /\ \A k \in 1 .. 4 : ss[k].offset + ss[k].size <= f.size
             /\ Has(overlaps, BUN_MALFORMED)
    <3>1. PICK j \in 1 .. 4, k \in 1 .. 4 : j < k /\ Has(Overlap(ss, j, k), BUN_MALFORMED)
      BY <1>4, <2>4
    <3>2. f.size \in Nat /\ f.size <= UINT64_MAX
      BY WidthAssumption DEF offset_t
    <3>3. \A l \in 1 .. 4 : ss[l].offset \in Nat /\ ss[l].size \in Nat
      BY <1>1, WidthAssumption DEF SectionType, u64
    <3> HIDE DEF ss, hs
    <3>4. /\ ss[j].offset + ss[j].size <= UINT64_MAX
          /\ ss[k].offset + ss[k].size <= UINT64_MAX
      BY <2>4, <3>2, <3>3, WidthAssumption
    <3>5. Collide(hs[j], hs[k])
      BY <1>1, <1>9, <3>1, <3>4, OverlapComplete
    <3>6. QED BY <3>1, <3>5, Zenon DEF HeaderMalformed, hs
  <2>5. Has(bounds, BUN_MALFORMED) =>
          \E k \in 1 .. 4 : ~(ss[k].offset + ss[k].size <= f.size)
    BY <1>1, <1>3, BoundsSound
  <2>6. QED BY <1>7, <1>11, <2>1, <2>2, <2>3, <2>4, <2>5
<1>12. QED BY <1>8, <1>10, <1>11 DEF all

\* The header checks together, as bun_parse_header runs them.
LEMMA HeaderExact ==
  ASSUME NEW f, f.header \in BunHeader, f.size \in offset_t, f.size >= BUN_HEADER_SIZE
  PROVE  LET es == validate_header_basic(f.header)
                     \o validate_header_offsets(f.header, f.size) IN
         /\ es \in Seq(Error)
         /\ Has(es, BUN_MALFORMED) <=> HeaderMalformed(f)
         /\ Has(es, BUN_UNSUPPORTED) <=> HeaderUnsupported(f)
<1> DEFINE b == validate_header_basic(f.header)
           o == validate_header_offsets(f.header, f.size)
<1>1. b \in Seq(Error) /\ o \in Seq(Error)
  BY HeaderBasicType, HeaderOffsetsType
<1>2. /\ Has(b, BUN_MALFORMED) <=> f.header.magic # BUN_MAGIC
      /\ Has(b, BUN_UNSUPPORTED) <=> HeaderUnsupported(f)
  BY BasicSound DEF HeaderUnsupported
<1>3. /\ ~Has(o, BUN_MALFORMED) /\ f.header.magic = BUN_MAGIC => ~HeaderMalformed(f)
      /\ Has(o, BUN_MALFORMED) => HeaderMalformed(f)
      /\ ~Has(o, BUN_UNSUPPORTED)
  BY OffsetsExact
<1> HIDE DEF b, o
<1>4. b \o o \in Seq(Error) /\ \A c : Has(b \o o, c) <=> Has(b, c) \/ Has(o, c)
  BY <1>1, RowConcat, Zenon
<1>5. f.header.magic # BUN_MAGIC => HeaderMalformed(f)
  BY DEF HeaderMalformed
<1>6. QED BY <1>2, <1>3, <1>4, <1>5 DEF b, o

-----------------------------------------------------------------------------
(* What the checks complain of is wrong: the converses of the lemmas behind  *)
(* ParseInvariant.                                                          *)

\* Under a good header every section ends with the file or before.
LEMMA GoodSections ==
  ASSUME NEW f, IsFile(f), ~HeaderMalformed(f)
  PROVE  /\ f.size \in Nat /\ f.size <= LONG_MAX /\ f.size < UINT64_MAX
         /\ BUN_HEADER_SIZE <= f.size
         /\ f.header.asset_table_offset + f.header.asset_count * BUN_ASSET_RECORD_SIZE
              <= f.size
         /\ f.header.string_table_offset + f.header.string_table_size <= f.size
         /\ f.header.data_section_offset + f.header.data_section_size <= f.size
<1> DEFINE hs == HeaderSections(f.header)
<1>1. /\ hs[2].lo + hs[2].len =
             f.header.asset_table_offset + f.header.asset_count * BUN_ASSET_RECORD_SIZE
      /\ hs[3].lo + hs[3].len = f.header.string_table_offset + f.header.string_table_size
      /\ hs[4].lo + hs[4].len = f.header.data_section_offset + f.header.data_section_size
  BY DEF HeaderSections
<1>2. \A k \in 1 .. 4 : Inside(hs[k], f)
  BY Zenon DEF HeaderMalformed
<1> HIDE DEF hs
<1>3. \A k \in 1 .. 4 : hs[k].lo + hs[k].len <= f.size
  BY <1>2 DEF Inside
<1>4. 2 \in 1 .. 4 /\ 3 \in 1 .. 4 /\ 4 \in 1 .. 4
  OBVIOUS
<1>5. /\ hs[2].lo + hs[2].len <= f.size /\ hs[3].lo + hs[3].len <= f.size
      /\ hs[4].lo + hs[4].len <= f.size
  BY <1>3, <1>4, Zenon
<1>6. f.size \in Nat /\ f.size <= LONG_MAX /\ f.size < UINT64_MAX
  BY WidthAssumption DEF IsFile, offset_t
<1>7. BUN_HEADER_SIZE <= f.size
  BY <1>6, WidthAssumption DEF HeaderMalformed
<1>8. QED BY <1>1, <1>5, <1>6, <1>7

\* The range checks decide what they are meant to.
LEMMA RangesExact ==
  ASSUME NEW h \in BunHeader, NEW r \in BunAssetRecord
  PROVE  /\ name_range_safe(h, r) <=> NameInside(h, r)
         /\ data_range_safe(h, r) <=> DataInside(h, r)
<1>1. EndsBy(r.name_offset, r.name_length, h.string_table_size) <=>
        r.name_offset + r.name_length <= h.string_table_size
  BY EndsByExact, FieldTypes
<1>2. EndsBy(r.data_offset, r.data_size, h.data_section_size) <=>
        r.data_offset + r.data_size <= h.data_section_size
  BY EndsByExact, FieldTypes
<1>3. QED BY <1>1, <1>2 DEF name_range_safe, NameInside, data_range_safe, DataInside

\* A place below the end of a file is an offset that fseek takes.
LEMMA Reachable ==
  ASSUME NEW n \in Nat, n <= LONG_MAX
  PROVE  Saturating(n).ok /\ Saturating(n).out = n /\ Seekable(Saturating(n).out)
<1>1. n <= UINT64_MAX
  BY WidthAssumption
<1>2. Saturating(n).ok /\ Saturating(n).out = n
  BY <1>1, SaturatingExact
<1>3. QED BY <1>2 DEF Seekable

\* A name inside its section can be sought, and ends with the section;
LEMMA NameReach ==
  ASSUME NEW f, IsFile(f), ~HeaderMalformed(f), NEW r \in BunAssetRecord,
         NameInside(f.header, r)
  PROVE  LET from == NameStart(f.header, r) IN
         /\ from.ok /\ Seekable(from.out)
         /\ from.out = f.header.string_table_offset + r.name_offset
         /\ from.out + r.name_length
              <= f.header.string_table_offset + f.header.string_table_size
         /\ from.out + r.name_length <= f.size
<1> DEFINE h == f.header
           n == h.string_table_offset + r.name_offset
<1>1. h \in BunHeader
  BY DEF IsFile
<1>2. /\ h.string_table_offset \in Nat /\ r.name_offset \in Nat /\ r.name_length \in Nat
      /\ h.string_table_size \in Nat
  BY <1>1, FieldTypes
<1>3. /\ r.name_offset + r.name_length <= h.string_table_size
      /\ h.string_table_offset + h.string_table_size <= f.size
      /\ f.size \in Nat /\ f.size <= LONG_MAX /\ LONG_MAX \in Nat
  BY GoodSections, WidthAssumption DEF NameInside
<1>4. /\ n \in Nat /\ n <= LONG_MAX
      /\ n + r.name_length <= h.string_table_offset + h.string_table_size
      /\ n + r.name_length <= f.size
  BY <1>2, <1>3
<1> HIDE DEF n
<1>5. NameStart(h, r) = Saturating(n)
  BY DEF NameStart, bun_u64_add, n
<1>6. QED BY <1>4, <1>5, Reachable DEF n

\* and so does a payload.
LEMMA DataReach ==
  ASSUME NEW f, IsFile(f), ~HeaderMalformed(f), NEW r \in BunAssetRecord,
         DataInside(f.header, r)
  PROVE  LET from == DataStart(f.header, r) IN
         /\ from.ok /\ Seekable(from.out)
         /\ from.out = f.header.data_section_offset + r.data_offset
         /\ from.out + r.data_size
              <= f.header.data_section_offset + f.header.data_section_size
         /\ from.out + r.data_size <= f.size
<1> DEFINE h == f.header
           n == h.data_section_offset + r.data_offset
<1>1. h \in BunHeader
  BY DEF IsFile
<1>2. /\ h.data_section_offset \in Nat /\ r.data_offset \in Nat /\ r.data_size \in Nat
      /\ h.data_section_size \in Nat
  BY <1>1, FieldTypes
<1>3. /\ r.data_offset + r.data_size <= h.data_section_size
      /\ h.data_section_offset + h.data_section_size <= f.size
      /\ f.size \in Nat /\ f.size <= LONG_MAX /\ LONG_MAX \in Nat
  BY GoodSections, WidthAssumption DEF DataInside
<1>4. /\ n \in Nat /\ n <= LONG_MAX
      /\ n + r.data_size <= h.data_section_offset + h.data_section_size
      /\ n + r.data_size <= f.size
  BY <1>2, <1>3
<1> HIDE DEF n
<1>5. DataStart(h, r) = Saturating(n)
  BY DEF DataStart, bun_u64_add, n
<1>6. QED BY <1>4, <1>5, Reachable DEF n

\* An RLE payload that was read whole is complained of only if it is wrong: a
\* sum that overflows a u64 cannot be the declared size.
LEMMA RleComplete ==
  ASSUME NEW f, IsFile(f), NEW from \in Nat, NEW n \in Nat, NEW left \in Nat, n <= left,
         NEW declared \in Nat, declared <= UINT64_MAX,
         RleVerdict(f, from, n, left, declared).what # "ok"
  PROVE  ~Expands(f, from, n, declared)
<1> DEFINE stops == StoppingPairs(f, from, n)
           v == RleVerdict(f, from, n, left, declared)
<1>1. WholeChunks(n, left) = n /\ ~(n < n)
  BY DEF WholeChunks
<1>2. CASE stops = {}
  <2>1. v = IF Counts(f, from, n \div 2) # declared
              THEN [what |-> "rle size", pos |-> n] ELSE [what |-> "ok", pos |-> n]
    BY <1>1, <1>2 DEF RleVerdict
  <2> HIDE DEF v
  <2>2. v.what # "ok"
    BY DEF v
  <2>3. Counts(f, from, n \div 2) # declared
    BY <2>1, <2>2
  <2>4. QED BY <2>3 DEF Expands
<1>3. CASE stops # {}
  <2>1. PICK p \in 0 .. (n \div 2) - 1 :
          ByteAt(f, from + 2 * p) = 0 \/ Counts(f, from, p + 1) > UINT64_MAX
    BY <1>3 DEF StoppingPairs
  <2>2. CASE ByteAt(f, from + 2 * p) = 0
    BY <2>2 DEF Expands
  <2>3. CASE Counts(f, from, p + 1) > UINT64_MAX
    <3>1. p + 1 \in Nat /\ n \div 2 \in Nat /\ p + 1 <= n \div 2
      OBVIOUS
    <3>2. Counts(f, from, p + 1) <= Counts(f, from, n \div 2)
      BY <3>1, CountsMonotone
    <3>3. Counts(f, from, p + 1) \in Nat /\ Counts(f, from, n \div 2) \in Nat
      BY <3>1, CountsSteps
    <3>4. Counts(f, from, n \div 2) # declared
      BY <2>3, <3>2, <3>3, WidthAssumption
    <3>5. QED BY <3>4 DEF Expands
  <2>4. QED BY <2>1, <2>2, <2>3
<1>4. QED BY <1>2, <1>3

\* The messages of validate_compression for a stored payload,
LEMMA CompressionNone ==
  ASSUME NEW f, NEW h, NEW r, NEW i_, NEW seeks, NEW left,
         r.compression = BUN_COMPRESSION_NONE
  PROVE  Has(validate_compression(f, h, r, i_, seeks, left), BUN_MALFORMED) =>
           r.uncompressed_size # 0
<1> DEFINE es == validate_compression(f, h, r, i_, seeks, left)
<1>1. es = Check(r.uncompressed_size # 0, BUN_MALFORMED, "uncompressed size", <<i_>>)
  BY DEF validate_compression, BUN_COMPRESSION_NONE, BUN_COMPRESSION_ZLIB,
         BUN_COMPRESSION_RLE
<1> HIDE DEF es
<1>2. Has(es, BUN_MALFORMED) <=> r.uncompressed_size # 0
  BY <1>1, HasCheck, Zenon
<1>3. QED BY <1>2 DEF es

\* for a payload that is scanned (the schemes are told apart)
LEMMA SchemesDiffer ==
  /\ BUN_COMPRESSION_NONE # BUN_COMPRESSION_RLE
  /\ BUN_COMPRESSION_NONE # BUN_COMPRESSION_ZLIB
  /\ BUN_COMPRESSION_RLE # BUN_COMPRESSION_ZLIB
BY DEF BUN_COMPRESSION_NONE, BUN_COMPRESSION_RLE, BUN_COMPRESSION_ZLIB

\* and for a scheme that is not supported.
LEMMA CompressionOther ==
  ASSUME NEW f, NEW h, NEW r, NEW i_, NEW seeks, NEW left,
         r.compression # BUN_COMPRESSION_NONE, r.compression # BUN_COMPRESSION_RLE
  PROVE  \/ validate_compression(f, h, r, i_, seeks, left)
              = Check(TRUE, BUN_UNSUPPORTED, "zlib", <<i_>>)
         \/ validate_compression(f, h, r, i_, seeks, left)
              = Check(TRUE, BUN_UNSUPPORTED, "unknown compression", <<i_>>)
BY DEF validate_compression

\* validate_compression, let do its reads, complains of a payload in its
\* section only if a rule is broken.
LEMMA CompressionComplete ==
  ASSUME NEW f, IsFile(f), ~HeaderMalformed(f), NEW r \in BunAssetRecord, NEW i_ \in Nat,
         NEW seeks \in BOOLEAN, NEW left \in Nat, DataInside(f.header, r),
         ScansPayload(f.header, r) => seeks /\ r.data_size <= left,
         Has(validate_compression(f, f.header, r, i_, seeks, left), BUN_MALFORMED)
  PROVE  RecordMalformed(f, r)
<1> DEFINE h == f.header
           from == DataStart(h, r).out
           es == validate_compression(f, h, r, i_, seeks, left)
           v == RleVerdict(f, from, r.data_size, left, r.uncompressed_size)
<1>1. BUN_MALFORMED # BUN_UNSUPPORTED
  BY DEF BUN_MALFORMED, BUN_UNSUPPORTED
<1>2. /\ h \in BunHeader /\ r.data_size \in Nat /\ r.uncompressed_size \in Nat
      /\ r.uncompressed_size <= UINT64_MAX /\ f.size \in Nat /\ from \in Nat
  <2>1. h \in BunHeader
    BY DEF IsFile
  <2>2. r.uncompressed_size \in u64
    BY DEF BunAssetRecord
  <2>3. r.uncompressed_size <= UINT64_MAX
    BY <2>2, WidthAssumption DEF u64
  <2>4. QED BY <2>1, <2>3, FieldTypes, StartTypes, GoodSections
<1>3. /\ DataStart(h, r).ok /\ Seekable(from)
      /\ from = h.data_section_offset + r.data_offset /\ from + r.data_size <= f.size
  BY DataReach
<1>4. CASE r.compression = BUN_COMPRESSION_NONE
  <2>1. r.uncompressed_size # 0
    BY <1>4, CompressionNone
  <2>2. QED BY <1>4, <2>1 DEF RecordMalformed
<1>5. CASE r.compression = BUN_COMPRESSION_RLE
  <2>1. CASE r.data_size % 2 # 0
    BY <1>5, <2>1 DEF RecordMalformed, RleWellFormed
  <2>2. CASE r.data_size % 2 = 0
    <3>1. ScansPayload(h, r)
      BY <1>3, <1>5, <2>2 DEF ScansPayload
    <3>2. seeks
      BY <3>1
    <3>3. r.data_size <= left
      BY <3>1
    <3>4. es = RleErrors(f, from, r.data_size, left, r.uncompressed_size, i_)
      BY <1>3, <1>5, <2>2, <3>2, SchemesDiffer DEF validate_compression
    <3>5. v.what # "ok"
      <4> DEFINE at == IF v.what = "rle zero count" THEN <<i_, v.pos>> ELSE <<i_>>
      <4>1. es = Check(v.what # "ok", BUN_MALFORMED, v.what, at)
        BY <3>4 DEF RleErrors
      <4>2. Has(es, BUN_MALFORMED)
        OBVIOUS
      <4> HIDE DEF at, es, v
      <4>3. QED BY <4>1, <4>2, HasCheck, Zenon
    <3>6. ~Expands(f, from, r.data_size, r.uncompressed_size)
      BY <1>2, <3>3, <3>5, RleComplete
    <3>7. ~RleWellFormed(f, r)
      BY <1>3, <3>6 DEF RleWellFormed, Expands
    <3>8. QED BY <1>5, <3>7 DEF RecordMalformed
  <2>3. QED BY <2>1, <2>2
<1>6. CASE ~(r.compression = BUN_COMPRESSION_NONE \/ r.compression = BUN_COMPRESSION_RLE)
  <2>1. \/ es = Check(TRUE, BUN_UNSUPPORTED, "zlib", <<i_>>)
        \/ es = Check(TRUE, BUN_UNSUPPORTED, "unknown compression", <<i_>>)
    BY <1>6, CompressionOther
  <2>2. Has(es, BUN_MALFORMED)
    OBVIOUS
  <2>3. \A what, at : ~Has(Check(TRUE, BUN_UNSUPPORTED, what, at), BUN_MALFORMED)
    BY <1>1, HasCheck, Zenon
  <2> HIDE DEF es
  <2>4. QED BY <2>1, <2>2, <2>3, Zenon
<1>7. QED BY <1>4, <1>5, <1>6

\* validate_asset_record, let do its reads, complains only of a bad record;
LEMMA RecordComplete ==
  ASSUME NEW f, IsFile(f), ~HeaderMalformed(f), NEW r \in BunAssetRecord, NEW i_ \in Nat,
         NEW seeks \in BOOLEAN, NEW left \in Nat,
         ScansPayload(f.header, r) /\ DataInside(f.header, r) => seeks /\ r.data_size <= left,
         Has(validate_asset_record(f, f.header, r, i_, seeks, left), BUN_MALFORMED)
  PROVE  RecordMalformed(f, r)
<1> DEFINE h == f.header
           cs == validate_compression(f, h, r, i_, seeks, left)
<1>1. h \in BunHeader
  BY DEF IsFile
<1>2. \/ r.name_length = 0
      \/ ~EndsBy(r.name_offset, r.name_length, h.string_table_size)
      \/ ~data_range_safe(h, r)
      \/ Has(cs, BUN_MALFORMED)
  BY <1>1, RecordChecks, Zenon
<1>3. Has(cs, BUN_MALFORMED) /\ DataInside(h, r) => RecordMalformed(f, r)
  BY CompressionComplete
<1>4. r.name_length = 0 => ~NameInside(h, r)
  BY DEF NameInside
<1>5. ~EndsBy(r.name_offset, r.name_length, h.string_table_size) => ~NameInside(h, r)
  BY <1>1, RangesExact DEF name_range_safe, NameInside
<1>6. ~data_range_safe(h, r) => ~DataInside(h, r)
  BY <1>1, RangesExact
<1> HIDE DEF cs
<1>7. QED BY <1>2, <1>3, <1>4, <1>5, <1>6 DEF RecordMalformed

\* and validate_asset_name only of a name with an unprintable byte.
LEMMA NameComplete ==
  ASSUME NEW f, IsFile(f), ~HeaderMalformed(f), NEW r \in BunAssetRecord, NEW i_ \in Nat,
         NameInside(f.header, r), NEW left \in Nat, r.name_length <= left,
         Has(validate_asset_name(f, f.header, r, i_, TRUE, left), BUN_MALFORMED)
  PROVE  ~NamePrintable(f, r)
<1> DEFINE h == f.header
           from == NameStart(h, r).out
           bad == BadChars(f, from, r.name_length, left)
           es == validate_asset_name(f, h, r, i_, TRUE, left)
<1>1. /\ NameStart(h, r).ok /\ Seekable(from)
      /\ from = h.string_table_offset + r.name_offset
  BY NameReach
<1>2. r.name_length \in Nat /\ r.name_length # 0
  BY FieldTypes DEF NameInside, IsFile
<1>3. CASE bad = {}
  <2>1. ~(left < r.name_length)
    BY <1>2
  <2>2. es = Check(left < r.name_length, BUN_MALFORMED, "name read failed", <<i_>>)
    BY <1>1, <1>2, <1>3 DEF validate_asset_name
  <2>3. es = <<>>
    BY <2>1, <2>2 DEF Check
  <2>4. Has(es, BUN_MALFORMED)
    OBVIOUS
  <2> HIDE DEF es
  <2>5. QED BY <2>3, <2>4 DEF Has
<1>4. CASE bad # {}
  <2>1. PICK k \in 0 .. r.name_length - 1 : ByteAt(f, from + k) \notin Printable
    BY <1>4 DEF BadChars
  <2>2. QED BY <1>1, <2>1 DEF NamePrintable, Printable
<1>5. QED BY <1>3, <1>4

\* What memset leaves has its type.
LEMMA ZeroTypes ==
  ZeroHeader \in BunHeader /\ ZeroRecord \in BunAssetRecord /\ ZeroContext \in BunParseContext
<1>1. 0 \in u32 /\ 0 \in u64 /\ 0 \in offset_t
  BY WidthAssumption DEF u32, u64, offset_t
<1>2. <<>> \in Seq(Error)
  OBVIOUS
<1>3. QED BY <1>1, <1>2 DEF ZeroHeader, ZeroRecord, ZeroContext, BunHeader, BunAssetRecord,
                            BunParseContext

\* What is decoded at any position is a record.
LEMMA RecordAtType ==
  ASSUME NEW f, IsFile(f), NEW p
  PROVE  RecordAt(f, p) \in BunAssetRecord
BY ZeroTypes DEF RecordAt, IsFile

\* A slot of the table lies in the table, and the table in the file.
LEMMA SlotInTable ==
  ASSUME NEW f, IsFile(f), ~HeaderMalformed(f), NEW k \in Nat, k < f.header.asset_count
  PROVE  LET at == f.header.asset_table_offset + k * BUN_ASSET_RECORD_SIZE
             next == f.header.asset_table_offset + (k + 1) * BUN_ASSET_RECORD_SIZE
         IN  /\ at \in Nat /\ next = at + BUN_ASSET_RECORD_SIZE
             /\ f.header.asset_table_offset <= at
             /\ next <= f.header.asset_table_offset
                          + f.header.asset_count * BUN_ASSET_RECORD_SIZE
             /\ next <= f.size
             /\ (k + 1) * BUN_ASSET_RECORD_SIZE \in Nat
             /\ f.header.asset_table_offset \in Nat
<1> DEFINE t == f.header.asset_table_offset
           c == f.header.asset_count
           S == BUN_ASSET_RECORD_SIZE
<1>1. t + c * S <= f.size /\ f.size \in Nat
  BY GoodSections
<1>2. t \in Nat /\ c \in Nat /\ S \in Nat
  BY WidthAssumption DEF IsFile, BunHeader, u32, u64
<1>3. k < c
  OBVIOUS
<1> HIDE DEF t, c, S
<1>4. (k + 1) * S = k * S + S /\ k * S \in Nat /\ c * S \in Nat
  BY <1>2
<1>5. (k + 1) * S <= c * S
  <2>1. \A a, b, n \in Nat : a <= b => a * n <= b * n
    OBVIOUS
  <2>2. k + 1 \in Nat /\ k + 1 <= c
    BY <1>2, <1>3
  <2>3. QED BY <1>2, <2>1, <2>2
<1> DEFINE x == k * S
           y == (k + 1) * S
           z == c * S
<1>6. y = x + S /\ x \in Nat /\ z \in Nat /\ y <= z /\ t + z <= f.size
  BY <1>1, <1>4, <1>5
<1> HIDE DEF x, y, z
<1>7. /\ t + x \in Nat /\ t + y = t + x + S /\ t <= t + x /\ t + y <= t + z
      /\ t + y <= f.size /\ y \in Nat
  BY <1>1, <1>2, <1>6
<1>8. QED BY <1>2, <1>7 DEF t, c, S, x, y, z

-----------------------------------------------------------------------------
(* One turn of the loop of bun_parse_assets.                                *)

\* What a failing call may deliver.
IsStops(stops) == \A call \in DOMAIN stops : stops[call] \in Nat \cup {-1}

\* A call delivers some number of bytes, or its seek fails.
LEMMA DeliveredType ==
  ASSUME NEW stops, IsStops(stops), NEW i, NEW use, NEW all \in Nat
  PROVE  /\ Delivered(stops, i, use, all) \in Nat \cup {-1}
         /\ Delivered(stops, i, use, all) <= all
BY DEF Delivered, AtMost, IsStops

\* Nothing fails, everything there is is delivered.
LEMMA DeliveredAll ==
  ASSUME NEW i, NEW use, NEW all
  PROVE  Delivered(NoFailures, i, use, all) = all
BY DEF Delivered, NoFailures

\* When its seek fails, a check does not look at the stream.
LEMMA SeekFails ==
  ASSUME NEW f, NEW h, NEW r, NEW i, NEW left
  PROVE  /\ validate_asset_record(f, h, r, i, FALSE, left)
              = validate_asset_record(f, h, r, i, FALSE, 0)
         /\ validate_asset_name(f, h, r, i, FALSE, left)
              = validate_asset_name(f, h, r, i, FALSE, 0)
<1>1. validate_compression(f, h, r, i, FALSE, left)
        = validate_compression(f, h, r, i, FALSE, 0)
  BY Zenon DEF validate_compression
<1>2. validate_asset_name(f, h, r, i, FALSE, left)
        = validate_asset_name(f, h, r, i, FALSE, 0)
  BY Zenon DEF validate_asset_name
<1>3. QED BY <1>1, <1>2, Zenon DEF validate_asset_record

\* The messages about a name are messages, whatever header it is read under.
LEMMA NameType ==
  ASSUME NEW f, NEW h \in BunHeader, NEW r \in BunAssetRecord, NEW i \in Nat,
         NEW seeks, NEW left \in Nat
  PROVE  validate_asset_name(f, h, r, i, seeks, left) \in Seq(Error)
<1> DEFINE bad == BadChars(f, NameStart(h, r).out, r.name_length, left)
           es == validate_asset_name(f, h, r, i, seeks, left)
<1>1. bad \in SUBSET Nat
  BY FieldTypes DEF BadChars
<1>2. <<i>> \in Seq(Nat) /\ (bad # {} => <<i, FirstOf(bad)>> \in Seq(Nat))
  BY <1>1, FirstOfMember, PlaceType
<1>3. \/ es = Check(TRUE, BUN_MALFORMED, "empty name", <<i>>)
      \/ es = Check(TRUE, BUN_MALFORMED, "name offset overflow", <<i>>)
      \/ es = Check(TRUE, BUN_MALFORMED, "name seek failed", <<i>>)
      \/ bad # {} /\ es = Check(TRUE, BUN_MALFORMED, "name byte", <<i, FirstOf(bad)>>)
      \/ es = Check(left < r.name_length, BUN_MALFORMED, "name read failed", <<i>>)
  BY DEF validate_asset_name
<1> HIDE DEF es, bad
<1>4. es \in Seq(Error)
  BY <1>2, <1>3, CheckType DEF Complaint
<1>5. QED BY <1>4 DEF es

\* The checks of a record, with what the calls deliver to them.
DataGot(f, h, r, i, stops) ==
  Delivered(stops, i, "data", Available(f, DataStart(h, r).out))
NameGot(f, h, r, i, stops) ==
  Delivered(stops, i, "name", Available(f, NameStart(h, r).out))

\* The messages when the stream gives these answers to the two checks.
Row(f, h, r, i, dseeks, dleft, nseeks, nleft) ==
  validate_asset_record(f, h, r, i, dseeks, dleft)
    \o (IF name_range_safe(h, r)
          THEN validate_asset_name(f, h, r, i, nseeks, nleft) ELSE <<>>)

\* A check with what a call delivers is a check with some answer.
LEMMA SomeAnswer ==
  ASSUME NEW f, NEW h, NEW r, NEW i, NEW d \in Nat \cup {-1}, NEW e \in Nat \cup {-1}
  PROVE  \E ds, ns, dl, nl : /\ dl \in Nat /\ nl \in Nat
                             /\ Row(f, h, r, i, d >= 0, d, e >= 0, e)
                                  = Row(f, h, r, i, ds, dl, ns, nl)
<1> DEFINE rec(s, l) == validate_asset_record(f, h, r, i, s, l)
           nam(s, l) == validate_asset_name(f, h, r, i, s, l)
           safe == name_range_safe(h, r)
<1>1. \E s, l : l \in Nat /\ rec(d >= 0, d) = rec(s, l)
  <2>1. CASE d \in Nat
    BY <2>1
  <2>2. CASE d = -1
    <3>1. (d >= 0) = FALSE
      BY <2>2
    <3>2. rec(FALSE, d) = rec(FALSE, 0)
      BY SeekFails
    <3> HIDE DEF rec
    <3>3. QED BY <3>1, <3>2
  <2>3. QED BY <2>1, <2>2
<1>2. \E s, l : l \in Nat /\ nam(e >= 0, e) = nam(s, l)
  <2>1. CASE e \in Nat
    BY <2>1
  <2>2. CASE e = -1
    <3>1. (e >= 0) = FALSE
      BY <2>2
    <3>2. nam(FALSE, e) = nam(FALSE, 0)
      BY SeekFails
    <3> HIDE DEF nam
    <3>3. QED BY <3>1, <3>2
  <2>3. QED BY <2>1, <2>2
<1> HIDE DEF rec, nam, safe
<1>3. PICK ds, dl : dl \in Nat /\ rec(d >= 0, d) = rec(ds, dl)
  BY <1>1
<1>4. PICK ns, nl : nl \in Nat /\ nam(e >= 0, e) = nam(ns, nl)
  BY <1>2
<1>5. Row(f, h, r, i, d >= 0, d, e >= 0, e) = Row(f, h, r, i, ds, dl, ns, nl)
  BY <1>3, <1>4, Zenon DEF Row, rec, nam, safe
<1>6. QED BY <1>3, <1>4, <1>5

\* Whatever the calls do, the checks make a row of this kind;
LEMMA MessagesAre ==
  ASSUME NEW f, IsFile(f), NEW h \in BunHeader, NEW r \in BunAssetRecord, NEW i,
         NEW stops, IsStops(stops)
  PROVE  \E ds, ns, dl, nl : /\ dl \in Nat /\ nl \in Nat
                             /\ RecordMessages(f, h, r, i, stops)
                                  = Row(f, h, r, i, ds, dl, ns, nl)
<1> DEFINE d == Delivered(stops, i, "data", Available(f, DataStart(h, r).out))
           n == Delivered(stops, i, "name", Available(f, NameStart(h, r).out))
<1>1. d \in Nat \cup {-1} /\ n \in Nat \cup {-1}
  <2>1. DataStart(h, r).out \in Nat /\ NameStart(h, r).out \in Nat /\ f.size \in Nat
    BY StartTypes, WidthAssumption DEF IsFile, offset_t
  <2>2. Available(f, DataStart(h, r).out) \in Nat /\ Available(f, NameStart(h, r).out) \in Nat
    BY <2>1 DEF Available
  <2>3. QED BY <2>2, DeliveredType
<1>2. RecordMessages(f, h, r, i, stops) = Row(f, h, r, i, d >= 0, d, n >= 0, n)
  BY Zenon DEF RecordMessages, Row
<1> HIDE DEF d, n
<1>3. QED BY <1>1, <1>2, SomeAnswer

\* and when no call fails they are made of all that is there.
LEMMA MessagesAll ==
  ASSUME NEW f, IsFile(f), NEW h \in BunHeader, NEW r \in BunAssetRecord, NEW i
  PROVE  LET d == Available(f, DataStart(h, r).out)
             n == Available(f, NameStart(h, r).out)
         IN  /\ d \in Nat /\ n \in Nat
             /\ RecordMessages(f, h, r, i, NoFailures) = Row(f, h, r, i, TRUE, d, TRUE, n)
<1> DEFINE d == Available(f, DataStart(h, r).out)
           n == Available(f, NameStart(h, r).out)
<1>1. d \in Nat /\ n \in Nat
  <2>1. DataStart(h, r).out \in Nat /\ NameStart(h, r).out \in Nat /\ f.size \in Nat
    BY StartTypes, WidthAssumption DEF IsFile, offset_t
  <2>2. QED BY <2>1 DEF Available
<1>2. /\ Delivered(NoFailures, i, "data", d) = d
      /\ Delivered(NoFailures, i, "name", n) = n
  BY DeliveredAll
<1>3. RecordMessages(f, h, r, i, NoFailures) = Row(f, h, r, i, d >= 0, d, n >= 0, n)
  BY <1>2, Zenon DEF RecordMessages, Row
<1> HIDE DEF d, n
<1>4. (d >= 0) = TRUE /\ (n >= 0) = TRUE
  BY <1>1
<1>5. RecordMessages(f, h, r, i, NoFailures) = Row(f, h, r, i, TRUE, d, TRUE, n)
  BY <1>3, <1>4
<1>6. QED BY <1>1, <1>5 DEF d, n

\* What the checks of a record say of it, under any failures.
LEMMA MessagesSound ==
  ASSUME NEW f, IsFile(f), NEW h \in BunHeader, NEW r \in BunAssetRecord, NEW i \in Nat,
         NEW stops, IsStops(stops)
  PROVE  LET es == RecordMessages(f, h, r, i, stops) IN
         /\ es \in Seq(Error)
         /\ h = f.header =>
              /\ ~Has(es, BUN_MALFORMED) => ~RecordMalformed(f, r)
              /\ Has(es, BUN_UNSUPPORTED) <=> RecordUnsupported(r)
<1> DEFINE rec(s, l) == validate_asset_record(f, h, r, i, s, l)
           nam(s, l) == validate_asset_name(f, h, r, i, s, l)
           safe == name_range_safe(h, r)
           es == RecordMessages(f, h, r, i, stops)
<1>1. PICK ds, ns, dl, nl :
        /\ dl \in Nat /\ nl \in Nat
        /\ es = rec(ds, dl) \o (IF safe THEN nam(ns, nl) ELSE <<>>)
  <2>1. PICK ds, ns, dl, nl :
          dl \in Nat /\ nl \in Nat /\ es = Row(f, h, r, i, ds, dl, ns, nl)
    BY MessagesAre
  <2>2. QED BY <2>1, Zenon DEF Row
<1>2. rec(ds, dl) \in Seq(Error)
  BY <1>1, RecordChecks
<1>3. nam(ns, nl) \in Seq(Error)
  BY <1>1, NameType
<1>4. h = f.header =>
        /\ ~Has(rec(ds, dl), BUN_MALFORMED) =>
             safe /\ (NamePrintable(f, r) => ~RecordMalformed(f, r))
        /\ Has(rec(ds, dl), BUN_UNSUPPORTED) <=> RecordUnsupported(r)
        /\ ~Has(nam(ns, nl), BUN_UNSUPPORTED)
        /\ ~Has(nam(ns, nl), BUN_MALFORMED) => NamePrintable(f, r)
  <2>1. dl \in Nat /\ nl \in Nat
    BY <1>1
  <2>2. QED BY <2>1, RecordSound, NameChecks, Zenon
<1> HIDE DEF rec, nam, safe, es
<1>5. CASE safe
  <2>1. es = rec(ds, dl) \o nam(ns, nl)
    BY <1>1, <1>5
  <2>2. es \in Seq(Error) /\ \A c : Has(es, c) <=> Has(rec(ds, dl), c) \/ Has(nam(ns, nl), c)
    BY <1>2, <1>3, <2>1, RowConcat
  <2>3. QED BY <1>4, <2>2, Zenon DEF es
<1>6. CASE ~safe
  <2>1. es = rec(ds, dl)
    BY <1>1, <1>2, <1>6
  <2>2. QED BY <1>2, <1>4, <1>6, <2>1, Zenon DEF es
<1>7. QED BY <1>5, <1>6

\* Without a failed call only a bad record is complained of as malformed.
LEMMA MessagesDeserved ==
  ASSUME NEW f, IsFile(f), ~HeaderMalformed(f), NEW r \in BunAssetRecord, NEW i \in Nat,
         Has(RecordMessages(f, f.header, r, i, NoFailures), BUN_MALFORMED)
  PROVE  RecordMalformed(f, r)
<1> DEFINE h == f.header
           d == Available(f, DataStart(h, r).out)
           n == Available(f, NameStart(h, r).out)
           rec == validate_asset_record(f, h, r, i, TRUE, d)
           nam == validate_asset_name(f, h, r, i, TRUE, n)
<1>1. h \in BunHeader /\ f.size \in Nat /\ r.data_size \in Nat /\ r.name_length \in Nat
  BY FieldTypes, GoodSections DEF IsFile
<1>2. d \in Nat /\ n \in Nat /\ RecordMessages(f, h, r, i, NoFailures) = Row(f, h, r, i, TRUE, d, TRUE, n)
  BY <1>1, MessagesAll
<1>3. rec \in Seq(Error) /\ nam \in Seq(Error)
  BY <1>1, <1>2, RecordChecks, NameType
<1>4. Has(rec, BUN_MALFORMED) => RecordMalformed(f, r)
  <2>1. DataInside(h, r) => r.data_size <= d
    <3>1. SUFFICES ASSUME DataInside(h, r) PROVE r.data_size <= d
      OBVIOUS
    <3>2. /\ DataStart(h, r).out + r.data_size <= f.size
          /\ DataStart(h, r).out \in Nat
      BY <1>1, <3>1, DataReach, StartTypes
    <3>3. QED BY <1>1, <3>2 DEF Available
  <2>2. ScansPayload(h, r) /\ DataInside(h, r) => TRUE /\ r.data_size <= d
    BY <2>1
  <2> HIDE DEF d
  <2>3. QED BY <1>2, <2>2, RecordComplete
<1>5. name_range_safe(h, r) /\ Has(nam, BUN_MALFORMED) => RecordMalformed(f, r)
  <2>1. SUFFICES ASSUME name_range_safe(h, r), Has(nam, BUN_MALFORMED)
                 PROVE  RecordMalformed(f, r)
    OBVIOUS
  <2>2. NameInside(h, r)
    BY <1>1, <2>1, RangesExact
  <2>3. NameStart(h, r).out + r.name_length <= f.size /\ NameStart(h, r).out \in Nat
    BY <1>1, <2>2, NameReach, StartTypes
  <2>4. r.name_length <= n
    BY <1>1, <2>3 DEF Available
  <2>5. ~NamePrintable(f, r)
    <3> HIDE DEF n
    <3>1. QED BY <1>2, <2>1, <2>2, <2>4, NameComplete
  <2>6. QED BY <2>5 DEF RecordMalformed
<1>6. CASE name_range_safe(h, r)
  <2>1. RecordMessages(f, h, r, i, NoFailures) = rec \o nam
    BY <1>2, <1>6 DEF Row
  <2> HIDE DEF rec, nam
  <2>2. Has(rec, BUN_MALFORMED) \/ Has(nam, BUN_MALFORMED)
    BY <1>3, <2>1, RowConcat
  <2>3. QED BY <1>4, <1>5, <1>6, <2>2
<1>7. CASE ~name_range_safe(h, r)
  <2>1. RecordMessages(f, h, r, i, NoFailures) = rec \o <<>>
    BY <1>2, <1>7 DEF Row
  <2> HIDE DEF rec, nam
  <2>2. Has(rec, BUN_MALFORMED)
    BY <1>3, <2>1
  <2>3. QED BY <1>4, <2>2
<1>8. QED BY <1>6, <1>7

\* A record whose slot the stream can reach is the table's entry.
LEMMA SlotEntry ==
  ASSUME NEW f, IsFile(f), NEW k \in Nat, k <= f.header.asset_count, Slot(f.header, k).ok
  PROVE  /\ Slot(f.header, k).out
              = f.header.asset_table_offset + k * BUN_ASSET_RECORD_SIZE
         /\ RecordAt(f, Slot(f.header, k).out) = Entry(f, k)
<1> DEFINE t == f.header.asset_table_offset
           c == f.header.asset_count
           S == BUN_ASSET_RECORD_SIZE
<1>1. f.header \in BunHeader /\ t \in Nat /\ c \in Nat /\ S \in Nat /\ k <= c
  BY WidthAssumption DEF IsFile, BunHeader, u32, u64
<1>2. c * S <= UINT64_MAX /\ c * S \in Nat
  <2>1. TableSize(f.header).ok
    BY <1>1, TableSizeExact
  <2>2. QED BY <1>1, <2>1, SaturatingExact DEF TableSize, bun_u64_mul
<1> HIDE DEF t, c, S
<1>3. k * S \in Nat /\ k * S <= c * S
  <2>1. \A a, b, n \in Nat : a <= b => a * n <= b * n
    OBVIOUS
  <2>2. QED BY <1>1, <2>1
<1> DEFINE x == k * S
<1>4. x \in Nat /\ x <= UINT64_MAX
  <2>1. UINT64_MAX \in Nat
    BY WidthAssumption
  <2>2. QED BY <1>2, <1>3, <2>1
<1>5. Slot(f.header, k) = Saturating(t + x)
  <2>1. bun_u64_mul(k, S).out = x
    <3> HIDE DEF x
    <3>1. Saturating(x).out = x
      BY <1>4, SaturatingExact
    <3>2. QED BY <3>1 DEF bun_u64_mul, x
  <2>2. QED BY <2>1 DEF Slot, bun_u64_add, t, S
<1>6. Slot(f.header, k).out = t + x
  <2> HIDE DEF x
  <2>1. t + x \in Nat
    BY <1>1, <1>4
  <2>2. QED BY <1>5, <2>1, SaturatingExact
<1>7. QED BY <1>6, Zenon DEF Entry, t, S, x

\* Under a good header the stream reaches every slot, and the end of the table;
\* the records are there.
LEMMA SlotReach ==
  ASSUME NEW f, IsFile(f), ~HeaderMalformed(f), NEW k \in Nat, k <= f.header.asset_count
  PROVE  /\ Reached(f.header, k, NoFailures)
         /\ k < f.header.asset_count => ReadWhole(f, f.header, k, NoFailures)
<1> DEFINE t == f.header.asset_table_offset
           c == f.header.asset_count
           S == BUN_ASSET_RECORD_SIZE
           x == k * S
<1>1. t \in Nat /\ c \in Nat /\ S \in Nat /\ f.size \in Nat /\ f.size <= LONG_MAX
      /\ t + c * S <= f.size
  BY GoodSections, WidthAssumption DEF IsFile, BunHeader, u32, u64
<1>2. x \in Nat /\ t + x <= f.size
  <2>1. CASE k = c
    BY <1>1, <2>1
  <2>2. CASE k < c
    <3>1. /\ t + x \in Nat /\ t + (k + 1) * S = t + x + S /\ t + (k + 1) * S <= f.size
      BY <2>2, SlotInTable
    <3>2. x \in Nat
      BY <1>1
    <3> HIDE DEF t, c, S, x
    <3>3. QED BY <1>1, <3>1, <3>2
  <2>3. k = c \/ k < c
    <3>1. k <= c
      OBVIOUS
    <3> HIDE DEF c
    <3>2. QED BY <1>1, <3>1
  <2>4. QED BY <2>1, <2>2, <2>3
<1>3. k < c => t + x + S <= f.size
  <2>1. SUFFICES ASSUME k < c PROVE t + x + S <= f.size
    OBVIOUS
  <2>2. t + (k + 1) * S = t + x + S /\ t + (k + 1) * S <= f.size
    BY <2>1, SlotInTable
  <2> HIDE DEF t, c, S, x
  <2>3. QED BY <2>2
<1>4. Slot(f.header, k) = Saturating(t + x)
  <2>1. x <= LONG_MAX
    <3> HIDE DEF t, c, S, x
    <3>1. LONG_MAX \in Nat
      BY WidthAssumption
    <3>2. QED BY <1>1, <1>2, <3>1
  <2>2. bun_u64_mul(k, S).out = x
    <3> HIDE DEF x
    <3>1. Saturating(x).out = x
      BY <1>2, <2>1, Reachable
    <3>2. QED BY <3>1 DEF bun_u64_mul, x
  <2>3. QED BY <2>2 DEF Slot, bun_u64_add, t, S
<1>5. Saturating(t + x).ok /\ Saturating(t + x).out = t + x /\ Seekable(t + x)
  <2> HIDE DEF t, x
  <2>1. t + x \in Nat /\ t + x <= LONG_MAX
    <3>1. LONG_MAX \in Nat
      BY WidthAssumption
    <3>2. QED BY <1>1, <1>2, <3>1
  <2>2. QED BY <2>1, Reachable
<1>6. Reached(f.header, k, NoFailures)
  <2>1. Delivered(NoFailures, k, "seek", 0) = 0
    BY DeliveredAll
  <2>2. QED BY <1>4, <1>5, <2>1 DEF Reached
<1>7. ASSUME k < c PROVE ReadWhole(f, f.header, k, NoFailures)
  <2>1. Delivered(NoFailures, k, "record", Available(f, t + x)) = Available(f, t + x)
    BY DeliveredAll
  <2>2. Available(f, t + x) >= S
    <3> HIDE DEF t, c, S, x
    <3>1. QED BY <1>1, <1>2, <1>3, <1>7 DEF Available
  <2> HIDE DEF t, c, x
  <2>3. QED BY <1>4, <1>5, <2>1, <2>2 DEF ReadWhole
<1>8. QED BY <1>6, <1>7

\* What a loop that went to the end of the table without complaint of
\* malformation says of the records from k on.
Sound(f, k, t) ==
  ~t.io /\ ~Has(t.es, BUN_MALFORMED) =>
    /\ \A j \in k .. f.header.asset_count - 1 : ~RecordMalformed(f, Entry(f, j))
    /\ Has(t.es, BUN_UNSUPPORTED) <=>
         \E j \in k .. f.header.asset_count - 1 : RecordUnsupported(Entry(f, j))

\* It did go to the end, or stopped at a record that is malformed or not there.
Deserved(f, k, t) ==
  /\ ~t.io
  /\ Has(t.es, BUN_MALFORMED) =>
       \E j \in k .. f.header.asset_count - 1 : RecordMalformed(f, Entry(f, j))

\* A loop's outcome is messages and whether a seek ended it.
IsOutcome(t) == t.io \in BOOLEAN /\ t.es \in Seq(Error)

\* One turn: its messages come before those of the turns after it.
LEMMA TurnType ==
  ASSUME NEW f, IsFile(f), NEW h \in BunHeader, NEW k \in Nat, NEW stops, IsStops(stops),
         NEW rest, k < h.asset_count => IsOutcome(rest), k <= h.asset_count
  PROVE  IsOutcome(Turn(f, h, k, stops, rest))
<1> DEFINE t == Turn(f, h, k, stops, rest)
           r == RecordAt(f, Slot(h, k).out)
           es == RecordMessages(f, h, r, k, stops)
<1>1. es \in Seq(Error)
  BY RecordAtType, MessagesSound
<1>2. Check(TRUE, BUN_MALFORMED, "record unreadable", <<k>>) \in Seq(Error)
  BY CheckType, PlaceType DEF Complaint
<1>3. <<>> \in Seq(Error)
  OBVIOUS
<1>4. k # h.asset_count => k < h.asset_count
  BY DEF BunHeader, u32
<1>5. \/ t = [io |-> TRUE, es |-> <<>>]
      \/ t = [io |-> FALSE, es |-> <<>>]
      \/ t = [io |-> FALSE, es |-> Check(TRUE, BUN_MALFORMED, "record unreadable", <<k>>)]
      \/ k # h.asset_count /\ t = [io |-> rest.io, es |-> es \o rest.es]
  BY Zenon DEF Turn
<1> HIDE DEF t, es
<1>6. CASE k # h.asset_count /\ t = [io |-> rest.io, es |-> es \o rest.es]
  <2>1. t.io = rest.io /\ t.es = es \o rest.es
    BY <1>6
  <2>2. rest.io \in BOOLEAN /\ rest.es \in Seq(Error)
    BY <1>4, <1>6 DEF IsOutcome
  <2>3. QED BY <1>1, <2>1, <2>2, RowConcat DEF IsOutcome, t
<1>7. CASE t = [io |-> TRUE, es |-> <<>>]
  BY <1>3, <1>7 DEF IsOutcome, t
<1>8. CASE t = [io |-> FALSE, es |-> <<>>]
  BY <1>3, <1>8 DEF IsOutcome, t
<1>9. CASE t = [io |-> FALSE, es |-> Check(TRUE, BUN_MALFORMED, "record unreadable", <<k>>)]
  <2> DEFINE lost == Check(TRUE, BUN_MALFORMED, "record unreadable", <<k>>)
  <2>1. lost \in Seq(Error) /\ t = [io |-> FALSE, es |-> lost]
    BY <1>2, <1>9
  <2> HIDE DEF lost
  <2>2. t.io = FALSE /\ t.es = lost
    BY <2>1
  <2>3. QED BY <2>1, <2>2 DEF IsOutcome, t
<1>10. QED BY <1>5, <1>6, <1>7, <1>8, <1>9

\* and if what those say is right, it is right.
LEMMA TurnSound ==
  ASSUME NEW f, IsFile(f), NEW k \in Nat, k <= f.header.asset_count,
         NEW stops, IsStops(stops), NEW rest,
         k < f.header.asset_count => IsOutcome(rest) /\ Sound(f, k + 1, rest)
  PROVE  Sound(f, k, Turn(f, f.header, k, stops, rest))
<1> DEFINE h == f.header
           c == h.asset_count
           t == Turn(f, h, k, stops, rest)
           r == RecordAt(f, Slot(h, k).out)
           es == RecordMessages(f, h, r, k, stops)
<1>1. h \in BunHeader /\ c \in Nat
  BY DEF IsFile, BunHeader, u32
<1>2. SUFFICES ASSUME ~t.io, ~Has(t.es, BUN_MALFORMED)
               PROVE  /\ \A j \in k .. c - 1 : ~RecordMalformed(f, Entry(f, j))
                      /\ Has(t.es, BUN_UNSUPPORTED) <=>
                           \E j \in k .. c - 1 : RecordUnsupported(Entry(f, j))
  BY DEF Sound
<1>3. \/ t = [io |-> TRUE, es |-> <<>>]
      \/ k = c /\ t = [io |-> FALSE, es |-> <<>>]
      \/ t = [io |-> FALSE, es |-> Check(TRUE, BUN_MALFORMED, "record unreadable", <<k>>)]
      \/ Reached(h, k, stops) /\ k # c /\ t = [io |-> rest.io, es |-> es \o rest.es]
  BY Zenon DEF Turn
<1>4. Has(Check(TRUE, BUN_MALFORMED, "record unreadable", <<k>>), BUN_MALFORMED)
  BY HasCheck
<1>5. es \in Seq(Error) /\ (~Has(es, BUN_MALFORMED) => ~RecordMalformed(f, r))
      /\ (Has(es, BUN_UNSUPPORTED) <=> RecordUnsupported(r))
  BY <1>1, RecordAtType, MessagesSound
<1> HIDE DEF t, es
<1>6. CASE k = c /\ t = [io |-> FALSE, es |-> <<>>]
  BY <1>1, <1>6 DEF Has
<1>7. CASE Reached(h, k, stops) /\ k # c /\ t = [io |-> rest.io, es |-> es \o rest.es]
  <2>1. t.io = rest.io /\ t.es = es \o rest.es
    BY <1>7
  <2>2. k < c
    BY <1>1, <1>7
  <2>3. rest.es \in Seq(Error) /\ Sound(f, k + 1, rest)
    BY <2>2 DEF IsOutcome
  <2>4. \A code : Has(t.es, code) <=> Has(es, code) \/ Has(rest.es, code)
    BY <1>5, <2>1, <2>3, RowConcat
  <2>5. r = Entry(f, k)
    BY <1>7, SlotEntry DEF Reached
  <2>6. /\ \A j \in k + 1 .. c - 1 : ~RecordMalformed(f, Entry(f, j))
        /\ Has(rest.es, BUN_UNSUPPORTED) <=>
             \E j \in k + 1 .. c - 1 : RecordUnsupported(Entry(f, j))
    BY <1>2, <2>1, <2>3, <2>4 DEF Sound
  <2>7. ~RecordMalformed(f, Entry(f, k)) /\ (Has(es, BUN_UNSUPPORTED) <=> RecordUnsupported(Entry(f, k)))
    BY <1>2, <1>5, <2>4, <2>5
  <2>8. \A j : j \in k .. c - 1 <=> j = k \/ j \in k + 1 .. c - 1
    BY <1>1, <2>2
  <2> HIDE DEF h, c, r
  <2>9. QED BY <2>4, <2>6, <2>7, <2>8, Zenon
<1>8. CASE t = [io |-> TRUE, es |-> <<>>]
  BY <1>2, <1>8
<1>9. CASE t = [io |-> FALSE, es |-> Check(TRUE, BUN_MALFORMED, "record unreadable", <<k>>)]
  <2>1. t.es = Check(TRUE, BUN_MALFORMED, "record unreadable", <<k>>)
    BY <1>9
  <2>2. QED BY <1>2, <1>4, <2>1
<1>10. QED BY <1>3, <1>6, <1>7, <1>8, <1>9

\* The same of what is deserved, when no call fails.
LEMMA TurnDeserved ==
  ASSUME NEW f, IsFile(f), ~HeaderMalformed(f), NEW k \in Nat, k <= f.header.asset_count,
         NEW rest, k < f.header.asset_count => IsOutcome(rest) /\ Deserved(f, k + 1, rest)
  PROVE  Deserved(f, k, Turn(f, f.header, k, NoFailures, rest))
<1> DEFINE h == f.header
           c == h.asset_count
           t == Turn(f, h, k, NoFailures, rest)
           r == RecordAt(f, Slot(h, k).out)
           es == RecordMessages(f, h, r, k, NoFailures)
<1>1. h \in BunHeader /\ c \in Nat /\ IsStops(NoFailures)
  BY DEF IsFile, BunHeader, u32, IsStops, NoFailures
<1>2. Reached(h, k, NoFailures) /\ (k < c => ReadWhole(f, h, k, NoFailures))
  BY SlotReach
<1>3. k = c \/ k < c
  BY <1>1
<1>4. CASE k = c
  <2>1. t = [io |-> FALSE, es |-> <<>>]
    BY <1>2, <1>4 DEF Turn
  <2>2. QED BY <2>1 DEF Deserved, Has
<1>5. CASE k < c
  <2>1. t = [io |-> rest.io, es |-> es \o rest.es]
    <3>1. k # c
      <4> HIDE DEF c
      <4>1. QED BY <1>1, <1>5
    <3>2. QED BY <1>2, <1>5, <3>1, Zenon DEF Turn
  <2>2. rest.es \in Seq(Error) /\ Deserved(f, k + 1, rest)
    BY <1>5 DEF IsOutcome
  <2>3. r \in BunAssetRecord /\ r = Entry(f, k)
    BY <1>2, RecordAtType, SlotEntry DEF Reached
  <2>4. es \in Seq(Error)
    BY <1>1, <2>3, MessagesSound
  <2>5. Has(es, BUN_MALFORMED) => RecordMalformed(f, Entry(f, k))
    BY <2>3, MessagesDeserved
  <2> HIDE DEF t, es, r
  <2>6. t.io = rest.io /\ (Has(t.es, BUN_MALFORMED) <=> Has(es, BUN_MALFORMED) \/ Has(rest.es, BUN_MALFORMED))
    BY <2>1, <2>2, <2>4, RowConcat
  <2>7. \A j : j \in k .. c - 1 <=> j = k \/ j \in k + 1 .. c - 1
    BY <1>1, <1>5
  <2> HIDE DEF c
  <2>8. QED BY <2>2, <2>5, <2>6, <2>7, Zenon DEF Deserved, t, c
<1>6. QED BY <1>3, <1>4, <1>5

\* After the last record nothing follows.
LEMMA TurnLast ==
  ASSUME NEW f, NEW h, NEW stops, NEW a, NEW b
  PROVE  Turn(f, h, h.asset_count, stops, a) = Turn(f, h, h.asset_count, stops, b)
BY Zenon DEF Turn

\* g holds the outcomes of the loop from record m on, each from the next.
Loops(f, h, stops, m, g) ==
  \A k \in m .. h.asset_count : g[k] = Turn(f, h, k, stops, g[k + 1])

\* The recursion that defines AssetLoop has a solution: the turns can be added
\* from the last to the first.
LEMMA LoopsExist ==
  ASSUME NEW f, NEW h \in BunHeader, NEW stops
  PROVE  \A d \in Nat : d <= h.asset_count =>
           \E g : Loops(f, h, stops, h.asset_count - d, g)
<1> DEFINE n == h.asset_count
           P(d) == \E g : Loops(f, h, stops, n - d, g)
           Bad == {d \in Nat : d <= n /\ ~P(d)}
<1>0. n \in Nat
  BY DEF BunHeader, u32
<1>1. SUFFICES ASSUME Bad # {} PROVE FALSE
  OBVIOUS
<1>2. PICK m \in Bad : \A d \in Bad : m <= d
  <2>1. Bad \in SUBSET Nat
    OBVIOUS
  <2> HIDE DEF Bad
  <2>2. QED BY <1>1, <2>1, LeastMember
<1>3. P(0)
  <2> DEFINE g == [j \in {n} |-> Turn(f, h, n, stops, <<>>)]
  <2>1. g[n] = Turn(f, h, n, stops, g[n + 1])
    <3>1. g[n] = Turn(f, h, n, stops, <<>>)
      OBVIOUS
    <3>2. QED BY <3>1, TurnLast
  <2> HIDE DEF g
  <2>2. \A k \in n - 0 .. n : k = n
    <3> HIDE DEF n
    <3>1. QED BY <1>0
  <2>3. QED BY <2>1, <2>2 DEF Loops
<1>4. m # 0 /\ m \in Nat /\ m <= n /\ ~P(m)
  BY <1>3
<1>5. PICK g : Loops(f, h, stops, n - (m - 1), g)
  <2>1. m - 1 \in Nat /\ m - 1 <= n /\ ~(m <= m - 1)
    <3> HIDE DEF n, P
    <3>1. QED BY <1>0, <1>4
  <2>2. P(m - 1)
    <3> HIDE DEF n, P
    <3>1. QED BY <1>2, <2>1
  <2>3. QED BY <2>2
<1> DEFINE l == n - m
           s == [j \in l .. n + 1 |-> IF j = l THEN Turn(f, h, l, stops, g[l + 1]) ELSE g[j]]
<1>6. l \in Nat /\ l < n /\ n - (m - 1) = l + 1
  <2> HIDE DEF n
  <2>1. QED BY <1>0, <1>4
<1>7. Loops(f, h, stops, l, s)
  <2> SUFFICES ASSUME NEW k \in l .. n PROVE s[k] = Turn(f, h, k, stops, s[k + 1])
    BY DEF Loops
  <2>1. s[k + 1] = g[k + 1]
    <3> HIDE DEF n, l
    <3>1. k + 1 \in l .. n + 1 /\ k + 1 # l
      BY <1>0, <1>6
    <3>2. QED BY <3>1
  <2>2. CASE k = l
    <3>1. s[k] = Turn(f, h, l, stops, g[l + 1])
      <4> HIDE DEF n, l
      <4>1. k \in l .. n + 1
        BY <1>0, <1>6
      <4>2. QED BY <2>2, <4>1
    <3> HIDE DEF s, l
    <3>2. QED BY <2>1, <2>2, <3>1
  <2>3. CASE k # l
    <3>1. k \in l + 1 .. n /\ k \in l .. n + 1
      <4> HIDE DEF n, l
      <4>1. QED BY <1>0, <1>6, <2>3
    <3>2. s[k] = g[k]
      <4> HIDE DEF n, l
      <4>1. QED BY <2>3, <3>1
    <3>3. g[k] = Turn(f, h, k, stops, g[k + 1])
      <4> HIDE DEF s, l
      <4>1. QED BY <1>5, <1>6, <3>1 DEF Loops
    <3> HIDE DEF s
    <3>4. QED BY <2>1, <3>2, <3>3
  <2>4. QED BY <2>2, <2>3
<1>8. P(m)
  <2> HIDE DEF s
  <2>1. QED BY <1>7
<1>9. QED BY <1>4, <1>8

\* LoopFrom gives the outcomes, AssetLoop the first of them.
LEMMA LoopIs ==
  ASSUME NEW f, NEW h \in BunHeader, NEW stops
  PROVE  \E g : /\ Loops(f, h, stops, 0, g)
                /\ AssetLoop(f, h, stops) = g[0]
                /\ \A k : LoopFrom(f, h, stops, k) = g[k]
<1> DEFINE n == h.asset_count
           c == CHOOSE s : s = [k \in 0 .. n |-> Turn(f, h, k, stops, s[k + 1])]
<1>0. n \in Nat
  BY DEF BunHeader, u32
<1>1. AssetLoop(f, h, stops) = c[0] /\ \A k : LoopFrom(f, h, stops, k) = c[k]
  BY DEF AssetLoop, LoopFrom
<1>2. PICK g : Loops(f, h, stops, 0, g)
  <2>1. n - n = 0 /\ n <= n
    <3> HIDE DEF n
    <3>1. QED BY <1>0
  <2>2. \E g : Loops(f, h, stops, n - n, g)
    BY <1>0, <2>1, LoopsExist
  <2>3. QED BY <2>1, <2>2
<1> DEFINE s == [k \in 0 .. n |-> g[k]]
<1>3. s = [k \in 0 .. n |-> Turn(f, h, k, stops, s[k + 1])]
  <2>1. ASSUME NEW k \in 0 .. n PROVE s[k] = Turn(f, h, k, stops, s[k + 1])
    <3>1. s[k] = Turn(f, h, k, stops, g[k + 1])
      BY <1>2 DEF Loops
    <3>2. CASE k = n
      <4> HIDE DEF s
      <4>1. QED BY <3>1, <3>2, TurnLast
    <3>3. CASE k # n
      <4>1. k + 1 \in 0 .. n
        <5> HIDE DEF n
        <5>1. QED BY <1>0, <3>3
      <4>2. s[k + 1] = g[k + 1]
        BY <4>1
      <4> HIDE DEF s
      <4>3. QED BY <3>1, <4>2
    <3>4. QED BY <3>2, <3>3
  <2>2. s = [k \in 0 .. n |-> s[k]]
    OBVIOUS
  <2> HIDE DEF s
  <2>3. QED BY <2>1, <2>2
<1>4. c = [k \in 0 .. n |-> Turn(f, h, k, stops, c[k + 1])]
  <2> HIDE DEF s
  <2>1. QED BY <1>3
<1> HIDE DEF c
<1>5. Loops(f, h, stops, 0, c)
  BY <1>4 DEF Loops
<1>6. QED BY <1>1, <1>5

\* What a run of the loop says of the file, from whatever record on: it is
\* sound under any failures, and without one it complains only of what is bad.
LEMMA LoopsSay ==
  ASSUME NEW f, IsFile(f), NEW h \in BunHeader, NEW stops, IsStops(stops),
         NEW g, Loops(f, h, stops, 0, g)
  PROVE  \A k \in 0 .. h.asset_count :
           /\ IsOutcome(g[k])
           /\ h = f.header => Sound(f, k, g[k])
           /\ h = f.header /\ ~HeaderMalformed(f) /\ stops = NoFailures => Deserved(f, k, g[k])
<1> DEFINE n == h.asset_count
           Q(k) == /\ IsOutcome(g[k])
                   /\ h = f.header => Sound(f, k, g[k])
                   /\ h = f.header /\ ~HeaderMalformed(f) /\ stops = NoFailures
                        => Deserved(f, k, g[k])
           Bad == {d \in Nat : d <= n /\ ~Q(n - d)}
<1>0. n \in Nat
  BY DEF BunHeader, u32
<1>1. ASSUME NEW k \in 0 .. n, k < n => Q(k + 1) PROVE Q(k)
  <2>1. g[k] = Turn(f, h, k, stops, g[k + 1])
    BY DEF Loops
  <2>2. k \in Nat /\ k <= n
    <3> HIDE DEF n
    <3>1. QED BY <1>0
  <2>3. IsOutcome(g[k])
    BY <1>1, <2>1, <2>2, TurnType
  <2>4. h = f.header => Sound(f, k, g[k])
    BY <1>1, <2>1, <2>2, TurnSound
  <2>5. h = f.header /\ ~HeaderMalformed(f) /\ stops = NoFailures => Deserved(f, k, g[k])
    BY <1>1, <2>1, <2>2, TurnDeserved
  <2>6. QED BY <2>3, <2>4, <2>5
<1> HIDE DEF Q, n
<1>2. Bad = {}
  <2>1. SUFFICES ASSUME Bad # {} PROVE FALSE
    OBVIOUS
  <2>2. PICK m \in Bad : \A d \in Bad : m <= d
    <3>1. Bad \in SUBSET Nat
      OBVIOUS
    <3> HIDE DEF Bad
    <3>2. QED BY <2>1, <3>1, LeastMember
  <2>3. m \in Nat /\ m <= n /\ ~Q(n - m)
    OBVIOUS
  <2>4. n - m < n => Q(n - m + 1)
    <3>1. SUFFICES ASSUME n - m < n PROVE Q(n - m + 1)
      OBVIOUS
    <3>2. m - 1 \in Nat /\ m - 1 <= n /\ ~(m <= m - 1) /\ n - (m - 1) = n - m + 1
      BY <1>0, <2>3, <3>1
    <3>3. Q(n - (m - 1))
      BY <2>2, <3>2
    <3>4. QED BY <3>2, <3>3
  <2>5. n - m \in 0 .. n
    BY <1>0, <2>3
  <2>6. QED BY <1>1, <2>3, <2>4, <2>5
<1>3. ASSUME NEW k \in 0 .. n PROVE Q(k)
  <2>1. n - k \in Nat /\ n - k <= n /\ n - (n - k) = k
    BY <1>0
  <2>2. Q(n - (n - k))
    BY <1>2, <2>1
  <2>3. QED BY <2>1, <2>2
<1>4. QED BY <1>3 DEF Q, n

-----------------------------------------------------------------------------
(* The two functions.                                                       *)

\* A context, whatever stands for its FILE.
ContextOf(S) ==
  [file : S, file_size : offset_t, header_loaded : BOOLEAN, errors : Seq(Error),
   saw_malformed : BOOLEAN, saw_unsupported : BOOLEAN]

\* add_error sets the flags its messages call for, and clears none.
LEMMA AddErrorAny ==
  ASSUME NEW S, NEW c \in ContextOf(S), NEW es \in Seq(Error), NEW d, d = add_error(c, es)
  PROVE  /\ d \in ContextOf(S)
         /\ d.file = c.file /\ d.file_size = c.file_size
         /\ d.header_loaded = c.header_loaded
         /\ d.saw_malformed <=> c.saw_malformed \/ Has(es, BUN_MALFORMED)
         /\ d.saw_unsupported <=> c.saw_unsupported \/ Has(es, BUN_UNSUPPORTED)
<1>1. c.errors \o es \in Seq(Error)
  BY DEF ContextOf
<1>2. Capped(c.errors \o es) \in Seq(Error)
  BY <1>1, CappedType
<1>3. Has(es, BUN_MALFORMED) \in BOOLEAN /\ Has(es, BUN_UNSUPPORTED) \in BOOLEAN
  BY DEF Has
<1>4. QED BY <1>2, <1>3 DEF add_error, ContextOf

\* The verdict is read off the flags, malformed first.
LEMMA ResultIs ==
  ASSUME NEW c
  PROVE  /\ bun_context_result(c) = BUN_MALFORMED <=> c.saw_malformed
         /\ bun_context_result(c) = BUN_UNSUPPORTED <=> ~c.saw_malformed /\ c.saw_unsupported
         /\ bun_context_result(c) = BUN_OK <=> ~c.saw_malformed /\ ~c.saw_unsupported
         /\ bun_context_result(c) \in {BUN_OK, BUN_MALFORMED, BUN_UNSUPPORTED}
BY DEF bun_context_result, BUN_OK, BUN_MALFORMED, BUN_UNSUPPORTED

\* The result codes differ.
LEMMA CodesApart ==
  /\ BUN_OK \notin {BUN_MALFORMED, BUN_UNSUPPORTED, BUN_ERR_IO, BUN_ERR_INTERNAL}
  /\ BUN_MALFORMED \notin {BUN_UNSUPPORTED, BUN_ERR_IO, BUN_ERR_INTERNAL}
  /\ BUN_UNSUPPORTED \notin {BUN_ERR_IO, BUN_ERR_INTERNAL}
  /\ BUN_ERR_IO # BUN_ERR_INTERNAL
BY DEF BUN_OK, BUN_MALFORMED, BUN_UNSUPPORTED, BUN_ERR_IO, BUN_ERR_INTERNAL

\* bun_parse_header adds to the flags what the header is.
LEMMA HeaderCall ==
  ASSUME NEW S, NEW c \in ContextOf(S), NEW f, IsFile(f), c.file_size = f.size,
         NEW p, p = parse_header(f, c)
  PROVE  /\ p.ctx \in ContextOf(S) /\ p.header \in BunHeader
         /\ p.ctx.file = c.file /\ p.ctx.file_size = c.file_size
         /\ p.result = bun_context_result(p.ctx)
         /\ p.ctx.saw_malformed <=> c.saw_malformed \/ HeaderMalformed(f)
         /\ c.saw_unsupported => p.ctx.saw_unsupported
         /\ IF f.size < BUN_HEADER_SIZE
              THEN ~p.ctx.header_loaded
              ELSE /\ p.ctx.header_loaded /\ p.header = f.header
                   /\ p.ctx.saw_unsupported <=> c.saw_unsupported \/ HeaderUnsupported(f)
<1> DEFINE es == validate_header_basic(f.header) \o validate_header_offsets(f.header, f.size)
           e1 == Check(TRUE, BUN_MALFORMED, "file too small", <<>>)
           loaded == [c EXCEPT !.header_loaded = TRUE]
           cleared == [c EXCEPT !.header_loaded = FALSE]
<1>1. f.header \in BunHeader /\ f.size \in offset_t /\ f.size \in Nat /\ BUN_HEADER_SIZE \in Nat
  BY WidthAssumption DEF IsFile, offset_t
<1>2. /\ loaded \in ContextOf(S) /\ loaded.file = c.file /\ loaded.file_size = c.file_size
      /\ loaded.header_loaded = TRUE
      /\ loaded.saw_malformed = c.saw_malformed /\ loaded.saw_unsupported = c.saw_unsupported
  BY DEF ContextOf
<1>3. /\ cleared \in ContextOf(S) /\ cleared.file = c.file /\ cleared.file_size = c.file_size
      /\ cleared.header_loaded = FALSE
      /\ cleared.saw_malformed = c.saw_malformed /\ cleared.saw_unsupported = c.saw_unsupported
  BY DEF ContextOf
<1>4. CASE f.size < BUN_HEADER_SIZE
  <2>1. p.ctx = add_error(cleared, e1) /\ p.result = bun_context_result(p.ctx) /\ p.header = ZeroHeader
    BY <1>4 DEF parse_header
  <2>2. e1 \in Seq(Error) /\ Has(e1, BUN_MALFORMED)
    <3>1. e1 \in Seq(Error)
      BY CheckType, PlaceType DEF Complaint
    <3>2. QED BY <3>1, HasCheck, Zenon
  <2>3. HeaderMalformed(f)
    BY <1>4 DEF HeaderMalformed
  <2> HIDE DEF e1, cleared
  <2>4. /\ p.ctx \in ContextOf(S) /\ p.ctx.file = c.file /\ p.ctx.file_size = c.file_size
        /\ ~p.ctx.header_loaded /\ p.ctx.saw_malformed
        /\ c.saw_unsupported => p.ctx.saw_unsupported
    BY <1>3, <2>1, <2>2, AddErrorAny
  <2>5. p.header \in BunHeader
    BY <2>1, ZeroTypes
  <2>6. QED BY <1>4, <2>1, <2>3, <2>4, <2>5
<1>5. CASE ~(f.size < BUN_HEADER_SIZE)
  <2>1. p.ctx = add_error(loaded, es) /\ p.result = bun_context_result(p.ctx) /\ p.header = f.header
    BY <1>5 DEF parse_header
  <2>2. /\ es \in Seq(Error)
        /\ Has(es, BUN_MALFORMED) <=> HeaderMalformed(f)
        /\ Has(es, BUN_UNSUPPORTED) <=> HeaderUnsupported(f)
    <3>1. f.size >= BUN_HEADER_SIZE
      BY <1>1, <1>5
    <3>2. QED BY <1>1, <3>1, HeaderExact
  <2> HIDE DEF es, loaded
  <2>3. /\ p.ctx \in ContextOf(S) /\ p.ctx.file = c.file /\ p.ctx.file_size = c.file_size
        /\ p.ctx.header_loaded
        /\ p.ctx.saw_malformed <=> c.saw_malformed \/ Has(es, BUN_MALFORMED)
        /\ p.ctx.saw_unsupported <=> c.saw_unsupported \/ Has(es, BUN_UNSUPPORTED)
    BY <1>2, <2>1, <2>2, AddErrorAny
  <2>4. QED BY <1>1, <1>5, <2>1, <2>2, <2>3
<1>6. QED BY <1>4, <1>5

\* The loop makes messages of any file, whatever header it is given.
LEMMA LoopType ==
  ASSUME NEW f, IsFile(f), NEW h \in BunHeader, NEW stops, IsStops(stops)
  PROVE  IsOutcome(AssetLoop(f, h, stops))
<1>1. 0 \in 0 .. h.asset_count
  BY DEF BunHeader, u32
<1>2. QED BY <1>1, LoopIs, LoopsSay

\* Under the file's own header it is right about the file.
LEMMA LoopSays ==
  ASSUME NEW f, IsFile(f), NEW stops, IsStops(stops),
         NEW t, t = AssetLoop(f, f.header, stops)
  PROVE  /\ Sound(f, 0, t)
         /\ ~HeaderMalformed(f) /\ stops = NoFailures => Deserved(f, 0, t)
<1>1. f.header \in BunHeader /\ 0 \in 0 .. f.header.asset_count
  BY DEF IsFile, BunHeader, u32
<1>2. PICK g : Loops(f, f.header, stops, 0, g) /\ t = g[0]
  BY <1>1, LoopIs
<1>3. QED BY <1>1, <1>2, LoopsSay

\* bun_parse_assets adds to the flags what the records are, and answers by the
\* flags unless a seek has failed.
LEMMA AssetsCall ==
  ASSUME NEW S, NEW c \in ContextOf(S), NEW f, IsFile(f), NEW h \in BunHeader,
         NEW stops, IsStops(stops), NEW p, p = parse_assets(f, h, c, stops)
  PROVE  LET t == AssetLoop(f, h, stops) IN
         /\ p.ctx \in ContextOf(S)
         /\ p.ctx.file = c.file /\ p.ctx.file_size = c.file_size
         /\ p.ctx.saw_malformed <=> c.saw_malformed \/ Has(t.es, BUN_MALFORMED)
         /\ p.ctx.saw_unsupported <=> c.saw_unsupported \/ Has(t.es, BUN_UNSUPPORTED)
         /\ t.io => p.result = BUN_ERR_IO
         /\ ~t.io => p.result = bun_context_result(p.ctx)
<1> DEFINE t == AssetLoop(f, h, stops)
<1>1. IsOutcome(t)
  BY LoopType
<1>2. p.ctx = add_error(c, t.es)
      /\ (t.io => p.result = BUN_ERR_IO) /\ (~t.io => p.result = bun_context_result(p.ctx))
  BY DEF parse_assets
<1> HIDE DEF t
<1>3. t.es \in Seq(Error)
  BY <1>1 DEF IsOutcome
<1>4. QED BY <1>2, <1>3, AddErrorAny DEF t

\* Called in main's order on a context fresh from bun_open, with no call that
\* fails, the two functions compute the class of the file (bun_parse.c 81-164).
THEOREM CallsClassify ==
  ASSUME NEW f, IsFile(f), NEW c \in ContextOf({"open"}), c.file_size = f.size,
         ~c.saw_malformed, ~c.saw_unsupported
  PROVE  LET h == parse_header(f, c)
             a == parse_assets(f, h.header, h.ctx, NoFailures)
         IN  (IF h.result = BUN_OK THEN a.result ELSE h.result) = Classify(f)
<1> DEFINE h == parse_header(f, c)
           a == parse_assets(f, h.header, h.ctx, NoFailures)
           t == AssetLoop(f, f.header, NoFailures)
<1>1. /\ h.ctx \in ContextOf({"open"}) /\ h.header \in BunHeader
      /\ h.result = bun_context_result(h.ctx)
      /\ h.ctx.saw_malformed <=> HeaderMalformed(f)
      /\ ~(f.size < BUN_HEADER_SIZE) => /\ h.header = f.header
                                        /\ h.ctx.saw_unsupported <=> HeaderUnsupported(f)
  BY HeaderCall
<1>2. f.size < BUN_HEADER_SIZE => HeaderMalformed(f)
  BY DEF HeaderMalformed
<1>3. IsStops(NoFailures)
  BY DEF IsStops, NoFailures
<1>4. CASE h.result # BUN_OK
  <2> HIDE DEF h
  <2>1. h.result = Classify(f)
    BY <1>1, <1>2, <1>4, ResultIs DEF Classify
  <2>2. QED BY <1>4, <2>1 DEF h
<1>5. CASE h.result = BUN_OK
  <2>1. ~HeaderMalformed(f) /\ ~HeaderUnsupported(f) /\ h.header = f.header
        /\ ~h.ctx.saw_malformed /\ ~h.ctx.saw_unsupported
    <3> HIDE DEF h
    <3>1. QED BY <1>1, <1>2, <1>5, ResultIs
  <2>2. /\ a.ctx.saw_malformed <=> Has(t.es, BUN_MALFORMED)
        /\ a.ctx.saw_unsupported <=> Has(t.es, BUN_UNSUPPORTED)
        /\ ~t.io => a.result = bun_context_result(a.ctx)
    <3> HIDE DEF h, t
    <3>1. a = parse_assets(f, f.header, h.ctx, NoFailures) /\ f.header \in BunHeader
      BY <2>1 DEF IsFile
    <3> HIDE DEF a
    <3>2. QED BY <1>1, <1>3, <2>1, <3>1, AssetsCall DEF t
  <2>3. Sound(f, 0, t) /\ Deserved(f, 0, t)
    BY <1>3, <2>1, LoopSays
  <2> HIDE DEF h, t, a
  <2>4. a.result = Classify(f)
    <3>1. ~t.io
      BY <2>3 DEF Deserved
    <3>2. CASE Has(t.es, BUN_MALFORMED)
      <4>1. \E j \in 0 .. f.header.asset_count - 1 : RecordMalformed(f, Entry(f, j))
        BY <2>3, <3>2 DEF Deserved
      <4>2. Classify(f) = BUN_MALFORMED
        BY <2>1, <4>1 DEF Classify
      <4>3. QED BY <2>2, <3>1, <3>2, <4>2, ResultIs
    <3>3. CASE ~Has(t.es, BUN_MALFORMED)
      <4>1. /\ ~\E j \in 0 .. f.header.asset_count - 1 : RecordMalformed(f, Entry(f, j))
            /\ Has(t.es, BUN_UNSUPPORTED) <=>
                 \E j \in 0 .. f.header.asset_count - 1 : RecordUnsupported(Entry(f, j))
        BY <2>3, <3>1, <3>3 DEF Sound
      <4>2. Classify(f) = IF Has(t.es, BUN_UNSUPPORTED) THEN BUN_UNSUPPORTED ELSE BUN_OK
        BY <2>1, <4>1, Zenon DEF Classify
      <4>3. QED BY <2>2, <3>1, <3>3, <4>2, ResultIs
    <3>4. QED BY <3>2, <3>3
  <2>5. QED BY <1>5, <2>4 DEF h, a
<1>6. QED BY <1>4, <1>5

=============================================================================
