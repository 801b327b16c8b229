------------------------- MODULE BunValidate_proofs -------------------------
(* What add_error does to the context, and what the validators report,       *)
(* against what BunFormat says of the file.                                 *)
EXTENDS BunValidate, BunFormat, SequencesExt, TLAPS, SequenceTheorems,
        WellFoundedInduction

-----------------------------------------------------------------------------
(* add_error and its rows.                                                  *)

\* An empty or a one-message row of add_error calls is a row of messages.
LEMMA CheckType ==
  ASSUME NEW bad, NEW code \in {BUN_MALFORMED, BUN_UNSUPPORTED},
         NEW what \in Complaint, NEW at \in Seq(Nat)
  PROVE  Check(bad, code, what, at) \in Seq(Error)
<1>1. [code |-> code, what |-> what, at |-> at] \in Error
  BY DEF Error
<1>2. QED BY <1>1, EmptySeq DEF Check

\* A row of calls has a code just when one of its halves has it.
LEMMA HasConcat ==
  ASSUME NEW S, NEW s \in Seq(S), NEW t \in Seq(S), NEW code
  PROVE  Has(s \o t, code) <=> Has(s, code) \/ Has(t, code)
<1>1. ASSUME Has(s \o t, code) PROVE Has(s, code) \/ Has(t, code)
  <2>1. PICK k \in 1 .. Len(s) + Len(t) : (s \o t)[k].code = code
    BY <1>1 DEF Has
  <2>2. CASE k <= Len(s)
    BY <2>1, <2>2 DEF Has
  <2>3. CASE k > Len(s)
    <3>1. k - Len(s) \in DOMAIN t /\ (s \o t)[k] = t[k - Len(s)]
      BY <2>1, <2>3
    <3>2. QED BY <2>1, <3>1 DEF Has
  <2>4. QED BY <2>2, <2>3
<1>2. ASSUME Has(s, code) PROVE Has(s \o t, code)
  <2>1. PICK k \in DOMAIN s : s[k].code = code
    BY <1>2 DEF Has
  <2>2. k \in DOMAIN (s \o t) /\ (s \o t)[k] = s[k]
    BY <2>1
  <2>3. QED BY <2>1, <2>2 DEF Has
<1>3. ASSUME Has(t, code) PROVE Has(s \o t, code)
  <2>1. PICK k \in DOMAIN t : t[k].code = code
    BY <1>3 DEF Has
  <2>2. Len(s) + k \in DOMAIN (s \o t) /\ (s \o t)[Len(s) + k] = t[k]
    BY <2>1
  <2>3. QED BY <2>1, <2>2 DEF Has
<1>4. QED BY <1>1, <1>2, <1>3

\* A check contributes its code just when it fails.
LEMMA HasCheck ==
  ASSUME NEW bad, NEW code, NEW what, NEW at, NEW c
  PROVE  Has(Check(bad, code, what, at), c) <=> bad /\ code = c
BY DEF Has, Check

\* Keeping the first MAX_ERRORS messages keeps a row of messages a row of
\* messages, and never makes it longer than the list.
LEMMA CappedType ==
  ASSUME NEW S, NEW s \in Seq(S)
  PROVE  Capped(s) \in Seq(S) /\ Len(Capped(s)) <= MAX_ERRORS
<1>1. CASE Len(s) <= MAX_ERRORS
  BY <1>1 DEF Capped
<1>2. CASE ~(Len(s) <= MAX_ERRORS)
  <2>1. MAX_ERRORS \in 0 .. Len(s)
    BY <1>2, WidthAssumption
  <2>2. SubSeq(s, 1, MAX_ERRORS) \in Seq(S) /\ Len(SubSeq(s, 1, MAX_ERRORS)) = MAX_ERRORS
    BY <2>1, SubSeqProperties
  <2>3. QED BY <1>2, <2>1, <2>2 DEF Capped
<1>3. QED BY <1>1, <1>2

\* add_error keeps the context well-typed and within the array errors[]. It
\* never clears a flag, and sets the one its messages call for even when the
\* list is full (bun_utils.c 113-121).
LEMMA AddErrorContext ==
  ASSUME NEW c \in BunParseContext, NEW es \in Seq(Error)
  PROVE  LET d == add_error(c, es) IN
         /\ d \in BunParseContext /\ Len(d.errors) <= MAX_ERRORS
         /\ d.file = c.file /\ d.file_size = c.file_size
         /\ d.header_loaded = c.header_loaded
         /\ d.saw_malformed <=> c.saw_malformed \/ Has(es, BUN_MALFORMED)
         /\ d.saw_unsupported <=> c.saw_unsupported \/ Has(es, BUN_UNSUPPORTED)
<1>1. c.errors \o es \in Seq(Error)
  BY DEF BunParseContext
<1>2. Capped(c.errors \o es) \in Seq(Error) /\ Len(Capped(c.errors \o es)) <= MAX_ERRORS
  BY <1>1, CappedType
<1>3. Has(es, BUN_MALFORMED) \in BOOLEAN /\ Has(es, BUN_UNSUPPORTED) \in BOOLEAN
  BY DEF Has
<1>4. QED BY <1>2, <1>3 DEF add_error, BunParseContext

\* What does not fit is lost for good: appending to the capped list keeps the
\* same messages as capping the whole list at the end.
LEMMA CappedAppend ==
  ASSUME NEW S, NEW u \in Seq(S), NEW t \in Seq(S)
  PROVE  Capped(Capped(u) \o t) = Capped(u \o t)
<1>1. CASE Len(u) <= MAX_ERRORS
  BY <1>1 DEF Capped
<1>2. CASE ~(Len(u) <= MAX_ERRORS)
  <2> DEFINE v == SubSeq(u, 1, MAX_ERRORS)
             x == SubSeq(u \o t, 1, MAX_ERRORS)
             y == SubSeq(v \o t, 1, MAX_ERRORS)
  <2>1. MAX_ERRORS \in Nat /\ Len(u) > MAX_ERRORS /\ Capped(u) = v
    BY <1>2, WidthAssumption DEF Capped
  <2>2. /\ v \in Seq(S) /\ Len(v) = MAX_ERRORS
        /\ \A k \in 1 .. MAX_ERRORS : v[k] = u[k]
    BY <2>1, SubSeqProperties
  <2> HIDE DEF v
  <2>3. /\ u \o t \in Seq(S) /\ Len(u \o t) = Len(u) + Len(t)
        /\ v \o t \in Seq(S) /\ Len(v \o t) = MAX_ERRORS + Len(t)
        /\ \A k \in 1 .. MAX_ERRORS : (u \o t)[k] = v[k] /\ (v \o t)[k] = v[k]
    BY <2>1, <2>2
  <2>4. x = v
    <3>1. /\ x \in Seq(S) /\ Len(x) = MAX_ERRORS
          /\ \A k \in 1 .. MAX_ERRORS : x[k] = v[k]
      BY <2>1, <2>3, SubSeqProperties
    <3>2. QED BY <2>2, <3>1, SeqEqual
  <2>5. y = v
    <3>1. /\ y \in Seq(S) /\ Len(y) = MAX_ERRORS
          /\ \A k \in 1 .. MAX_ERRORS : y[k] = v[k]
      BY <2>1, <2>3, SubSeqProperties
    <3>2. QED BY <2>2, <3>1, SeqEqual
  <2>6. Capped(u \o t) = v
    BY <2>1, <2>3, <2>4 DEF Capped
  <2>7. Capped(v \o t) = v
    <3>1. CASE t = <<>>
      BY <2>2, <3>1, ConcatEmptySeq DEF Capped
    <3>2. CASE t # <<>>
      <4>1. ~(Len(v \o t) <= MAX_ERRORS)
        BY <2>1, <2>3, <3>2, EmptySeq
      <4>2. QED BY <2>5, <4>1 DEF Capped
    <3>3. QED BY <3>1, <3>2
  <2>8. QED BY <2>1, <2>6, <2>7
<1>3. QED BY <1>1, <1>2

\* A list within the capacity is a prefix of what any messages make of it.
LEMMA CappedKeeps ==
  ASSUME NEW S, NEW u \in Seq(S), NEW t \in Seq(S), Len(u) <= MAX_ERRORS
  PROVE  /\ Len(u) <= Len(Capped(u \o t))
         /\ SubSeq(Capped(u \o t), 1, Len(u)) = u
<1> DEFINE v == u \o t
           n == Len(u)
           c == Capped(v)
<1>1. /\ v \in Seq(S) /\ Len(v) = n + Len(t) /\ n \in Nat /\ Len(t) \in Nat
      /\ \A k \in 1 .. n : v[k] = u[k]
      /\ MAX_ERRORS \in Nat /\ n <= MAX_ERRORS
  BY WidthAssumption
<1> HIDE DEF v
<1>2. c \in Seq(S) /\ n <= Len(c) /\ \A k \in 1 .. n : c[k] = u[k]
  <2>1. CASE Len(v) <= MAX_ERRORS
    BY <1>1, <2>1 DEF Capped
  <2>2. CASE ~(Len(v) <= MAX_ERRORS)
    <3>1. c = SubSeq(v, 1, MAX_ERRORS)
      BY <2>2 DEF Capped
    <3>2. c \in Seq(S) /\ Len(c) = MAX_ERRORS /\ \A k \in 1 .. MAX_ERRORS : c[k] = v[k]
      BY <1>1, <2>2, <3>1, SubSeqProperties
    <3>3. QED BY <1>1, <3>2
  <2>3. QED BY <2>1, <2>2
<1> HIDE DEF c
<1>3. /\ SubSeq(c, 1, n) \in Seq(S) /\ Len(SubSeq(c, 1, n)) = n
      /\ \A k \in 1 .. n : SubSeq(c, 1, n)[k] = u[k]
  BY <1>1, <1>2, SubSeqProperties
<1>4. SubSeq(c, 1, n) = u
  BY <1>3, SeqEqual
<1>5. QED BY <1>2, <1>4 DEF c, v

\* A row of calls is the same as its first part followed by its second: the
\* one-application form of the model is what consecutive add_error calls do,
\* the array filling up in the middle included.
THEOREM add_error_composes ==
  ASSUME NEW c \in BunParseContext,
         NEW s \in Seq(Error), NEW t \in Seq(Error)
  PROVE  add_error(add_error(c, s), t) = add_error(c, s \o t)
<1>1. c.errors \in Seq(Error) /\ c.errors \o s \in Seq(Error)
  BY DEF BunParseContext
<1>2. (c.errors \o s) \o t = c.errors \o (s \o t)
  <2>1. \A e \in Seq(Error) : (e \o s) \o t = e \o (s \o t)
    BY ConcatAssociative
  <2>2. QED BY <1>1, <2>1
<1>3. Capped(Capped(c.errors \o s) \o t) = Capped(c.errors \o (s \o t))
  BY <1>1, <1>2, CappedAppend
<1>4. \A code : Has(s \o t, code) <=> Has(s, code) \/ Has(t, code)
  BY HasConcat
<1>5. QED BY <1>3, <1>4 DEF add_error, BunParseContext

\* A non-empty set of naturals has a least member.
LEMMA LeastMember ==
  ASSUME NEW S \in SUBSET Nat, S # {}
  PROVE  \E p \in S : \A q \in S : p <= q
<1>1. PICK p \in S : \A q \in S : ~(<<q, p>> \in OpToRel(<, Nat))
  BY NatLessThanWellFounded, WFMin
<1>2. \A q \in S : ~(q < p)
  BY <1>1 DEF OpToRel
<1>3. QED BY <1>2


-----------------------------------------------------------------------------
(* The validators return rows of messages.                                  *)

\* Two rows of messages are a row of messages.
LEMMA ConcatType ==
  ASSUME NEW S, NEW s \in Seq(S), NEW t \in Seq(S)
  PROVE  s \o t \in Seq(S)
OBVIOUS

\* The saturating operations return a flag and a u64.
LEMMA SaturatingType ==
  ASSUME NEW n \in Nat
  PROVE  Saturating(n) \in [ok : BOOLEAN, out : u64]
BY WidthAssumption DEF Saturating, u64

\* Without overflow the saturating operations are exact.
LEMMA SaturatingExact ==
  ASSUME NEW n \in Nat
  PROVE  /\ Saturating(n).ok <=> n <= UINT64_MAX
         /\ n <= UINT64_MAX => Saturating(n).out = n
BY WidthAssumption DEF Saturating

\* The places a message names: one section or asset, or two numbers.
LEMMA PlaceType ==
  /\ <<>> \in Seq(Nat)
  /\ \A k \in Nat : <<k>> \in Seq(Nat)
  /\ \A j, k \in Nat : <<j, k>> \in Seq(Nat)
OBVIOUS

\* validate_header_basic makes a row of messages.
LEMMA HeaderBasicType ==
  ASSUME NEW h \in BunHeader
  PROVE  validate_header_basic(h) \in Seq(Error)
<1>1. Check(h.magic # BUN_MAGIC, BUN_MALFORMED, "magic", <<>>) \in Seq(Error)
  BY CheckType, PlaceType DEF Complaint
<1>2. Check(h.version_major # BUN_VERSION_MAJOR \/ h.version_minor # BUN_VERSION_MINOR,
            BUN_UNSUPPORTED, "version", <<>>) \in Seq(Error)
  BY CheckType, PlaceType DEF Complaint
<1>3. QED BY <1>1, <1>2, ConcatType DEF validate_header_basic

\* So do the alignment checks,
LEMMA AlignmentType ==
  ASSUME NEW h \in BunHeader
  PROVE  Alignment(h) \in Seq(Error)
<1>1. \A n, k \in Nat : Check(~is_aligned4(n), BUN_MALFORMED, "align", <<k>>) \in Seq(Error)
  BY CheckType, PlaceType DEF Complaint
<1>2. /\ h.asset_table_offset \in Nat /\ h.string_table_offset \in Nat
      /\ h.string_table_size \in Nat /\ h.data_section_offset \in Nat
      /\ h.data_section_size \in Nat
  BY WidthAssumption DEF BunHeader, u64
<1> DEFINE a(n, k) == Check(~is_aligned4(n), BUN_MALFORMED, "align", <<k>>)
<1>3. /\ a(h.asset_table_offset, 1) \in Seq(Error)
      /\ a(h.string_table_offset, 2) \in Seq(Error)
      /\ a(h.string_table_size, 3) \in Seq(Error)
      /\ a(h.data_section_offset, 4) \in Seq(Error)
      /\ a(h.data_section_size, 5) \in Seq(Error)
  BY <1>1, <1>2
<1>4. Alignment(h) =
        a(h.asset_table_offset, 1) \o a(h.string_table_offset, 2)
          \o a(h.string_table_size, 3) \o a(h.data_section_offset, 4)
          \o a(h.data_section_size, 5)
  BY DEF Alignment
<1> HIDE DEF a
<1>5. QED BY <1>3, <1>4, ConcatType

SectionType == [offset : u64, size : u64]

\* asset_count * BUN_ASSET_RECORD_SIZE cannot overflow a u64.
LEMMA TableSizeExact ==
  ASSUME NEW h \in BunHeader
  PROVE  /\ TableSize(h).ok
         /\ TableSize(h).out = h.asset_count * BUN_ASSET_RECORD_SIZE
         /\ TableSize(h).out \in u64
<1>1. h.asset_count \in 0 .. UINT32_MAX /\ BUN_ASSET_RECORD_SIZE \in Nat
  BY WidthAssumption DEF BunHeader, u32
<1>2. \A a, b, c \in Nat : a <= b => a * c <= b * c
  OBVIOUS
<1>3. h.asset_count * BUN_ASSET_RECORD_SIZE <= UINT32_MAX * BUN_ASSET_RECORD_SIZE
  BY <1>1, <1>2, WidthAssumption
<1>4. h.asset_count * BUN_ASSET_RECORD_SIZE \in 0 .. UINT64_MAX
  <2>1. h.asset_count * BUN_ASSET_RECORD_SIZE \in Nat /\ UINT32_MAX * BUN_ASSET_RECORD_SIZE \in Nat
    BY <1>1, WidthAssumption
  <2>2. QED BY <1>3, <2>1, WidthAssumption
<1>5. TableSize(h) = Saturating(h.asset_count * BUN_ASSET_RECORD_SIZE)
  BY DEF TableSize, bun_u64_mul
<1>6. QED BY <1>4, <1>5, SaturatingExact DEF u64

\* The four sections have u64 offsets and sizes.
LEMMA SectionsType ==
  ASSUME NEW h \in BunHeader
  PROVE  /\ sections(h)[1] = Section(0, BUN_HEADER_SIZE)
         /\ sections(h)[2] = Section(h.asset_table_offset, TableSize(h).out)
         /\ sections(h)[3] = Section(h.string_table_offset, h.string_table_size)
         /\ sections(h)[4] = Section(h.data_section_offset, h.data_section_size)
         /\ \A k \in 1 .. 4 : sections(h)[k] \in SectionType
<1>1. /\ h.asset_table_offset \in u64 /\ h.string_table_offset \in u64
      /\ h.string_table_size \in u64 /\ h.data_section_offset \in u64
      /\ h.data_section_size \in u64 /\ TableSize(h).out \in u64
      /\ 0 \in u64 /\ BUN_HEADER_SIZE \in u64
  BY TableSizeExact, WidthAssumption DEF BunHeader, u64
<1>2. QED BY <1>1 DEF sections, Section, SectionType

\* The bounds checks of a section make a row of messages,
LEMMA BoundsType ==
  ASSUME NEW s \in SectionType, NEW k \in 1 .. 4, NEW file_size \in offset_t
  PROVE  Bounds(s, k, file_size) \in Seq(Error)
<1>1. <<k>> \in Seq(Nat)
  OBVIOUS
<1>2. Check(~section_end(s).ok, BUN_MALFORMED, "end overflow", <<k>>) \in Seq(Error)
  BY <1>1, CheckType DEF Complaint
<1>3. Check(section_end(s).ok /\ ~check_range_within_file(s.offset, s.size, file_size),
            BUN_MALFORMED, "outside file", <<k>>) \in Seq(Error)
  BY <1>1, CheckType DEF Complaint
<1>4. QED BY <1>2, <1>3, ConcatType DEF Bounds

\* and so does the overlap check of two,
LEMMA OverlapType ==
  ASSUME NEW ss, NEW j \in 1 .. 4, NEW k \in 1 .. 4
  PROVE  Overlap(ss, j, k) \in Seq(Error)
<1>1. <<j, k>> \in Seq(Nat)
  OBVIOUS
<1>2. QED BY <1>1, CheckType DEF Overlap, Complaint

\* and so does validate_header_offsets as a whole.
LEMMA HeaderOffsetsType ==
  ASSUME NEW h \in BunHeader, NEW file_size \in offset_t
  PROVE  validate_header_offsets(h, file_size) \in Seq(Error)
<1> DEFINE ss == sections(h)
           b(k) == Bounds(ss[k], k, file_size)
<1>1. /\ b(1) \in Seq(Error) /\ b(2) \in Seq(Error)
      /\ b(3) \in Seq(Error) /\ b(4) \in Seq(Error)
  <2>1. \A k \in 1 .. 4 : ss[k] \in SectionType
    BY SectionsType
  <2> HIDE DEF ss
  <2>2. \A k \in 1 .. 4 : b(k) \in Seq(Error)
    BY <2>1, BoundsType
  <2>3. 1 \in 1 .. 4 /\ 2 \in 1 .. 4 /\ 3 \in 1 .. 4 /\ 4 \in 1 .. 4
    OBVIOUS
  <2>4. QED BY <2>2, <2>3, Zenon
<1>2. \A j, k \in 1 .. 4 : Overlap(ss, j, k) \in Seq(Error)
  BY OverlapType
<1>3. Check(~TableSize(h).ok, BUN_MALFORMED, "table overflow", <<>>) \in Seq(Error)
  BY TableSizeExact, CheckType, PlaceType DEF Complaint
<1>4. b(1) \o b(2) \o b(3) \o b(4) \in Seq(Error)
  BY <1>1, ConcatType
<1>5. Overlap(ss, 1, 2) \o Overlap(ss, 1, 3) \o Overlap(ss, 1, 4)
        \o Overlap(ss, 2, 3) \o Overlap(ss, 2, 4) \o Overlap(ss, 3, 4) \in Seq(Error)
  BY <1>2, ConcatType
<1>6. Alignment(h) \in Seq(Error)
  BY AlignmentType
<1>7. QED BY <1>3, <1>4, <1>5, <1>6, ConcatType DEF validate_header_offsets

\* FirstOf picks the least member of a non-empty set of naturals.
LEMMA FirstOfMember ==
  ASSUME NEW S \in SUBSET Nat, S # {}
  PROVE  FirstOf(S) \in S /\ FirstOf(S) \in Nat
BY LeastMember DEF FirstOf

-----------------------------------------------------------------------------
(* Counts is a sum over data: that the recursion defines it, and its steps,  *)
(* are shown by looking at the least number for which they would fail.       *)

\* g holds the sums of the count bytes of the first 0 .. k pairs at "from".
Sums(f, from, k, g) ==
  \A j \in 0 .. k :
    g[j] = IF j = 0 THEN 0 ELSE g[j - 1] + ByteAt(f, from + 2 * (j - 1))

\* The bytes of a file are bytes.
LEMMA ByteAtType ==
  ASSUME NEW f, IsFile(f)
  PROVE  \A p : ByteAt(f, p) \in 0 .. 255 /\ ByteAt(f, p) \in Nat
BY DEF ByteAt, IsFile, Byte

\* The sums exist: the recursion that defines Counts has a solution. (The
\* least k without one would have one, that of k - 1 with one more sum.)
LEMMA SumsExist ==
  ASSUME NEW f, IsFile(f), NEW from
  PROVE  \A k \in Nat : \E g \in [0 .. k -> Nat] : Sums(f, from, k, g)
<1> DEFINE Bad == {k \in Nat : ~\E g \in [0 .. k -> Nat] : Sums(f, from, k, g)}
<1>1. SUFFICES ASSUME Bad # {} PROVE FALSE
  OBVIOUS
<1>2. PICK m \in Bad : \A n \in Bad : m <= n
  <2>1. Bad \in SUBSET Nat
    OBVIOUS
  <2> HIDE DEF Bad
  <2>2. QED BY <1>1, <2>1, LeastMember
<1>3. m # 0
  <2>1. [j \in 0 .. 0 |-> 0] \in [0 .. 0 -> Nat]
    OBVIOUS
  <2>2. Sums(f, from, 0, [j \in 0 .. 0 |-> 0])
    BY DEF Sums
  <2>3. QED BY <2>1, <2>2
<1>4. PICK g \in [0 .. m - 1 -> Nat] : Sums(f, from, m - 1, g)
  <2>1. m - 1 \in Nat /\ ~(m <= m - 1)
    BY <1>3
  <2>2. QED BY <1>2, <2>1
<1> DEFINE last == g[m - 1] + ByteAt(f, from + 2 * (m - 1))
           h == [j \in 0 .. m |-> IF j = m THEN last ELSE g[j]]
<1>5. m \in Nat /\ last \in Nat
  <2>1. m \in Nat /\ m - 1 \in 0 .. m - 1
    BY <1>3
  <2>2. g[m - 1] \in Nat
    BY <1>4, <2>1
  <2>3. ByteAt(f, from + 2 * (m - 1)) \in Nat
    BY ByteAtType, Zenon
  <2>4. QED BY <2>1, <2>2, <2>3
<1>6. h \in [0 .. m -> Nat]
  <2> HIDE DEF last
  <2>1. QED BY <1>4, <1>5
<1>7. Sums(f, from, m, h)
  <2> SUFFICES ASSUME NEW j \in 0 .. m
               PROVE  h[j] = IF j = 0 THEN 0 ELSE h[j - 1] + ByteAt(f, from + 2 * (j - 1))
    BY DEF Sums
  <2>1. CASE j = m
    <3>1. h[j] = last /\ h[j - 1] = g[j - 1]
      <4> HIDE DEF last
      <4>1. QED BY <1>3, <1>5, <2>1
    <3>2. QED BY <1>3, <2>1, <3>1
  <2>2. CASE j # m
    <3>1. j \in 0 .. m - 1 /\ h[j] = g[j] /\ (j # 0 => h[j - 1] = g[j - 1])
      <4> HIDE DEF last
      <4>1. QED BY <1>3, <1>5, <2>2
    <3> HIDE DEF h
    <3>2. QED BY <1>4, <3>1 DEF Sums
  <2>3. QED BY <2>1, <2>2
<1>8. QED BY <1>6, <1>7

\* and are determined: two solutions agree wherever both are defined.
LEMMA SumsUnique ==
  ASSUME NEW f, NEW from, NEW k \in Nat, NEW l \in Nat, NEW g, NEW h,
         Sums(f, from, k, g), Sums(f, from, l, h)
  PROVE  \A j \in Nat : j <= k /\ j <= l => g[j] = h[j]
<1> DEFINE Bad == {j \in Nat : j <= k /\ j <= l /\ g[j] # h[j]}
<1>1. SUFFICES ASSUME Bad # {} PROVE FALSE
  OBVIOUS
<1>2. PICK m \in Bad : \A n \in Bad : m <= n
  <2>1. Bad \in SUBSET Nat
    OBVIOUS
  <2> HIDE DEF Bad
  <2>2. QED BY <1>1, <2>1, LeastMember
<1>3. m \in 0 .. k /\ m \in 0 .. l /\ g[m] # h[m]
  OBVIOUS
<1>4. m # 0
  BY <1>3 DEF Sums
<1>5. g[m - 1] = h[m - 1]
  <2>1. m - 1 \in Nat /\ m - 1 <= k /\ m - 1 <= l /\ ~(m <= m - 1)
    BY <1>3, <1>4
  <2>2. QED BY <1>2, <2>1
<1>6. QED BY <1>3, <1>4, <1>5 DEF Sums

\* Counts is the last of the sums.
LEMMA CountsIs ==
  ASSUME NEW f, IsFile(f), NEW from, NEW k \in Nat, NEW l \in Nat, k <= l, NEW g,
         Sums(f, from, l, g)
  PROVE  Counts(f, from, k) = g[k]
<1> DEFINE c == CHOOSE s : s = [j \in 0 .. k |->
                   IF j = 0 THEN 0 ELSE s[j - 1] + ByteAt(f, from + 2 * (j - 1))]
<1>1. Counts(f, from, k) = c[k]
  BY DEF Counts
<1>2. PICK h \in [0 .. k -> Nat] : Sums(f, from, k, h)
  BY SumsExist
<1>3. h = [j \in 0 .. k |->
                   IF j = 0 THEN 0 ELSE h[j - 1] + ByteAt(f, from + 2 * (j - 1))]
  BY <1>2 DEF Sums
<1>4. c = [j \in 0 .. k |->
                   IF j = 0 THEN 0 ELSE c[j - 1] + ByteAt(f, from + 2 * (j - 1))]
  BY <1>3
<1> HIDE DEF c
<1>5. Sums(f, from, k, c)
  BY <1>4 DEF Sums
<1>6. c[k] = g[k]
  BY <1>5, SumsUnique
<1>7. QED BY <1>1, <1>6

\* No pair, no sum; one more pair, one more count.
LEMMA CountsSteps ==
  ASSUME NEW f, IsFile(f), NEW from, NEW k \in Nat
  PROVE  /\ Counts(f, from, 0) = 0
         /\ Counts(f, from, k) \in Nat
         /\ Counts(f, from, k + 1) = Counts(f, from, k) + ByteAt(f, from + 2 * k)
<1>1. PICK g \in [0 .. k + 1 -> Nat] : Sums(f, from, k + 1, g)
  <2>1. k + 1 \in Nat
    OBVIOUS
  <2>2. QED BY <2>1, SumsExist
<1>2. /\ Counts(f, from, 0) = g[0] /\ Counts(f, from, k) = g[k]
      /\ Counts(f, from, k + 1) = g[k + 1]
  BY <1>1, CountsIs
<1>3. g[0] = 0 /\ g[k] \in Nat /\ g[k + 1] = g[k] + ByteAt(f, from + 2 * k)
  <2>1. /\ 0 \in 0 .. k + 1 /\ k \in 0 .. k + 1 /\ k + 1 \in 0 .. k + 1
        /\ k + 1 # 0 /\ (k + 1) - 1 = k
    OBVIOUS
  <2>2. QED BY <1>1, <2>1 DEF Sums
<1>4. QED BY <1>2, <1>3

\* More pairs never expand to less.
LEMMA CountsMonotone ==
  ASSUME NEW f, IsFile(f), NEW from, NEW j \in Nat
  PROVE  \A k \in Nat : j <= k => Counts(f, from, j) <= Counts(f, from, k)
<1> DEFINE Bad == {k \in Nat : j <= k /\ ~(Counts(f, from, j) <= Counts(f, from, k))}
<1>1. SUFFICES ASSUME Bad # {} PROVE FALSE
  OBVIOUS
<1>2. PICK m \in Bad : \A n \in Bad : m <= n
  <2>1. Bad \in SUBSET Nat
    OBVIOUS
  <2> HIDE DEF Bad
  <2>2. QED BY <1>1, <2>1, LeastMember
<1>3. m # j
  BY CountsSteps
<1>4. m - 1 \in Nat /\ j <= m - 1 /\ ~(m <= m - 1)
  BY <1>3
<1>5. Counts(f, from, j) <= Counts(f, from, m - 1)
  BY <1>2, <1>4
<1>6. Counts(f, from, m) = Counts(f, from, m - 1) + ByteAt(f, from + 2 * (m - 1))
  <2>1. (m - 1) + 1 = m
    OBVIOUS
  <2>2. QED BY <1>4, <2>1, CountsSteps
<1>7. ByteAt(f, from + 2 * (m - 1)) \in Nat
  BY ByteAtType, Zenon
<1>8. Counts(f, from, j) \in Nat /\ Counts(f, from, m - 1) \in Nat
  BY <1>4, CountsSteps
<1>9. ~(Counts(f, from, j) <= Counts(f, from, m))
  OBVIOUS
<1>10. QED
  <2> HIDE DEF Bad
  <2>1. QED BY <1>5, <1>6, <1>7, <1>8, <1>9

-----------------------------------------------------------------------------
(* Payloads and records.                                                    *)

\* The payload of n bytes is pairs of non-zero count that expand to declared.
Expands(f, from, n, declared) ==
  /\ \A p \in 0 .. (n \div 2) - 1 : ByteAt(f, from + 2 * p) # 0
  /\ Counts(f, from, n \div 2) = declared

\* What the outcome of the RLE check can be, and what "ok" says: the payload
\* was read whole, no pair has a zero count, and the counts add up.
LEMMA RleVerdictFacts ==
  ASSUME NEW f, NEW from \in Nat, NEW n \in Nat, NEW left \in Nat, NEW declared
  PROVE  /\ RleVerdict(f, from, n, left, declared).what \in
              {"rle zero count", "rle expanded overflow", "rle read failed",
               "rle size", "ok"}
         /\ RleVerdict(f, from, n, left, declared).pos \in Nat
         /\ RleVerdict(f, from, n, left, declared).what = "ok" =>
              Expands(f, from, n, declared)
<1> DEFINE read == WholeChunks(n, left)
           stops == StoppingPairs(f, from, read)
           v == RleVerdict(f, from, n, left, declared)
<1>1. left % BUFFER_SIZE \in Nat /\ left % BUFFER_SIZE <= left
  BY BufferAssumption
<1>2. read \in Nat /\ (read < n \/ read = n)
  <2>1. CASE n <= left
    BY <2>1 DEF WholeChunks
  <2>2. CASE ~(n <= left)
    BY <1>1, <2>2 DEF WholeChunks
  <2>3. QED BY <2>1, <2>2
<1>3. stops \in SUBSET Nat
  BY <1>2 DEF StoppingPairs
<1>4. stops # {} => FirstOf(stops) \in Nat
  BY <1>3, FirstOfMember
<1>5. v = IF stops # {}
            THEN IF ByteAt(f, from + 2 * FirstOf(stops)) = 0
                   THEN [what |-> "rle zero count", pos |-> 2 * FirstOf(stops)]
                   ELSE [what |-> "rle expanded overflow", pos |-> 2 * FirstOf(stops)]
          ELSE IF read < n THEN [what |-> "rle read failed", pos |-> read]
          ELSE IF Counts(f, from, n \div 2) # declared
                 THEN [what |-> "rle size", pos |-> n]
                 ELSE [what |-> "ok", pos |-> n]
  BY DEF RleVerdict
<1>6. stops = {} /\ read = n =>
        \A p \in 0 .. (n \div 2) - 1 : ByteAt(f, from + 2 * p) # 0
  BY DEF StoppingPairs
<1> DEFINE Goal ==
      /\ v.what \in {"rle zero count", "rle expanded overflow",
                     "rle read failed", "rle size", "ok"}
      /\ v.pos \in Nat
      /\ v.what = "ok" =>
           stops = {} /\ read = n /\ Counts(f, from, n \div 2) = declared
<1>7. Goal
  <2> HIDE DEF stops, read, v
  <2>1. CASE stops # {} /\ ByteAt(f, from + 2 * FirstOf(stops)) = 0
    <3>1. v = [what |-> "rle zero count", pos |-> 2 * FirstOf(stops)]
      BY <1>5, <2>1
    <3>2. v.what = "rle zero count" /\ v.pos = 2 * FirstOf(stops)
      BY <3>1
    <3>3. 2 * FirstOf(stops) \in Nat
      BY <1>4, <2>1
    <3>4. QED BY <3>2, <3>3
  <2>2. CASE stops # {} /\ ByteAt(f, from + 2 * FirstOf(stops)) # 0
    <3>1. v = [what |-> "rle expanded overflow", pos |-> 2 * FirstOf(stops)]
      BY <1>5, <2>2
    <3>2. v.what = "rle expanded overflow" /\ v.pos = 2 * FirstOf(stops)
      BY <3>1
    <3>3. 2 * FirstOf(stops) \in Nat
      BY <1>4, <2>2
    <3>4. QED BY <3>2, <3>3
  <2>3. CASE stops = {} /\ read < n
    <3>1. v = [what |-> "rle read failed", pos |-> read]
      BY <1>5, <2>3
    <3>2. v.what = "rle read failed" /\ v.pos = read
      BY <3>1
    <3>3. QED BY <1>2, <3>2
  <2>4. CASE stops = {} /\ ~(read < n) /\ Counts(f, from, n \div 2) # declared
    <3>1. v = [what |-> "rle size", pos |-> n]
      BY <1>5, <2>4
    <3>2. v.what = "rle size" /\ v.pos = n
      BY <3>1
    <3>3. QED BY <3>2
  <2>5. CASE stops = {} /\ ~(read < n) /\ Counts(f, from, n \div 2) = declared
    <3>1. v = [what |-> "ok", pos |-> n]
      BY <1>5, <2>5
    <3>2. QED BY <1>2, <2>5, <3>1
  <2>6. QED BY <2>1, <2>2, <2>3, <2>4, <2>5
<1>8. QED BY <1>6, <1>7 DEF Expands

\* The RLE check makes a row of messages.
LEMMA RleErrorsType ==
  ASSUME NEW f, NEW from \in Nat, NEW n \in Nat, NEW left \in Nat, NEW declared,
         NEW i \in Nat
  PROVE  RleErrors(f, from, n, left, declared, i) \in Seq(Error)
<1> DEFINE v == RleVerdict(f, from, n, left, declared)
<1>1. v.pos \in Nat /\ (v.what # "ok" => v.what \in Complaint)
  <2>1. /\ v.what \in {"rle zero count", "rle expanded overflow",
                      "rle read failed", "rle size", "ok"}
        /\ v.pos \in Nat
    BY RleVerdictFacts
  <2> HIDE DEF v
  <2>2. QED BY <2>1 DEF Complaint
<1>2. <<i>> \in Seq(Nat) /\ <<i, v.pos>> \in Seq(Nat)
  BY <1>1
<1> HIDE DEF v
<1>3. CASE v.what = "ok"
  BY <1>3 DEF RleErrors, Check, v
<1>4. CASE v.what # "ok"
  <2>1. CASE v.what = "rle zero count"
    BY <1>1, <1>2, <1>4, <2>1, CheckType DEF RleErrors, v
  <2>2. CASE v.what # "rle zero count"
    BY <1>1, <1>2, <1>4, <2>2, CheckType DEF RleErrors, v
  <2>3. QED BY <2>1, <2>2
<1>5. QED BY <1>3, <1>4

\* The fields of headers and records are naturals within their width.
LEMMA FieldTypes ==
  ASSUME NEW h \in BunHeader, NEW r \in BunAssetRecord
  PROVE  /\ h.asset_count \in Nat
         /\ h.asset_table_offset \in Nat
         /\ h.string_table_offset \in Nat /\ h.string_table_size \in Nat
         /\ h.data_section_offset \in Nat /\ h.data_section_size \in Nat
         /\ h.string_table_size <= UINT64_MAX /\ h.data_section_size <= UINT64_MAX
         /\ r.name_offset \in Nat /\ r.name_length \in Nat
         /\ r.data_offset \in Nat /\ r.data_size \in Nat
         /\ r.uncompressed_size \in Nat /\ r.compression \in Nat
         /\ r.checksum \in Nat /\ r.flags \in Nat
BY WidthAssumption DEF BunHeader, BunAssetRecord, u32, u64

\* The absolute offsets of a name and a payload are naturals when they fit.
LEMMA StartTypes ==
  ASSUME NEW h \in BunHeader, NEW r \in BunAssetRecord
  PROVE  /\ DataStart(h, r).out \in Nat /\ NameStart(h, r).out \in Nat
         /\ DataStart(h, r).ok =>
              DataStart(h, r).out = h.data_section_offset + r.data_offset
         /\ NameStart(h, r).ok =>
              NameStart(h, r).out = h.string_table_offset + r.name_offset
<1>1. /\ h.data_section_offset + r.data_offset \in Nat
      /\ h.string_table_offset + r.name_offset \in Nat
  BY FieldTypes
<1>2. /\ DataStart(h, r) = Saturating(h.data_section_offset + r.data_offset)
      /\ NameStart(h, r) = Saturating(h.string_table_offset + r.name_offset)
  BY DEF DataStart, NameStart, bun_u64_add
<1>3. \A n \in Nat : Saturating(n).out \in Nat
                     /\ (Saturating(n).ok => Saturating(n).out = n)
  BY WidthAssumption DEF Saturating
<1>4. QED BY <1>1, <1>2, <1>3

\* validate_compression makes a row of messages.
LEMMA CompressionType ==
  ASSUME NEW f, NEW h \in BunHeader, NEW r \in BunAssetRecord, NEW i \in Nat,
         NEW seeks, NEW left \in Nat
  PROVE  validate_compression(f, h, r, i, seeks, left) \in Seq(Error)
<1>1. <<i>> \in Seq(Nat)
  OBVIOUS
<1>2. /\ \A b : Check(b, BUN_MALFORMED, "uncompressed size", <<i>>) \in Seq(Error)
      /\ Check(TRUE, BUN_UNSUPPORTED, "zlib", <<i>>) \in Seq(Error)
      /\ Check(TRUE, BUN_MALFORMED, "rle odd", <<i>>) \in Seq(Error)
      /\ Check(TRUE, BUN_MALFORMED, "data offset overflow", <<i>>) \in Seq(Error)
      /\ Check(TRUE, BUN_MALFORMED, "rle seek failed", <<i>>) \in Seq(Error)
      /\ Check(TRUE, BUN_UNSUPPORTED, "unknown compression", <<i>>) \in Seq(Error)
  BY <1>1, CheckType DEF Complaint
<1>3. RleErrors(f, DataStart(h, r).out, r.data_size, left, r.uncompressed_size, i)
        \in Seq(Error)
  BY RleErrorsType, StartTypes, FieldTypes
<1>4. QED BY <1>2, <1>3 DEF validate_compression, BUN_COMPRESSION_NONE,
                            BUN_COMPRESSION_ZLIB, BUN_COMPRESSION_RLE

\* What validate_asset_record reports, check by check.
LEMMA RecordChecks ==
  ASSUME NEW f, NEW h \in BunHeader, NEW r \in BunAssetRecord, NEW i \in Nat,
         NEW seeks, NEW left \in Nat
  PROVE  /\ validate_asset_record(f, h, r, i, seeks, left) \in Seq(Error)
         /\ Has(validate_asset_record(f, h, r, i, seeks, left), BUN_MALFORMED) <=>
              \/ r.name_length = 0
              \/ ~EndsBy(r.name_offset, r.name_length, h.string_table_size)
              \/ ~data_range_safe(h, r)
              \/ Has(validate_compression(f, h, r, i, seeks, left), BUN_MALFORMED)
         /\ Has(validate_asset_record(f, h, r, i, seeks, left), BUN_UNSUPPORTED) <=>
              \/ r.flags > BUN_ALLOWED_FLAGS \/ r.checksum # 0
              \/ Has(validate_compression(f, h, r, i, seeks, left), BUN_UNSUPPORTED)
<1> DEFINE c1 == Check(r.name_length = 0, BUN_MALFORMED, "empty name", <<i>>)
           c2 == Check(/\ r.name_length # 0
                       /\ ~EndsBy(r.name_offset, r.name_length, h.string_table_size),
                       BUN_MALFORMED, "name range", <<i>>)
           c3 == Check(~data_range_safe(h, r), BUN_MALFORMED, "data range", <<i>>)
           c4 == Check(r.flags > BUN_ALLOWED_FLAGS, BUN_UNSUPPORTED, "flags", <<i>>)
           c5 == Check(r.checksum # 0, BUN_UNSUPPORTED, "checksum", <<i>>)
           c6 == validate_compression(f, h, r, i, seeks, left)
<1>1. <<i>> \in Seq(Nat)
  OBVIOUS
<1>2. /\ c1 \in Seq(Error) /\ c2 \in Seq(Error) /\ c3 \in Seq(Error)
      /\ c4 \in Seq(Error) /\ c5 \in Seq(Error)
  <2>1. c1 \in Seq(Error)
    <3>1. "empty name" \in Complaint
      BY DEF Complaint
    <3>2. QED BY <1>1, <3>1, CheckType, Zenon
  <2>2. c2 \in Seq(Error)
    <3>1. "name range" \in Complaint
      BY DEF Complaint
    <3>2. QED BY <1>1, <3>1, CheckType, Zenon
  <2>3. c3 \in Seq(Error)
    <3>1. "data range" \in Complaint
      BY DEF Complaint
    <3>2. QED BY <1>1, <3>1, CheckType, Zenon
  <2>4. c4 \in Seq(Error)
    <3>1. "flags" \in Complaint
      BY DEF Complaint
    <3>2. QED BY <1>1, <3>1, CheckType, Zenon
  <2>5. c5 \in Seq(Error)
    <3>1. "checksum" \in Complaint
      BY DEF Complaint
    <3>2. QED BY <1>1, <3>1, CheckType, Zenon
  <2>6. QED BY <2>1, <2>2, <2>3, <2>4, <2>5
<1>3. c6 \in Seq(Error)
  BY CompressionType
<1>4. BUN_MALFORMED # BUN_UNSUPPORTED
  BY DEF BUN_MALFORMED, BUN_UNSUPPORTED
<1>5. /\ Has(c1, BUN_MALFORMED) <=> r.name_length = 0
      /\ Has(c2, BUN_MALFORMED) <=>
           r.name_length # 0 /\ ~EndsBy(r.name_offset, r.name_length, h.string_table_size)
      /\ Has(c3, BUN_MALFORMED) <=> ~data_range_safe(h, r)
      /\ ~Has(c4, BUN_MALFORMED) /\ ~Has(c5, BUN_MALFORMED)
  <2>1. Has(c1, BUN_MALFORMED) <=> r.name_length = 0
    BY HasCheck, Zenon
  <2>2. Has(c2, BUN_MALFORMED) <=>
          r.name_length # 0 /\ ~EndsBy(r.name_offset, r.name_length, h.string_table_size)
    BY HasCheck, Zenon
  <2>3. Has(c3, BUN_MALFORMED) <=> ~data_range_safe(h, r)
    BY HasCheck, Zenon
  <2>4. ~Has(c4, BUN_MALFORMED) /\ ~Has(c5, BUN_MALFORMED)
    BY <1>4, HasCheck, Zenon
  <2>5. QED BY <2>1, <2>2, <2>3, <2>4
<1>5a. /\ ~Has(c1, BUN_UNSUPPORTED) /\ ~Has(c2, BUN_UNSUPPORTED)
       /\ ~Has(c3, BUN_UNSUPPORTED)
       /\ Has(c4, BUN_UNSUPPORTED) <=> r.flags > BUN_ALLOWED_FLAGS
       /\ Has(c5, BUN_UNSUPPORTED) <=> r.checksum # 0
  <2>1. ~Has(c1, BUN_UNSUPPORTED) /\ ~Has(c2, BUN_UNSUPPORTED) /\ ~Has(c3, BUN_UNSUPPORTED)
    BY <1>4, HasCheck, Zenon
  <2>2. Has(c4, BUN_UNSUPPORTED) <=> r.flags > BUN_ALLOWED_FLAGS
    BY DEF Has, Check
  <2>3. Has(c5, BUN_UNSUPPORTED) <=> r.checksum # 0
    BY HasCheck, Zenon
  <2>4. QED BY <2>1, <2>2, <2>3
<1>6. validate_asset_record(f, h, r, i, seeks, left) = c1 \o c2 \o c3 \o c4 \o c5 \o c6
  BY DEF validate_asset_record
<1> HIDE DEF c1, c2, c3, c4, c5, c6
<1>7. /\ c1 \o c2 \in Seq(Error) /\ c1 \o c2 \o c3 \in Seq(Error)
      /\ c1 \o c2 \o c3 \o c4 \in Seq(Error)
      /\ c1 \o c2 \o c3 \o c4 \o c5 \in Seq(Error)
      /\ c1 \o c2 \o c3 \o c4 \o c5 \o c6 \in Seq(Error)
  BY <1>2, <1>3, ConcatType
<1>8. \A code : Has(c1 \o c2 \o c3 \o c4 \o c5 \o c6, code) <=>
        \/ Has(c1, code) \/ Has(c2, code) \/ Has(c3, code)
        \/ Has(c4, code) \/ Has(c5, code) \/ Has(c6, code)
  <2> TAKE code
  <2>1. \A s, t \in Seq(Error) : Has(s \o t, code) <=> Has(s, code) \/ Has(t, code)
    BY HasConcat
  <2>2. Has(c1 \o c2, code) <=> Has(c1, code) \/ Has(c2, code)
    <3>1. c1 \in Seq(Error) /\ c2 \in Seq(Error)
      BY <1>2, <1>3, <1>7
    <3>2. QED BY <2>1, <3>1, Zenon
  <2>3. Has(c1 \o c2 \o c3, code) <=> Has(c1 \o c2, code) \/ Has(c3, code)
    <3>1. c1 \o c2 \in Seq(Error) /\ c3 \in Seq(Error)
      BY <1>2, <1>3, <1>7
    <3>2. QED BY <2>1, <3>1, Zenon
  <2>4. Has(c1 \o c2 \o c3 \o c4, code) <=> Has(c1 \o c2 \o c3, code) \/ Has(c4, code)
    <3>1. c1 \o c2 \o c3 \in Seq(Error) /\ c4 \in Seq(Error)
      BY <1>2, <1>3, <1>7
    <3>2. QED BY <2>1, <3>1, Zenon
  <2>5. Has(c1 \o c2 \o c3 \o c4 \o c5, code) <=> Has(c1 \o c2 \o c3 \o c4, code) \/ Has(c5, code)
    <3>1. c1 \o c2 \o c3 \o c4 \in Seq(Error) /\ c5 \in Seq(Error)
      BY <1>2, <1>3, <1>7
    <3>2. QED BY <2>1, <3>1, Zenon
  <2>6. Has(c1 \o c2 \o c3 \o c4 \o c5 \o c6, code) <=> Has(c1 \o c2 \o c3 \o c4 \o c5, code) \/ Has(c6, code)
    <3>1. c1 \o c2 \o c3 \o c4 \o c5 \in Seq(Error) /\ c6 \in Seq(Error)
      BY <1>2, <1>3, <1>7
    <3>2. QED BY <2>1, <3>1, Zenon
  <2>7. QED BY <2>2, <2>3, <2>4, <2>5, <2>6, Zenon
<1>9. QED BY <1>5, <1>5a, <1>6, <1>7, <1>8 DEF c6

\* offset + size stays within limit, in unbounded arithmetic.
LEMMA EndsByExact ==
  ASSUME NEW offset \in Nat, NEW size \in Nat, NEW limit \in Nat,
         limit <= UINT64_MAX
  PROVE  EndsBy(offset, size, limit) <=> offset + size <= limit
<1>1. offset + size \in Nat
  OBVIOUS
<1>2. bun_u64_add(offset, size) = Saturating(offset + size)
  BY DEF bun_u64_add
<1>3. EndsBy(offset, size, limit) <=>
        Saturating(offset + size).ok /\ Saturating(offset + size).out <= limit
  BY <1>2 DEF EndsBy
<1>4. CASE offset + size <= UINT64_MAX
  BY <1>1, <1>3, <1>4, SaturatingExact
<1>5. CASE ~(offset + size <= UINT64_MAX)
  <2>1. ~Saturating(offset + size).ok
    BY <1>1, <1>5, SaturatingExact
  <2>2. ~(offset + size <= limit)
    BY <1>1, <1>5, WidthAssumption
  <2>3. QED BY <1>3, <2>1, <2>2
<1>6. QED BY <1>4, <1>5

\* A compression check without complaint means the compression fields and the
\* payload are right; BUN_UNSUPPORTED is said of just the schemes other than
\* none and RLE.
LEMMA CompressionSound ==
  ASSUME NEW f, f.header \in BunHeader, NEW r \in BunAssetRecord, NEW i \in Nat,
         NEW seeks, NEW left \in Nat
  PROVE  LET es == validate_compression(f, f.header, r, i, seeks, left) IN
         /\ ~Has(es, BUN_MALFORMED) =>
              /\ r.compression = BUN_COMPRESSION_NONE => r.uncompressed_size = 0
              /\ r.compression = BUN_COMPRESSION_RLE => RleWellFormed(f, r)
         /\ Has(es, BUN_UNSUPPORTED) <=>
              r.compression \notin {BUN_COMPRESSION_NONE, BUN_COMPRESSION_RLE}
<1> DEFINE h == f.header
           es == validate_compression(f, h, r, i, seeks, left)
           from == DataStart(h, r).out
           v == RleVerdict(f, from, r.data_size, left, r.uncompressed_size)
<1>1. BUN_MALFORMED # BUN_UNSUPPORTED
  BY DEF BUN_MALFORMED, BUN_UNSUPPORTED
<1>2. \A what, at : /\ Has(Check(TRUE, BUN_MALFORMED, what, at), BUN_MALFORMED)
                    /\ ~Has(Check(TRUE, BUN_MALFORMED, what, at), BUN_UNSUPPORTED)
                    /\ Has(Check(TRUE, BUN_UNSUPPORTED, what, at), BUN_UNSUPPORTED)
  BY <1>1, HasCheck, Zenon
<1>3. CASE r.compression = BUN_COMPRESSION_NONE
  <2>1. es = Check(r.uncompressed_size # 0, BUN_MALFORMED, "uncompressed size", <<i>>)
    BY <1>3 DEF validate_compression, BUN_COMPRESSION_NONE, BUN_COMPRESSION_ZLIB,
                BUN_COMPRESSION_RLE
  <2> HIDE DEF es
  <2>2. Has(es, BUN_MALFORMED) <=> r.uncompressed_size # 0
    BY <2>1, HasCheck, Zenon
  <2>2a. ~Has(es, BUN_UNSUPPORTED)
    BY <1>1, <2>1, HasCheck, Zenon
  <2>3. BUN_COMPRESSION_NONE # BUN_COMPRESSION_RLE
    BY DEF BUN_COMPRESSION_NONE, BUN_COMPRESSION_RLE
  <2>4. QED BY <1>3, <2>2, <2>2a, <2>3 DEF es
<1>4. CASE r.compression = BUN_COMPRESSION_RLE
  <2>1. es = IF r.data_size % 2 # 0
               THEN Check(TRUE, BUN_MALFORMED, "rle odd", <<i>>)
             ELSE IF ~DataStart(h, r).ok
               THEN Check(TRUE, BUN_MALFORMED, "data offset overflow", <<i>>)
             ELSE IF ~Seekable(from) \/ ~seeks
               THEN Check(TRUE, BUN_MALFORMED, "rle seek failed", <<i>>)
             ELSE RleErrors(f, from, r.data_size, left, r.uncompressed_size, i)
    BY <1>4 DEF validate_compression, BUN_COMPRESSION_NONE,
                BUN_COMPRESSION_ZLIB, BUN_COMPRESSION_RLE
  <2> HIDE DEF es, from, h, v
  <2>2. ~Has(es, BUN_UNSUPPORTED)
    <3>1. ~Has(RleErrors(f, from, r.data_size, left, r.uncompressed_size, i), BUN_UNSUPPORTED)
      <4> DEFINE w == RleVerdict(f, from, r.data_size, left, r.uncompressed_size)
                 at == IF w.what = "rle zero count" THEN <<i, w.pos>> ELSE <<i>>
      <4>1. RleErrors(f, from, r.data_size, left, r.uncompressed_size, i)
              = Check(w.what # "ok", BUN_MALFORMED, w.what, at)
        BY DEF RleErrors
      <4> HIDE DEF w, at
      <4>2. ~Has(Check(w.what # "ok", BUN_MALFORMED, w.what, at), BUN_UNSUPPORTED)
        BY <1>1, HasCheck, Zenon
      <4>3. QED BY <4>1, <4>2
    <3>2. QED BY <1>2, <2>1, <3>1
  <2>3. ~Has(es, BUN_MALFORMED) =>
          /\ r.data_size % 2 = 0 /\ DataStart(h, r).ok
          /\ ~Has(RleErrors(f, from, r.data_size, left, r.uncompressed_size, i), BUN_MALFORMED)
    BY <1>2, <2>1
  <2>4. ~Has(RleErrors(f, from, r.data_size, left, r.uncompressed_size, i), BUN_MALFORMED)
          => v.what = "ok"
    <3> DEFINE at == IF v.what = "rle zero count" THEN <<i, v.pos>> ELSE <<i>>
    <3>1. RleErrors(f, from, r.data_size, left, r.uncompressed_size, i)
            = Check(v.what # "ok", BUN_MALFORMED, v.what, at)
      BY DEF RleErrors, v
    <3> HIDE DEF at
    <3>2. Has(Check(v.what # "ok", BUN_MALFORMED, v.what, at), BUN_MALFORMED) <=> v.what # "ok"
      BY HasCheck, Zenon
    <3>3. QED BY <3>1, <3>2
  <2>5. v.what = "ok" => Expands(f, from, r.data_size, r.uncompressed_size)
    <3>1. from \in Nat /\ r.data_size \in Nat
      BY StartTypes, FieldTypes DEF from, h
    <3>2. QED BY <3>1, RleVerdictFacts DEF v
  <2>6. DataStart(h, r).ok => from = f.header.data_section_offset + r.data_offset
    BY StartTypes DEF from, h
  <2>7. ~Has(es, BUN_MALFORMED) => RleWellFormed(f, r)
    BY <2>3, <2>4, <2>5, <2>6 DEF RleWellFormed, Expands
  <2>8. BUN_COMPRESSION_NONE # BUN_COMPRESSION_RLE
    BY DEF BUN_COMPRESSION_NONE, BUN_COMPRESSION_RLE
  <2>9. QED BY <1>4, <2>2, <2>7, <2>8 DEF es, h
<1>5. CASE r.compression \notin {BUN_COMPRESSION_NONE, BUN_COMPRESSION_RLE}
  <2>1. \/ es = Check(TRUE, BUN_UNSUPPORTED, "zlib", <<i>>)
        \/ es = Check(TRUE, BUN_UNSUPPORTED, "unknown compression", <<i>>)
    BY <1>5 DEF validate_compression
  <2>2. Has(es, BUN_UNSUPPORTED)
    BY <1>2, <2>1
  <2>3. QED BY <1>5, <2>2
<1>6. QED BY <1>3, <1>4, <1>5

\* The name check returns messages, never BUN_UNSUPPORTED, and is silent only
\* about a name it has read to its end and found printable.
LEMMA NameChecks ==
  ASSUME NEW f, f.header \in BunHeader, NEW r \in BunAssetRecord, NEW i \in Nat,
         NEW seeks, NEW left \in Nat
  PROVE  LET es == validate_asset_name(f, f.header, r, i, seeks, left) IN
         /\ es \in Seq(Error)
         /\ ~Has(es, BUN_UNSUPPORTED)
         /\ ~Has(es, BUN_MALFORMED) => NamePrintable(f, r)
<1> DEFINE h == f.header
           es == validate_asset_name(f, h, r, i, seeks, left)
           from == NameStart(h, r).out
           bad == BadChars(f, from, r.name_length, left)
<1>1. BUN_MALFORMED # BUN_UNSUPPORTED
  BY DEF BUN_MALFORMED, BUN_UNSUPPORTED
<1>2. \A what, at : /\ Has(Check(TRUE, BUN_MALFORMED, what, at), BUN_MALFORMED)
                    /\ ~Has(Check(TRUE, BUN_MALFORMED, what, at), BUN_UNSUPPORTED)
  BY <1>1, HasCheck, Zenon
<1>3. bad \in SUBSET Nat
  BY FieldTypes DEF BadChars
<1>4. <<i>> \in Seq(Nat) /\ (bad # {} => <<i, FirstOf(bad)>> \in Seq(Nat))
  BY <1>3, FirstOfMember, PlaceType
<1>5. \/ es = Check(TRUE, BUN_MALFORMED, "empty name", <<i>>)
      \/ es = Check(TRUE, BUN_MALFORMED, "name offset overflow", <<i>>)
      \/ es = Check(TRUE, BUN_MALFORMED, "name seek failed", <<i>>)
      \/ bad # {} /\ es = Check(TRUE, BUN_MALFORMED, "name byte", <<i, FirstOf(bad)>>)
      \/ /\ NameStart(h, r).ok /\ bad = {}
         /\ es = Check(left < r.name_length, BUN_MALFORMED, "name read failed", <<i>>)
  BY DEF validate_asset_name
<1> HIDE DEF es, bad
<1>6. es \in Seq(Error)
  BY <1>4, <1>5, CheckType DEF Complaint
<1>7. ~Has(es, BUN_UNSUPPORTED)
  <2>1. ~Has(Check(left < r.name_length, BUN_MALFORMED, "name read failed", <<i>>),
             BUN_UNSUPPORTED)
    <3>1. CASE left < r.name_length
      BY <1>2, <3>1 DEF Check
    <3>2. CASE ~(left < r.name_length)
      BY <3>2 DEF Has, Check
    <3>3. QED BY <3>1, <3>2
  <2>2. QED BY <1>2, <1>5, <2>1
<1>8. ASSUME ~Has(es, BUN_MALFORMED) PROVE NamePrintable(f, r)
  <2>1. /\ NameStart(h, r).ok /\ bad = {}
        /\ es = Check(left < r.name_length, BUN_MALFORMED, "name read failed", <<i>>)
    BY <1>2, <1>5, <1>8
  <2>2. ~(left < r.name_length)
    <3>1. CASE left < r.name_length
      <4>1. es = Check(TRUE, BUN_MALFORMED, "name read failed", <<i>>)
        BY <2>1, <3>1 DEF Check
      <4>2. QED BY <1>2, <1>8, <4>1
    <3>2. QED BY <3>1
  <2>3. from = f.header.string_table_offset + r.name_offset
    BY <2>1, StartTypes
  <2>4. \A k \in 0 .. r.name_length - 1 : k < left
    BY <2>2, FieldTypes
  <2>5. \A k \in 0 .. r.name_length - 1 : ByteAt(f, from + k) \in Printable
    BY <2>1, <2>4 DEF bad, BadChars
  <2>6. QED BY <2>3, <2>5 DEF NamePrintable, Printable
<1>9. QED BY <1>6, <1>7, <1>8 DEF es, h

\* The two checks of a record together: silence about malformation means
\* there is none. Only a record with the name in range gets its name read.
LEMMA RecordSound ==
  ASSUME NEW f, f.header \in BunHeader, NEW r \in BunAssetRecord, NEW i \in Nat,
         NEW seeks, NEW left \in Nat
  PROVE  LET es == validate_asset_record(f, f.header, r, i, seeks, left) IN
         /\ ~Has(es, BUN_MALFORMED) =>
              /\ name_range_safe(f.header, r)
              /\ NamePrintable(f, r) => ~RecordMalformed(f, r)
         /\ Has(es, BUN_UNSUPPORTED) <=> RecordUnsupported(r)
<1> DEFINE h == f.header
           es == validate_asset_record(f, h, r, i, seeks, left)
<1>1. /\ ~Has(es, BUN_MALFORMED) =>
           /\ r.name_length # 0
           /\ EndsBy(r.name_offset, r.name_length, h.string_table_size)
           /\ data_range_safe(h, r)
           /\ r.compression = BUN_COMPRESSION_NONE => r.uncompressed_size = 0
           /\ r.compression = BUN_COMPRESSION_RLE => RleWellFormed(f, r)
      /\ Has(es, BUN_UNSUPPORTED) <=>
           \/ r.flags > BUN_ALLOWED_FLAGS \/ r.checksum # 0
           \/ r.compression \notin {BUN_COMPRESSION_NONE, BUN_COMPRESSION_RLE}
  <2> DEFINE cs == validate_compression(f, h, r, i, seeks, left)
  <2>1. /\ Has(es, BUN_MALFORMED) <=>
             \/ r.name_length = 0
             \/ ~EndsBy(r.name_offset, r.name_length, h.string_table_size)
             \/ ~data_range_safe(h, r)
             \/ Has(cs, BUN_MALFORMED)
        /\ Has(es, BUN_UNSUPPORTED) <=>
             \/ r.flags > BUN_ALLOWED_FLAGS \/ r.checksum # 0
             \/ Has(cs, BUN_UNSUPPORTED)
    BY RecordChecks, Zenon
  <2>2. /\ ~Has(cs, BUN_MALFORMED) =>
             /\ r.compression = BUN_COMPRESSION_NONE => r.uncompressed_size = 0
             /\ r.compression = BUN_COMPRESSION_RLE => RleWellFormed(f, r)
        /\ Has(cs, BUN_UNSUPPORTED) <=>
             r.compression \notin {BUN_COMPRESSION_NONE, BUN_COMPRESSION_RLE}
    BY CompressionSound, Zenon
  <2> HIDE DEF cs, es
  <2>3. QED BY <2>1, <2>2, Zenon
<1> HIDE DEF es
<1>2. r.name_length # 0 => r.name_length > 0
  BY FieldTypes
<1>3. EndsBy(r.name_offset, r.name_length, h.string_table_size)
        => r.name_offset + r.name_length <= h.string_table_size
  BY EndsByExact, FieldTypes
<1>4. data_range_safe(h, r) => DataInside(h, r)
  BY EndsByExact, FieldTypes DEF data_range_safe, DataInside
<1>5. ~Has(es, BUN_MALFORMED) => name_range_safe(h, r)
  BY <1>1, <1>2 DEF name_range_safe
<1>6. ~Has(es, BUN_MALFORMED) /\ NamePrintable(f, r) => ~RecordMalformed(f, r)
  BY <1>1, <1>2, <1>3, <1>4 DEF RecordMalformed, NameInside
<1>7. Has(es, BUN_UNSUPPORTED) <=> RecordUnsupported(r)
  BY <1>1 DEF RecordUnsupported
<1>8. QED BY <1>5, <1>6, <1>7 DEF es

-----------------------------------------------------------------------------
(* FlattenSeq: rows put one after the other. It recurs over data, and so the *)
(* proofs look at the least number of rows for which they would fail.        *)

Rows == Seq(Seq(Nat))

\* g[p] is the first p rows in one, for p up to m.
Joins(rows, m, g) ==
  g = [p \in 1 .. m |-> IF p = 1 THEN rows[p] ELSE g[p - 1] \o rows[p]]

\* g[p] is where row p ends.
Ends(rows, m, g) ==
  g[0] = 0 /\ \A p \in 1 .. m : g[p] = g[p - 1] + Len(rows[p])

\* The recursion of FlattenSeq has a solution;
LEMMA JoinsExist ==
  ASSUME NEW rows
  PROVE  \A m \in Nat : \E g : Joins(rows, m, g)
<1> DEFINE Bad == {m \in Nat : ~\E g : Joins(rows, m, g)}
<1>1. SUFFICES ASSUME Bad # {} PROVE FALSE
  OBVIOUS
<1>2. PICK m \in Bad : \A n \in Bad : m <= n
  <2>1. Bad \in SUBSET Nat
    OBVIOUS
  <2> HIDE DEF Bad
  <2>2. QED BY <1>1, <2>1, LeastMember
<1>3. m # 0
  <2>1. Joins(rows, 0, [p \in 1 .. 0 |-> 0])
    BY DEF Joins
  <2>2. QED BY <2>1
<1>4. m \in Nat /\ m - 1 \in Nat /\ ~(m <= m - 1)
  BY <1>3
<1>5. PICK g : Joins(rows, m - 1, g)
  BY <1>2, <1>4
<1> DEFINE e == IF m = 1 THEN rows[m] ELSE g[m - 1] \o rows[m]
           h == [p \in 1 .. m |-> IF p = m THEN e ELSE g[p]]
           body(q, p) == IF p = 1 THEN rows[p] ELSE q[p - 1] \o rows[p]
<1>6. \A p \in 1 .. m : h[p] = body(h, p)
  <2> TAKE p \in 1 .. m
  <2>1. CASE p = m
    <3>1. h[p] = e
      <4> HIDE DEF e
      <4>1. QED BY <1>4, <2>1
    <3>2. m # 1 => h[m - 1] = g[m - 1]
      <4> HIDE DEF e
      <4>1. QED BY <1>4
    <3> HIDE DEF h
    <3>3. QED BY <2>1, <3>1, <3>2
  <2>2. CASE p # m
    <3>1. p \in 1 .. m - 1 /\ (p # 1 => p - 1 \in 1 .. m)
      BY <1>4, <2>2
    <3>2. h[p] = g[p] /\ (p # 1 => h[p - 1] = g[p - 1])
      <4> HIDE DEF e
      <4>1. p # 1 => p - 1 # m
        BY <1>4
      <4>2. QED BY <2>2, <3>1, <4>1
    <3>3. g[p] = body(g, p)
      BY <1>5, <3>1 DEF Joins
    <3> HIDE DEF h
    <3>4. QED BY <3>2, <3>3
  <2>3. QED BY <2>1, <2>2
<1>7. h = [p \in 1 .. m |-> body(h, p)]
  <2>1. h = [p \in 1 .. m |-> h[p]]
    <3> DEFINE v(p) == IF p = m THEN e ELSE g[p]
    <3> HIDE DEF v
    <3>1. h = [p \in 1 .. m |-> v(p)]
      BY DEF v
    <3> HIDE DEF h
    <3>2. QED BY <3>1
  <2> HIDE DEF h, body
  <2>2. QED BY <1>6, <2>1
<1>8. Joins(rows, m, h)
  BY <1>7 DEF Joins
<1>9. QED BY <1>8

\* it is what FlattenSeq returns.
LEMMA FlattenJoins ==
  ASSUME NEW rows \in Rows, rows # <<>>
  PROVE  \E g : Joins(rows, Len(rows), g) /\ FlattenSeq(rows) = g[Len(rows)]
<1>1. Len(rows) \in Nat /\ Len(rows) # 0
  BY LenProperties, EmptySeq DEF Rows
<1> DEFINE c == CHOOSE g : g = [p \in 1 .. Len(rows) |->
                            IF p = 1 THEN rows[p] ELSE g[p - 1] \o rows[p]]
<1>2. FlattenSeq(rows) = c[Len(rows)]
  BY <1>1 DEF FlattenSeq
<1>3. \E g : g = [p \in 1 .. Len(rows) |->
                            IF p = 1 THEN rows[p] ELSE g[p - 1] \o rows[p]]
  BY <1>1, JoinsExist DEF Joins
<1>4. c = [p \in 1 .. Len(rows) |-> IF p = 1 THEN rows[p] ELSE c[p - 1] \o rows[p]]
  BY <1>3
<1> HIDE DEF c
<1>5. Joins(rows, Len(rows), c)
  BY <1>4 DEF Joins
<1>6. QED BY <1>2, <1>5

\* Rows end somewhere.
LEMMA EndsExist ==
  ASSUME NEW rows \in Rows
  PROVE  \A m \in Nat : m <= Len(rows) => \E g \in [0 .. m -> Nat] : Ends(rows, m, g)
<1> DEFINE Bad == {m \in Nat : m <= Len(rows) /\ ~\E g \in [0 .. m -> Nat] : Ends(rows, m, g)}
<1>1. SUFFICES ASSUME Bad # {} PROVE FALSE
  OBVIOUS
<1>2. PICK m \in Bad : \A n \in Bad : m <= n
  <2>1. Bad \in SUBSET Nat
    OBVIOUS
  <2> HIDE DEF Bad
  <2>2. QED BY <1>1, <2>1, LeastMember
<1>3. m # 0
  <2>1. [p \in 0 .. 0 |-> 0] \in [0 .. 0 -> Nat] /\ Ends(rows, 0, [p \in 0 .. 0 |-> 0])
    BY DEF Ends
  <2>2. QED BY <2>1
<1>4. Len(rows) \in Nat
  BY LenProperties DEF Rows
<1>5. /\ m \in Nat /\ m - 1 \in Nat /\ ~(m <= m - 1)
      /\ m \in 1 .. Len(rows) /\ m - 1 <= Len(rows)
  BY <1>3, <1>4
<1>6. PICK g \in [0 .. m - 1 -> Nat] : Ends(rows, m - 1, g)
  BY <1>2, <1>5
<1>7. Len(rows[m]) \in Nat
  <2>1. rows[m] \in Seq(Nat)
    BY <1>5, ElementOfSeq DEF Rows
  <2>2. QED BY <2>1, LenProperties
<1> DEFINE last == g[m - 1] + Len(rows[m])
           h == [p \in 0 .. m |-> IF p = m THEN last ELSE g[p]]
<1>8. last \in Nat
  BY <1>5, <1>6, <1>7
<1> HIDE DEF last
<1>9. h \in [0 .. m -> Nat]
  BY <1>5, <1>6, <1>8
<1>10. Ends(rows, m, h)
  <2>1. h[0] = 0
    BY <1>5, <1>6 DEF Ends
  <2>2. ASSUME NEW p \in 1 .. m
        PROVE  h[p] = h[p - 1] + Len(rows[p])
    <3>1. h[p - 1] = g[p - 1]
      BY <1>5
    <3>2. CASE p = m
      <4>1. h[p] = last
        BY <1>5, <3>2
      <4> HIDE DEF h
      <4>2. QED BY <3>1, <3>2, <4>1 DEF last
    <3>3. CASE p # m
      <4>1. p \in 1 .. m - 1 /\ h[p] = g[p]
        BY <1>5, <3>3
      <4> HIDE DEF h
      <4>2. QED BY <1>6, <3>1, <4>1 DEF Ends
    <3>4. QED BY <3>2, <3>3
  <2> HIDE DEF h
  <2>3. QED BY <2>1, <2>2 DEF Ends
<1>11. QED BY <1>5, <1>9, <1>10

\* Every place of a row has a place in the whole, and that is all there is.
Whole(rows, m, g, s) ==
  /\ s \in Seq(Nat) /\ Len(s) = g[m]
  /\ \A p \in 1 .. m : \A r \in 1 .. Len(rows[p]) : s[g[p - 1] + r] = rows[p][r]
  /\ \A k \in 1 .. g[m] : \E p \in 1 .. m : \E r \in 1 .. Len(rows[p]) : k = g[p - 1] + r

\* Ends rise.
LEMMA EndsRise ==
  ASSUME NEW rows \in Rows, NEW n \in Nat, n <= Len(rows),
         NEW g \in [0 .. n -> Nat], Ends(rows, n, g)
  PROVE  \A m \in Nat : m <= n => \A p \in 0 .. m : g[p] <= g[m]
<1> DEFINE Bad == {m \in Nat : m <= n /\ ~(\A p \in 0 .. m : g[p] <= g[m])}
<1>1. SUFFICES ASSUME Bad # {} PROVE FALSE
  OBVIOUS
<1>2. PICK m \in Bad : \A k \in Bad : m <= k
  <2>1. Bad \in SUBSET Nat
    OBVIOUS
  <2> HIDE DEF Bad
  <2>2. QED BY <1>1, <2>1, LeastMember
<1>3. m \in Nat /\ m <= n /\ g[m] \in Nat
  OBVIOUS
<1>4. m # 0
  <2>1. m = 0 => \A p \in 0 .. m : p = m
    OBVIOUS
  <2>2. QED BY <1>3, <2>1
<1>5. m - 1 \in Nat /\ m - 1 <= n /\ ~(m <= m - 1) /\ m \in 1 .. n /\ m \in 1 .. Len(rows)
  <2>1. Len(rows) \in Nat
    BY LenProperties DEF Rows
  <2>2. QED BY <1>3, <1>4, <2>1
<1>6. \A p \in 0 .. m - 1 : g[p] <= g[m - 1]
  BY <1>2, <1>5
<1>7. Len(rows[m]) \in Nat
  <2>1. rows[m] \in Seq(Nat)
    BY <1>5, ElementOfSeq DEF Rows
  <2>2. QED BY <2>1, LenProperties
<1>8. g[m] = g[m - 1] + Len(rows[m]) /\ g[m - 1] \in Nat
  BY <1>5 DEF Ends
<1>9. \A p \in 0 .. m : g[p] <= g[m]
  <2> TAKE p \in 0 .. m
  <2>1. CASE p = m
    BY <1>3, <2>1
  <2>2. CASE p # m
    <3>1. p \in 0 .. m - 1 /\ g[p] \in Nat
      BY <1>5, <2>2
    <3>2. g[p] <= g[m - 1]
      BY <1>6, <3>1
    <3>3. QED BY <1>3, <1>7, <1>8, <3>1, <3>2
  <2>3. QED BY <2>1, <2>2
<1>10. QED BY <1>9

\* One more row.
LEMMA WholeMore ==
  ASSUME NEW rows \in Rows, NEW m \in 1 .. Len(rows), m # 1,
         NEW g \in [0 .. Len(rows) -> Nat], Ends(rows, m, g),
         \A p \in 0 .. m - 1 : g[p] <= g[m - 1],
         NEW s, Whole(rows, m - 1, g, s)
  PROVE  Whole(rows, m, g, s \o rows[m])
<1>1. /\ m \in Nat /\ m - 1 \in Nat /\ m \in 1 .. m
      /\ \A p \in 0 .. m : p \in 0 .. Len(rows)
      /\ \A p \in 1 .. m : p \in 1 .. Len(rows)
  <2>1. Len(rows) \in Nat
    BY LenProperties DEF Rows
  <2>2. QED BY <2>1
<1> DEFINE x == rows[m]
           t == s \o x
<1>2. s \in Seq(Nat) /\ Len(s) = g[m - 1] /\ x \in Seq(Nat) /\ Len(x) \in Nat
      /\ g[m - 1] \in Nat /\ g[m] = g[m - 1] + Len(x)
  <2>1. x \in Seq(Nat)
    BY ElementOfSeq DEF Rows
  <2>2. Len(x) \in Nat
    BY <2>1, LenProperties
  <2>3. g[m - 1] \in Nat /\ g[m] = g[m - 1] + Len(x)
    BY <1>1 DEF Ends
  <2> HIDE DEF x
  <2>4. QED BY <2>1, <2>2, <2>3 DEF Whole
<1>3. /\ t \in Seq(Nat) /\ Len(t) = g[m]
      /\ \A k \in 1 .. g[m] : t[k] = IF k <= g[m - 1] THEN s[k] ELSE x[k - g[m - 1]]
  <2> HIDE DEF x
  <2>1. /\ t \in Seq(Nat) /\ Len(t) = Len(s) + Len(x)
        /\ \A k \in 1 .. Len(s) + Len(x) :
             t[k] = IF k <= Len(s) THEN s[k] ELSE x[k - Len(s)]
    BY <1>2, ConcatProperties
  <2> HIDE DEF t
  <2>2. QED BY <1>2, <2>1
<1>4. ASSUME NEW p \in 1 .. m, NEW r \in 1 .. Len(rows[p])
      PROVE  t[g[p - 1] + r] = rows[p][r]
  <2>1. CASE p = m
    <3>1. /\ g[p - 1] + r \in 1 .. g[m] /\ ~(g[p - 1] + r <= g[m - 1])
          /\ (g[p - 1] + r) - g[m - 1] = r
      <4>1. r \in 1 .. Len(x) /\ g[p - 1] = g[m - 1]
        BY <2>1
      <4> DEFINE y == Len(x)
                 z == g[m - 1]
      <4>2. y \in Nat /\ z \in Nat /\ g[m] = z + y
        BY <1>2
      <4>3. r \in 1 .. y /\ g[p - 1] = z
        BY <4>1
      <4> HIDE DEF x, t, y, z
      <4>4. g[p - 1] + r = z + r /\ z + r \in 1 .. z + y /\ ~(z + r <= z) /\ (z + r) - z = r
        BY <4>2, <4>3
      <4>5. QED BY <4>2, <4>4 DEF z
    <3> HIDE DEF t
    <3>2. t[g[p - 1] + r] = x[r]
      BY <1>3, <3>1
    <3>3. QED BY <2>1, <3>2
  <2>2. CASE p # m
    <3>1. p \in 1 .. m - 1 /\ p \in 0 .. m - 1 /\ p - 1 \in 0 .. m /\ p \in Nat
      BY <1>1, <2>2
    <3>2. g[p] = g[p - 1] + Len(rows[p]) /\ g[p] <= g[m - 1] /\ g[p - 1] \in Nat
      <4>1. g[p - 1] \in Nat
        BY <1>1, <3>1
      <4>2. QED BY <3>1, <4>1 DEF Ends
    <3>3. Len(rows[p]) \in Nat
      <4>1. rows[p] \in Seq(Nat)
        BY <1>1, <3>1, ElementOfSeq DEF Rows
      <4>2. QED BY <4>1, LenProperties
    <3>4. g[p - 1] + r \in 1 .. g[m] /\ g[p - 1] + r <= g[m - 1]
      <4> DEFINE a == g[p - 1]
                 b == g[p]
                 c == g[m - 1]
                 d == g[m]
                 l == Len(rows[p])
      <4>1. /\ a \in Nat /\ c \in Nat /\ l \in Nat /\ Len(x) \in Nat /\ r \in 1 .. l
            /\ b = a + l /\ b <= c /\ d = c + Len(x)
        BY <1>2, <3>2, <3>3
      <4> HIDE DEF a, b, c, d, l, x
      <4>2. a + r \in 1 .. d /\ a + r <= c
        BY <4>1
      <4>3. QED BY <4>2 DEF a, c, d
    <3> HIDE DEF t
    <3>5. t[g[p - 1] + r] = s[g[p - 1] + r]
      BY <1>3, <3>4
    <3>6. QED BY <3>1, <3>5 DEF Whole
  <2>3. QED BY <2>1, <2>2
<1>5. ASSUME NEW k \in 1 .. g[m]
      PROVE  \E p \in 1 .. m : \E r \in 1 .. Len(rows[p]) : k = g[p - 1] + r
  <2>1. CASE k <= g[m - 1]
    <3>1. k \in 1 .. g[m - 1]
      BY <1>2, <2>1
    <3>2. PICK p \in 1 .. m - 1 : \E r \in 1 .. Len(rows[p]) : k = g[p - 1] + r
      BY <3>1 DEF Whole
    <3>3. p \in 1 .. m
      BY <1>1
    <3>4. QED BY <3>2, <3>3
  <2>2. CASE ~(k <= g[m - 1])
    <3>1. k - g[m - 1] \in 1 .. Len(x) /\ k = g[m - 1] + (k - g[m - 1])
      BY <1>2, <2>2
    <3>2. QED BY <1>1, <3>1
  <2>3. QED BY <2>1, <2>2
<1> HIDE DEF t, x
<1>6. Whole(rows, m, g, t)
  BY <1>3, <1>4, <1>5 DEF Whole
<1>7. QED BY <1>6 DEF t, x

\* FlattenSeq makes the whole.
LEMMA FlattenWhole ==
  ASSUME NEW rows \in Rows, NEW g \in [0 .. Len(rows) -> Nat], Ends(rows, Len(rows), g)
  PROVE  Whole(rows, Len(rows), g, FlattenSeq(rows))
<1>1. Len(rows) \in Nat
  BY LenProperties DEF Rows
<1>4. \A k \in Nat : k <= Len(rows) => \A p \in 0 .. k : g[p] <= g[k]
  <2>1. Len(rows) <= Len(rows)
    BY <1>1
  <2>2. QED BY <1>1, <2>1, EndsRise, Zenon
<1>2. CASE rows = <<>>
  <2>1. Len(rows) = 0 /\ FlattenSeq(rows) = <<>> /\ <<>> \in Seq(Nat) /\ Len(<<>>) = 0
    BY <1>2, EmptySeq DEF FlattenSeq
  <2>2. g[0] = 0
    BY DEF Ends
  <2>3. QED BY <2>1, <2>2 DEF Whole
<1>3. CASE rows # <<>>
  <2> DEFINE n == Len(rows)
  <2>1. PICK q : Joins(rows, n, q) /\ FlattenSeq(rows) = q[n]
    BY <1>3, FlattenJoins
  <2> DEFINE Bad == {m \in Nat : m \in 1 .. n /\ ~Whole(rows, m, g, q[m])}
  <2>2. ASSUME Bad # {} PROVE FALSE
    <3>1. PICK m \in Bad : \A k \in Bad : m <= k
      <4>1. Bad \in SUBSET Nat
        OBVIOUS
      <4> HIDE DEF Bad
      <4>2. QED BY <2>2, <4>1, LeastMember
    <3>2. m \in Nat /\ m \in 1 .. n /\ ~Whole(rows, m, g, q[m])
      OBVIOUS
    <3>3. /\ Ends(rows, m, g) /\ q[m] = IF m = 1 THEN rows[m] ELSE q[m - 1] \o rows[m]
          /\ m - 1 \in Nat
      <4>1. \A p \in 1 .. m : p \in 1 .. n
        BY <1>1, <3>2
      <4>2. Ends(rows, m, g)
        BY <4>1 DEF Ends
      <4>3. q[m] = IF m = 1 THEN rows[m] ELSE q[m - 1] \o rows[m]
        BY <2>1, <3>2 DEF Joins
      <4>4. m - 1 \in Nat
        BY <3>2
      <4>5. QED BY <4>2, <4>3, <4>4
    <3>4. CASE m = 1
      <4> DEFINE x == rows[1]
      <4>1. x \in Seq(Nat) /\ Len(x) \in Nat
        <5>1. x \in Seq(Nat)
          BY <3>2, <3>4, ElementOfSeq DEF Rows
        <5>2. QED BY <5>1, LenProperties
      <4>2. g[0] = 0 /\ g[1] = Len(x)
        <5>1. g[1] = g[1 - 1] + Len(x) /\ g[0] = 0
          BY <3>3, <3>4 DEF Ends
        <5> HIDE DEF x
        <5>2. QED BY <4>1, <5>1
      <4>3. Whole(rows, 1, g, x)
        <5>1. \A p \in 1 .. 1 : p = 1
          OBVIOUS
        <5>2. ASSUME NEW r \in 1 .. Len(x) PROVE x[g[1 - 1] + r] = x[r]
          BY <4>2
        <5>3. ASSUME NEW k \in 1 .. g[1] PROVE \E r \in 1 .. Len(x) : k = g[1 - 1] + r
          <6>1. k \in 1 .. Len(x) /\ k = g[1 - 1] + k
            BY <4>2
          <6>2. QED BY <6>1
        <5>4. 1 \in 1 .. 1
          OBVIOUS
        <5>5. QED BY <4>1, <4>2, <5>1, <5>2, <5>3, <5>4 DEF Whole
      <4>4. QED BY <3>2, <3>3, <3>4, <4>3
    <3>5. CASE m # 1
      <4>1. m - 1 \in 1 .. n /\ ~(m <= m - 1)
        BY <1>1, <3>2, <3>5
      <4>2. Whole(rows, m - 1, g, q[m - 1])
        BY <3>1, <3>3, <4>1
      <4>3. \A p \in 0 .. m - 1 : g[p] <= g[m - 1]
        <5>1. m - 1 \in Nat /\ m - 1 <= n
          BY <1>1, <4>1
        <5>2. QED BY <1>4, <5>1
      <4>4. QED BY <3>2, <3>3, <3>5, <4>2, <4>3, WholeMore
    <3>6. QED BY <3>4, <3>5
  <2>3. n \in Nat /\ n \in 1 .. n
    BY <1>1, <1>3, EmptySeq DEF Rows
  <2>4. Whole(rows, n, g, q[n])
    BY <2>2, <2>3
  <2>5. QED BY <2>1, <2>4
<1>5. QED BY <1>2, <1>3

=============================================================================
