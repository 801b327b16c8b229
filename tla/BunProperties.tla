--------------------------- MODULE BunProperties ---------------------------
(* What must be true of BunParse: judged against BunFormat, which says what  *)
(* a file is, and BunVerdict, which says what a run may answer.             *)
EXTENDS BunParse, BunFormat

Output ==
  [header : BOOLEAN, records : Nat, gaps : BOOLEAN,
   stderr : {"none", "usage", "open", "errors", "io failure", "internal error"}]

Access ==
  [use : {"none", "header", "record", "name", "payload", "rle", "chars"},
   from : Nat, len : Nat]

\* Every variable has its C type; i never wraps and the header's fields and
\* the context are the ones the headers declare.
TypeOK ==
  /\ pc \in {"start", "header", "table", "record", "name", "payload",
             "validate", "chars", "reseek", "report", "close", "done"}
  /\ args \in ArgCounts
  /\ IsFile(disk)
  /\ stream \in [state : {"none", "open", "closed"}, pos : Nat]
  /\ ctx \in BunParseContext /\ Len(ctx.errors) <= MAX_ERRORS
  /\ header \in BunHeader
  /\ i \in u32
  /\ rec \in BunAssetRecord
  /\ result \in bun_result_t
  /\ exit \in {NotExited} \cup bun_result_t
  /\ out \in Output
  /\ touched \in Access
  /\ disturbed \in BOOLEAN

-----------------------------------------------------------------------------
\* The loop reads record i at its slot in the asset table, although four
\* functions move the shared stream between two records (bun_parse.c 147-160).
RecordSlot ==
  pc = "record" =>
    stream.pos = header.asset_table_offset + i * BUN_ASSET_RECORD_SIZE

\* A run that accepts a file, or calls it merely unsupported, is right about
\* the file, whatever stdio failures the run met and however small the error
\* list is (bun_context_result, add_error).
VerdictSound ==
  exit \in {BUN_OK, BUN_UNSUPPORTED} => exit = Classify(disk)

\* Without a stdio failure the exit code is exactly the file's class: no false
\* alarm, no downgrade, no I/O error out of the offset arithmetic of the loop.
VerdictExact ==
  exit # NotExited /\ args = 2 /\ ~disturbed => exit = Classify(disk)

\* What is read of an asset lies in the section it belongs to: record, name
\* and payload reads always, the RLE check when the record's data range is
\* right. Every byte read is a byte of the file.
Within(lo, size) ==
  lo <= touched.from /\ touched.from + touched.len <= lo + size

ReadsContained ==
  touched.len > 0 =>
    /\ touched.use \in {"name", "chars"} =>
         Within(header.string_table_offset, header.string_table_size)
    /\ touched.use = "payload" =>
         Within(header.data_section_offset, header.data_section_size)
    /\ touched.use = "rle" /\ DataInside(header, rec) =>
         Within(header.data_section_offset, header.data_section_size)
    /\ touched.use = "record" =>
         Within(header.asset_table_offset,
                header.asset_count * BUN_ASSET_RECORD_SIZE)
    /\ Within(0, disk.size)

\* The stream is open exactly while the context says so, the stream calls are
\* made only then, and no exit leaks it (bun_open's error paths, bun_close).
StreamDiscipline ==
  /\ ctx.file = "open" <=> stream.state = "open"
  /\ pc \in {"header", "table", "record", "name", "payload", "validate",
             "chars", "reseek"} => stream.state = "open"
  /\ pc = "done" => stream.state # "open"

\* An accepted file was shown whole: its header, each of its records, no
\* complaint; and every snippet, unless a call failed.
AcceptedShown ==
  exit = BUN_OK =>
    /\ out.header /\ out.records = disk.header.asset_count
    /\ out.stderr = "none"
    /\ out.gaps => disturbed

\* Nothing is printed about a record before the header is accepted, and the
\* records shown are a prefix of the table.
ShownInOrder ==
  /\ out.records <= header.asset_count
  /\ out.records > 0 => out.header /\ ~HeaderMalformed(disk) /\ ~HeaderUnsupported(disk)
  /\ pc \in {"name", "payload", "validate", "chars", "reseek"} =>
       out.records = i + 1 /\ rec = Entry(disk, i)

-----------------------------------------------------------------------------
(* The messages. A message is true when the file breaks the rule it names.   *)
DeclaredEnd(s) == s.lo + s.len

HeaderMessageTrue(e, f) ==
  LET h == f.header
      ss == HeaderSections(h)
      aligned == <<h.asset_table_offset, h.string_table_offset,
                   h.string_table_size, h.data_section_offset,
                   h.data_section_size>>
  IN  CASE e.what = "file too small" -> f.size < BUN_HEADER_SIZE
        [] e.what = "magic" -> h.magic # BUN_MAGIC
        [] e.what = "version" -> HeaderUnsupported(f)
        [] e.what = "align" -> aligned[e.at[1]] % 4 # 0
        [] e.what = "end overflow" -> DeclaredEnd(ss[e.at[1]]) > UINT64_MAX
        [] e.what = "outside file" ->
             /\ ~Inside(ss[e.at[1]], f)
             /\ DeclaredEnd(ss[e.at[1]]) <= UINT64_MAX
        [] e.what = "overlap" ->
             \/ Collide(ss[e.at[1]], ss[e.at[2]])
             \/ DeclaredEnd(ss[e.at[1]]) > UINT64_MAX
             \/ DeclaredEnd(ss[e.at[2]]) > UINT64_MAX
        [] OTHER -> FALSE

NameByteIs(f, r, k, good) ==
  good <=> ByteAt(f, f.header.string_table_offset + r.name_offset + k) \in 32 .. 126

RecordMessageTrue(e, f, r) ==
  LET from == f.header.data_section_offset + r.data_offset
      count(q) == ByteAt(f, from + 2 * q)
      rle == r.compression = BUN_COMPRESSION_RLE
  IN  CASE e.what = "empty name" -> r.name_length = 0
        [] e.what = "name range" -> r.name_length > 0 /\ ~NameInside(f.header, r)
        [] e.what = "name byte" ->
             /\ NameInside(f.header, r) /\ e.at[2] < r.name_length
             /\ NameByteIs(f, r, e.at[2], FALSE)
             /\ \A k \in 0 .. e.at[2] - 1 : NameByteIs(f, r, k, TRUE)
        [] e.what = "data range" -> ~DataInside(f.header, r)
        [] e.what = "flags" -> r.flags > BUN_ALLOWED_FLAGS
        [] e.what = "checksum" -> r.checksum # 0
        [] e.what = "uncompressed size" ->
             r.compression = BUN_COMPRESSION_NONE /\ r.uncompressed_size # 0
        [] e.what = "zlib" -> r.compression = BUN_COMPRESSION_ZLIB
        [] e.what = "unknown compression" -> r.compression > BUN_COMPRESSION_ZLIB
        [] e.what = "rle odd" -> rle /\ r.data_size % 2 # 0
        [] e.what \in {"data offset overflow", "rle seek failed"} ->
             rle /\ ~DataInside(f.header, r)
        [] e.what = "rle read failed" -> rle /\ from + r.data_size > f.size
        [] e.what = "rle zero count" ->
             /\ rle /\ e.at[2] % 2 = 0 /\ e.at[2] < r.data_size
             /\ count(e.at[2] \div 2) = 0
             /\ \A q \in 0 .. (e.at[2] \div 2) - 1 : count(q) # 0
        [] e.what = "rle expanded overflow" ->
             \E q \in 0 .. r.data_size \div 2 : Counts(f, from, q) > UINT64_MAX
        [] e.what = "rle size" ->
             rle /\ Counts(f, from, r.data_size \div 2) # r.uncompressed_size
        [] OTHER -> FALSE

HeaderMessages == {"file too small", "magic", "version", "align",
  "table overflow", "end overflow", "outside file", "overlap"}

\* Without a stdio failure every message printed is true of the file: of its
\* header, or of the record the message names, at the byte it names.
NoFalseAlarm ==
  ~disturbed =>
    \A k \in DOMAIN ctx.errors :
      LET e == ctx.errors[k] IN
      IF e.what \in HeaderMessages
        THEN HeaderMessageTrue(e, disk)
        ELSE RecordMessageTrue(e, disk, Entry(disk, e.at[1]))

\* Everything there is to say of a header: the messages, at the sections they
\* name, that are true of it. A file too small for one is told no more.
HeaderPlaces ==
  [what : {"magic", "version"}, at : {<<>>}]
    \cup [what : {"align"}, at : {<<k>> : k \in 1 .. 5}]
    \cup [what : {"end overflow", "outside file"}, at : {<<k>> : k \in 1 .. 4}]
    \cup [what : {"overlap"}, at : {p \in (1 .. 4) \X (1 .. 4) : p[1] < p[2]}]

HeaderComplaints(f) ==
  IF f.size < BUN_HEADER_SIZE THEN {[what |-> "file too small", at |-> <<>>]}
  ELSE {c \in HeaderPlaces : HeaderMessageTrue(c, f)}

Complain(broken, what) == IF broken THEN {what} ELSE {}

\* What is wrong with the pairs of an RLE payload. The check stops at the first
\* zero count, unless the counts before it already overflow.
RleComplaints(f, r) ==
  LET from == f.header.data_section_offset + r.data_offset
      pairs == r.data_size \div 2
      sum == Counts(f, from, pairs)
      zero == \E p \in 0 .. pairs - 1 :
                ByteAt(f, from + 2 * p) = 0 /\ Counts(f, from, p) <= UINT64_MAX
  IN  Complain(zero, "rle zero count")
        \cup Complain(~zero /\ sum > UINT64_MAX, "rle expanded overflow")
        \cup Complain(~zero /\ sum <= UINT64_MAX /\ sum # r.uncompressed_size, "rle size")

\* Everything there is to say of a record. The pairs are looked at where the
\* data section holds the payload; elsewhere its range is what is wrong.
RecordComplaints(f, r) ==
  LET h == f.header
      rle == r.compression = BUN_COMPRESSION_RLE
      even == r.data_size % 2 = 0
  IN  Complain(r.name_length = 0, "empty name")
        \cup Complain(r.name_length > 0 /\ ~NameInside(h, r), "name range")
        \cup Complain(NameInside(h, r) /\ ~NamePrintable(f, r), "name byte")
        \cup Complain(~DataInside(h, r), "data range")
        \cup Complain(r.flags > BUN_ALLOWED_FLAGS, "flags")
        \cup Complain(r.checksum # 0, "checksum")
        \cup Complain(r.compression = BUN_COMPRESSION_NONE /\ r.uncompressed_size # 0,
                      "uncompressed size")
        \cup Complain(r.compression = BUN_COMPRESSION_ZLIB, "zlib")
        \cup Complain(r.compression > BUN_COMPRESSION_ZLIB, "unknown compression")
        \cup Complain(rle /\ ~even, "rle odd")
        \cup (IF rle /\ even /\ DataInside(h, r) THEN RleComplaints(f, r) ELSE {})

HeaderReported ==
  \A c \in HeaderComplaints(disk) :
    \E k \in DOMAIN ctx.errors :
      ctx.errors[k].what = c.what /\ ctx.errors[k].at = c.at

RecordReported(j, complaints) ==
  \A what \in complaints :
    \E k \in DOMAIN ctx.errors :
      ctx.errors[k].what = what /\ ctx.errors[k].at[1] = j

\* A run that met no failure and filled no list has named every rule the file
\* breaks: those of the header at each section, and under a good header those
\* of each record, which were all shown. No check hides the outcome of another
\* (validate_header_offsets and validate_asset_record go on after every failed
\* check, and bun_parse_assets after every failed record).
AllReported ==
  exit # NotExited /\ args = 2 /\ ~disturbed /\ Len(ctx.errors) < MAX_ERRORS =>
    /\ HeaderReported
    /\ ~HeaderMalformed(disk) /\ ~HeaderUnsupported(disk) =>
         /\ out.records = disk.header.asset_count
         /\ \A j \in 0 .. disk.header.asset_count - 1 :
              RecordReported(j, RecordComplaints(disk, Entry(disk, j)))

\* What a run has concluded it never takes back: flags are set for good and
\* messages are only appended (ctx is cleared by bun_open alone).
Sticky ==
  [][/\ ctx.saw_malformed => ctx'.saw_malformed
     /\ ctx.saw_unsupported => ctx'.saw_unsupported
     /\ Len(ctx.errors) <= Len(ctx'.errors)
     /\ SubSeq(ctx'.errors, 1, Len(ctx.errors)) = ctx.errors]_vars

-----------------------------------------------------------------------------
(* What the repository's documents say and the code does not do. Each is     *)
(* checked by a run that is expected to refute it.                          *)

\* bun_validate.h: the data bounds check "Prevents reading outside the data
\* section". validate_compression reads an RLE payload all the same.
BoundsCheckGuardsReads ==
  touched.use = "rle" /\ touched.len > 0 =>
    Within(header.data_section_offset, header.data_section_size)

\* main.c: BUN_MALFORMED means "file violates the BUN specification", and a
\* read error is BUN_ERR_IO. The code answers a failed read with
\* BUN_MALFORMED.
MalformedIsDeserved == exit = BUN_MALFORMED => Classify(disk) = BUN_MALFORMED

\* main.c, step 6: "Prints any malformed/unsupported error messages". They
\* are dropped when bun_parse_assets gives up with BUN_ERR_IO.
MessagesPrinted ==
  pc = "done" /\ ctx.errors # <<>> => out.stderr = "errors"

\* bun.h: bun_parse_header "Returns BUN_OK, BUN_MALFORMED, or BUN_UNSUPPORTED".
\* It also returns BUN_ERR_IO.
HeaderResultDocumented ==
  [][pc = "header" => result' \in {BUN_OK, BUN_MALFORMED, BUN_UNSUPPORTED}]_vars

-----------------------------------------------------------------------------
\* Every run ends, whatever asset_count, name_length and data_size claim.
Termination == <>(pc = "done")

\* The program implements the abstract verdict: exit code and failures.
Promise == INSTANCE BunVerdict
  WITH file <- disk, faulty <- disturbed, verdict <- exit

PromiseKept == Promise!ASpec

=============================================================================
