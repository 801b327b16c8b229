------------------------------ MODULE BunUtils ------------------------------
(* bun.h and bun_utils.c: integer widths, result codes, the parse context   *)
(* and the helpers every other part of the parser is built from.            *)
(*                                                                          *)
(* Widths are CONSTANTS so that TLC can check them at a small scale while    *)
(* the proofs hold for any that satisfy WidthAssumption, the C ones included.*)
EXTENDS Integers, Sequences

CONSTANTS
  UINT32_MAX, UINT64_MAX,   \* largest u32 and u64
  LONG_MAX,                 \* largest stream offset: fseek and ftell use long
  BUN_HEADER_SIZE, BUN_ASSET_RECORD_SIZE,
  BUN_MAGIC,
  MAX_ERRORS                \* capacity of ctx->errors

\* What the code relies on: a table of UINT32_MAX records has a u64 size, and
\* a long is narrower than a u64.
ASSUME WidthAssumption ==
  /\ UINT32_MAX \in Nat /\ UINT64_MAX \in Nat /\ LONG_MAX \in Nat
  /\ BUN_HEADER_SIZE \in Nat \ {0} /\ BUN_ASSET_RECORD_SIZE \in Nat \ {0}
  /\ UINT32_MAX * BUN_ASSET_RECORD_SIZE <= UINT64_MAX
  /\ BUN_HEADER_SIZE <= LONG_MAX /\ LONG_MAX < UINT64_MAX
  /\ BUN_MAGIC \in 0 .. UINT32_MAX
  /\ MAX_ERRORS \in Nat

u32 == 0 .. UINT32_MAX
u64 == 0 .. UINT64_MAX
offset_t == 0 .. LONG_MAX        \* the non-negative values of a C long

-----------------------------------------------------------------------------
(* Result codes and on-disk records (bun.h). The fields "reserved" and      *)
(* "type" are printed and never tested, so they are left out.               *)
BUN_OK           == 0
BUN_MALFORMED    == 1
BUN_UNSUPPORTED  == 2
BUN_ERR_USAGE    == 3
BUN_ERR_IO       == 4
BUN_ERR_INTERNAL == 5
bun_result_t     == BUN_OK .. BUN_ERR_INTERNAL

BUN_VERSION_MAJOR == 1
BUN_VERSION_MINOR == 0
BUN_ALLOWED_FLAGS == 3
BUN_COMPRESSION_NONE == 0
BUN_COMPRESSION_RLE  == 1
BUN_COMPRESSION_ZLIB == 2

BunHeader ==
  [magic : u32, version_major : u32, version_minor : u32, asset_count : u32,
   asset_table_offset : u64, string_table_offset : u64,
   string_table_size : u64, data_section_offset : u64,
   data_section_size : u64]

BunAssetRecord ==
  [name_offset : u32, name_length : u32, data_offset : u64, data_size : u64,
   uncompressed_size : u64, compression : u32, checksum : u32, flags : u32]

\* memset(header, 0, sizeof *header)
ZeroHeader ==
  [magic |-> 0, version_major |-> 0, version_minor |-> 0, asset_count |-> 0,
   asset_table_offset |-> 0, string_table_offset |-> 0,
   string_table_size |-> 0, data_section_offset |-> 0,
   data_section_size |-> 0]

ZeroRecord ==
  [name_offset |-> 0, name_length |-> 0, data_offset |-> 0, data_size |-> 0,
   uncompressed_size |-> 0, compression |-> 0, checksum |-> 0, flags |-> 0]

-----------------------------------------------------------------------------
(* Overflow-safe arithmetic: [ok, out], with out saturated on overflow.     *)
Saturating(n) ==
  [ok |-> n <= UINT64_MAX, out |-> IF n <= UINT64_MAX THEN n ELSE UINT64_MAX]

bun_u64_add(a, b) == Saturating(a + b)
bun_u64_mul(a, b) == Saturating(a * b)

\* end <= limit, where end = offset + size must not overflow.
EndsBy(offset, size, limit) ==
  LET end == bun_u64_add(offset, size) IN end.ok /\ end.out <= limit

\* Mutant: a section may not end with the file.
check_range_strict(offset, size, file_size) ==
  LET end == bun_u64_add(offset, size) IN end.ok /\ end.out < file_size

check_range_within_file(offset, size, file_size) ==
  EndsBy(offset, size, file_size)

\* Mutant: the name's length is forgotten.
name_start_safe(h, r) ==
  r.name_length > 0 /\ r.name_offset < h.string_table_size

name_range_safe(h, r) ==
  r.name_length > 0 /\ EndsBy(r.name_offset, r.name_length, h.string_table_size)

\* Mutant: the payload's size is forgotten.
data_start_safe(h, r) == r.data_offset <= h.data_section_size

data_range_safe(h, r) == EndsBy(r.data_offset, r.data_size, h.data_section_size)

\* seek_u64 refuses an offset that fseek's long cannot hold.
Seekable(offset) == offset <= LONG_MAX

AtMost(n, m) == IF n < m THEN n ELSE m

-----------------------------------------------------------------------------
(* The parse context. An error message is the call that produced it: its    *)
(* code, what it complains of and the section or asset it names.            *)
Complaint ==
  {"file too small", "magic", "version", "align", "table overflow",
   "end overflow", "outside file", "overlap",
   "record unreadable", "empty name", "name range", "name offset overflow",
   "name seek failed", "name read failed", "name byte", "data range", "flags",
   "checksum", "uncompressed size", "zlib", "unknown compression",
   "data offset overflow", "rle odd", "rle seek failed", "rle read failed",
   "rle zero count", "rle expanded overflow", "rle size"}

Error == [code : {BUN_MALFORMED, BUN_UNSUPPORTED}, what : Complaint, at : Seq(Nat)]

BunParseContext ==
  [file : {"null", "open"}, file_size : offset_t, header_loaded : BOOLEAN,
   errors : Seq(Error), saw_malformed : BOOLEAN, saw_unsupported : BOOLEAN]

ZeroContext ==
  [file |-> "null", file_size |-> 0, header_loaded |-> FALSE,
   errors |-> <<>>, saw_malformed |-> FALSE, saw_unsupported |-> FALSE]

\* One "if (bad) add_error(ctx, code, ...)": the calls it makes.
Check(bad, code, what, at) ==
  IF bad THEN <<[code |-> code, what |-> what, at |-> at]>> ELSE <<>>

Has(es, code) == \E k \in DOMAIN es : es[k].code = code

\* Mutant: the capacity test is off by one, and one message is written past
\* the array.
CappedLate(es) ==
  IF Len(es) <= MAX_ERRORS + 1 THEN es ELSE SubSeq(es, 1, MAX_ERRORS + 1)

\* Mutant: a full list makes room for the newest message.
CappedOldest(es) ==
  IF Len(es) <= MAX_ERRORS THEN es
  ELSE SubSeq(es, Len(es) - MAX_ERRORS + 1, Len(es))

\* ctx->errors holds MAX_ERRORS messages; later ones are dropped.
Capped(es) == IF Len(es) <= MAX_ERRORS THEN es ELSE SubSeq(es, 1, MAX_ERRORS)

\* Mutant: returns early when the list is full, before the flags are set.
add_error_if_room(ctx, es) ==
  LET room == SubSeq(es, 1, AtMost(Len(es), MAX_ERRORS - Len(ctx.errors))) IN
  [ctx EXCEPT !.errors = @ \o room,
              !.saw_malformed = @ \/ Has(room, BUN_MALFORMED),
              !.saw_unsupported = @ \/ Has(room, BUN_UNSUPPORTED)]

\* The calls add_error(ctx, es[1]); add_error(ctx, es[2]); ... in a row. The
\* flags are set even when the list is full. add_error_composes, proved in
\* BunValidate_proofs, is what lets a row of calls be one application.
add_error(ctx, es) ==
  [ctx EXCEPT !.errors = Capped(@ \o es),
              !.saw_malformed = @ \/ Has(es, BUN_MALFORMED),
              !.saw_unsupported = @ \/ Has(es, BUN_UNSUPPORTED)]

\* Mutant: the flags are tested in the other order.
bun_context_result_swapped(ctx) ==
  IF ctx.saw_unsupported THEN BUN_UNSUPPORTED
  ELSE IF ctx.saw_malformed THEN BUN_MALFORMED ELSE BUN_OK

bun_context_result(ctx) ==
  IF ctx.saw_malformed THEN BUN_MALFORMED
  ELSE IF ctx.saw_unsupported THEN BUN_UNSUPPORTED ELSE BUN_OK

=============================================================================
