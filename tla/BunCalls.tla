------------------------------ MODULE BunCalls ------------------------------
(* bun_parse_header and bun_parse_assets as functions from the arguments and *)
(* the context to the result and the context. BunApi calls them in any      *)
(* order; BunParse, which goes step by step, is compared with them.         *)
EXTENDS BunValidate

\* Mutant: the function starts from a clean verdict.
parse_header_afresh(f, ctx) ==
  LET clean == [ctx EXCEPT !.saw_malformed = FALSE, !.saw_unsupported = FALSE]
      c == add_error([clean EXCEPT !.header_loaded = TRUE],
             validate_header_basic(f.header)
               \o validate_header_offsets(f.header, ctx.file_size))
  IN  [result |-> bun_context_result(c), ctx |-> c, header |-> f.header]

\* header is the caller's variable, zeroed before anything is read.
parse_header(f, ctx) ==
  LET small == ctx.file_size < BUN_HEADER_SIZE
      c == add_error([ctx EXCEPT !.header_loaded = ~small],
             IF small THEN Check(TRUE, BUN_MALFORMED, "file too small", <<>>)
             ELSE validate_header_basic(f.header)
                    \o validate_header_offsets(f.header, ctx.file_size))
  IN  [result |-> bun_context_result(c), ctx |-> c,
       header |-> IF small THEN ZeroHeader ELSE f.header]

-----------------------------------------------------------------------------
(* stdio in bun_parse_assets. A call is <<i, use>>: the seek to slot i, or a *)
(* read for record i. "stops" gives, for the calls that fail, the bytes they *)
(* deliver all the same, or -1 when the seek before them is what fails.      *)
Uses == {"seek", "record", "data", "name"}
NoFailures == << >>
Delivered(stops, i, use, all) ==
  IF <<i, use>> \in DOMAIN stops THEN AtMost(stops[<<i, use>>], all) ELSE all

\* Mutant: the name is checked only in a record without complaint.
RecordMessagesShort(f, h, r, i, stops) ==
  LET data == Delivered(stops, i, "data", Available(f, DataStart(h, r).out))
      name == Delivered(stops, i, "name", Available(f, NameStart(h, r).out))
      es == validate_asset_record(f, h, r, i, data >= 0, data)
  IN  IF es = <<>> THEN validate_asset_name(f, h, r, i, name >= 0, name) ELSE es

\* What one turn of the loop reports of record i.
RecordMessages(f, h, r, i, stops) ==
  LET data == Delivered(stops, i, "data", Available(f, DataStart(h, r).out))
      name == Delivered(stops, i, "name", Available(f, NameStart(h, r).out))
  IN  validate_asset_record(f, h, r, i, data >= 0, data)
        \o (IF name_range_safe(h, r)
              THEN validate_asset_name(f, h, r, i, name >= 0, name) ELSE <<>>)

\* The place of record i, whether the stream can be brought there, and whether
\* the record can be read there.
Slot(h, i) == bun_u64_add(h.asset_table_offset, bun_u64_mul(i, BUN_ASSET_RECORD_SIZE).out)

Reached(h, i, stops) ==
  /\ Slot(h, i).ok /\ Seekable(Slot(h, i).out)
  /\ Delivered(stops, i, "seek", 0) = 0

ReadWhole(f, h, i, stops) ==
  Delivered(stops, i, "record", Available(f, Slot(h, i).out)) >= BUN_ASSET_RECORD_SIZE

\* The messages from record i on, and whether a seek ends the loop; rest is the
\* same from the next record on.
Turn(f, h, i, stops, rest) ==
  IF ~Reached(h, i, stops) THEN [io |-> TRUE, es |-> <<>>]
  ELSE IF i = h.asset_count THEN [io |-> FALSE, es |-> <<>>]
  ELSE IF ~ReadWhole(f, h, i, stops)
    THEN [io |-> FALSE, es |-> Check(TRUE, BUN_MALFORMED, "record unreadable", <<i>>)]
  ELSE [io |-> rest.io,
        es |-> RecordMessages(f, h, RecordAt(f, Slot(h, i).out), i, stops) \o rest.es]

\* The same of the loop from record k on, and of the whole of it.
LoopFrom(f, h, stops, k) ==
  LET loop[i \in 0 .. h.asset_count] == Turn(f, h, i, stops, loop[i + 1])
  IN  loop[k]

AssetLoop(f, h, stops) == LoopFrom(f, h, stops, 0)

\* Mutant: the result is that of this call's messages alone.
parse_assets_own(f, h, ctx, stops) ==
  LET loop == AssetLoop(f, h, stops)
      own == add_error(ZeroContext, loop.es)
  IN  [result |-> IF loop.io THEN BUN_ERR_IO ELSE bun_context_result(own),
       ctx |-> add_error(ctx, loop.es)]

parse_assets(f, h, ctx, stops) ==
  LET loop == AssetLoop(f, h, stops)
      c == add_error(ctx, loop.es)
  IN  [result |-> IF loop.io THEN BUN_ERR_IO ELSE bun_context_result(c), ctx |-> c]

=============================================================================
