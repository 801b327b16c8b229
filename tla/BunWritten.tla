----------------------------- MODULE BunWritten -----------------------------
(* BunParse run on files that BunWriter has written: from the arguments of    *)
(* the Python functions through the bytes to the parser's exit code, which    *)
(* is what tests/run_e2e.sh compares with tests/fixtures/expectations.tsv.    *)
(* Here a file also carries what was asked of its writer: the field written   *)
(* of disk, and the exit code that is expected of the parser.                 *)
EXTENDS BunInvariant, BunWriter

ASSUME WrittenAssumption == \A f \in Files : f.code \in bun_result_t

\* What a script's arguments deserve, said of them alone: no offsets, no
\* sections, no other asset. A payload is judged as a file of its own.
Alone(payload) ==
  [size |-> Len(payload), header |-> ZeroHeader, records |-> <<>>,
   bytes |-> [p \in 0 .. Len(payload) - 1 |-> payload[p + 1]]]

AssetMalformed(a) ==
  \/ a.name = <<>>
  \/ \E k \in DOMAIN a.name : a.name[k] \notin 32 .. 126
  \/ a.compression = BUN_COMPRESSION_NONE /\ a.uncompressed_size # 0
  \/ /\ a.compression = BUN_COMPRESSION_RLE
     /\ ~RleWellFormed(Alone(a.payload), Record(a, 0, 0))

AssetUnsupported(a) == RecordUnsupported(Record(a, 0, 0))

RightAnswer(w) ==
  IF w.header.magic # BUN_MAGIC THEN BUN_MALFORMED
  ELSE IF w.header.version_major # 1 \/ w.header.version_minor # 0 THEN BUN_UNSUPPORTED
  ELSE IF \E k \in DOMAIN w.assets : AssetMalformed(w.assets[k]) THEN BUN_MALFORMED
  ELSE IF \E k \in DOMAIN w.assets : AssetUnsupported(w.assets[k]) THEN BUN_UNSUPPORTED
  ELSE BUN_OK

\* A file is given the exit code that expectations.tsv or, for other files, the
\* script that wrote it promises, and its arguments deserve: paddings, cursors,
\* alignment and the counts of _rle_encode agree with every check of the parser.
Expected ==
  exit # NotExited =>
    /\ exit = disk.code
    /\ disk.written.assets # <<>> => exit = RightAnswer(disk.written)

\* Every field reaches the parser's structures, and stands behind its own label
\* in what is printed, with the value the writer was given: the offsets of
\* bun_parse.c are those of the format strings in bunfile_generator.py.
Same(struct, written) == \A f \in DOMAIN struct : struct[f] = written[f]
Printed(lines) == {lines[k] : k \in DOMAIN lines}
Labelled(written) == {<<f, written[f]>> : f \in DOMAIN written}

AsWritten ==
  LET w == disk.written IN
  /\ out.header =>
       /\ Same(header, w.header)
       /\ Printed(bun_print_header(DecodeHeader(w.bytes))) = Labelled(w.header)
  /\ pc = "name" =>
       LET r == w.records[i + 1]
           b == SubSeq(w.bytes, touched.from + 1, touched.from + touched.len)
       IN  /\ Same(rec, r)
           /\ Printed(bun_print_asset_record(read_asset_record_from_buf(b))) = Labelled(r)

\* The snippets printed for an asset are the beginning of its own name and of
\* its own payload, not of a neighbour's or of padding. (Between two records
\* the last read may still be one of the asset before.)
Bytes(from, n) == [k \in 1 .. n |-> ByteAt(disk, from + k - 1)]
Beginning(s, n) == SubSeq(s, 1, AtMost(n, Len(s)))

OwnBytes ==
  InBody /\ disk.written.assets # <<>> /\ touched.use \in {"name", "payload"} =>
    LET asset == disk.written.assets[i + 1] IN
    Bytes(touched.from, touched.len) =
      IF touched.use = "name" THEN Beginning(asset.name, NAME_SNIPPET_BYTES)
      ELSE Beginning(asset.payload, PayloadShown)

-----------------------------------------------------------------------------
\* What the two above follow from: the header in memory is the file's once it
\* is printed, and while a record is in hand the last read is the record's slot
\* or lies where the record's own fields say (bun_parse.c 140-149).
LastRead(use, from, len) == touched = [use |-> use, from |-> from, len |-> len]

FromDisk ==
  /\ pc = "header" => ~ctx.header_loaded
  /\ out.header => header = disk.header /\ disk.size >= BUN_HEADER_SIZE
  /\ pc = "name" =>
       LastRead("record", header.asset_table_offset + i * BUN_ASSET_RECORD_SIZE,
                BUN_ASSET_RECORD_SIZE)
  /\ InBody /\ touched.use = "name" =>
       LastRead("name", header.string_table_offset + rec.name_offset,
                AtMost(rec.name_length, NAME_SNIPPET_BYTES))
  /\ InBody /\ touched.use = "payload" =>
       LastRead("payload", header.data_section_offset + rec.data_offset, PayloadShown)

=============================================================================
