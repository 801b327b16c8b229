------------------------------ MODULE BunParse ------------------------------
(* The program: main (main.c) driving bun_open, bun_parse_header,           *)
(* bun_parse_assets and bun_close (bun_parse.c), with the snippet printers   *)
(* of bun_output.c. All of them share one stdio stream; every call that      *)
(* seeks or reads moves it. An action is a function, or the stretch of       *)
(* bun_parse_assets's loop body between two uses of the stream.              *)
EXTENDS BunValidate

CONSTANTS
  ArgCounts,             \* the values of argc to consider
  Files,                 \* the files the program may be run on
  Faults,                \* the stdio calls that may fail in this instance
  NAME_SNIPPET_BYTES, PAYLOAD_SNIPPET_BYTES

ASSUME ParseAssumption ==
  /\ \A f \in Files : IsFile(f)
  /\ Faults \subseteq {"fopen", "fseek", "ftell", "fread", "fclose"}
  /\ NAME_SNIPPET_BYTES \in Nat \ {0} /\ PAYLOAD_SNIPPET_BYTES \in Nat \ {0}

VARIABLES
  pc,        \* where control is
  args,      \* argc
  disk,      \* the file at argv[1]
  stream,    \* the FILE: its state and position
  ctx,       \* BunParseContext
  header,    \* BunHeader in main
  i, rec,    \* loop variable and current record of bun_parse_assets
  result,    \* main's result
  exit,      \* the exit code, NotExited while running
  out,       \* what has been printed
  touched,   \* the last range of the file read, and what for
  disturbed  \* history: some stdio call has failed

vars == <<pc, args, disk, stream, ctx, header, i, rec, result, exit, out,
          touched, disturbed>>

NotExited == -1

Init ==
  /\ pc = "start"
  /\ args \in ArgCounts
  /\ disk \in Files
  /\ stream = [state |-> "none", pos |-> 0]
  /\ ctx = ZeroContext
  /\ header = ZeroHeader
  /\ i = 0
  /\ rec = ZeroRecord
  /\ result = BUN_OK
  /\ exit = NotExited
  /\ out = [header |-> FALSE, records |-> 0, gaps |-> FALSE, stderr |-> "none"]
  /\ touched = [use |-> "none", from |-> 0, len |-> 0]
  /\ disturbed = FALSE

-----------------------------------------------------------------------------
(* stdio, as src/ uses it: a fault is a call failing for a reason outside    *)
(* the program.                                                             *)
Fault(call) == call \in Faults /\ disturbed' = TRUE
NoFault == disturbed' = disturbed

\* fseek to p; an fread of n bytes at p.
SeekTo(p) == stream' = [stream EXCEPT !.pos = p]
ReadAt(use, p, n) ==
  /\ SeekTo(p + n)
  /\ touched' = [use |-> use, from |-> p, len |-> n]

\* An fread of n bytes at p comes up short. No call is made for n = 0.
ShortRead(p, n) ==
  \/ Available(disk, p) < n /\ NoFault
  \/ n > 0 /\ Fault("fread")

\* left of the n bytes wanted at p are delivered, and whether a fault is why.
Delivers(p, n, left) ==
  disturbed' = (disturbed \/ left < AtMost(n, Available(disk, p)))

Goto(l) == pc' = l

-----------------------------------------------------------------------------
(* main: argument check and bun_open.                                       *)
Usage ==
  /\ pc = "start" /\ args # 2
  /\ Goto("done") /\ exit' = BUN_ERR_USAGE
  /\ out' = [out EXCEPT !.stderr = "usage"]
  /\ UNCHANGED <<args, disk, stream, ctx, header, i, rec, result, touched, disturbed>>

Opened ==
  /\ NoFault
  /\ stream' = [state |-> "open", pos |-> 0]
  /\ ctx' = [ZeroContext EXCEPT !.file = "open", !.file_size = disk.size]
  /\ Goto("header")
  /\ UNCHANGED <<exit, out>>

\* Mutant: the error path after fopen forgets fclose.
NotOpenedLeaks ==
  /\ \/ Fault("fopen") /\ stream' = stream
     \/ /\ Fault("fseek") \/ Fault("ftell")
        /\ stream' = [stream EXCEPT !.state = "open"]
  /\ ctx' = ZeroContext
  /\ Goto("done") /\ exit' = BUN_ERR_IO
  /\ out' = [out EXCEPT !.stderr = "open"]

\* fopen fails, or bun_open closes the stream because its size is not known.
NotOpened ==
  /\ \/ Fault("fopen") /\ stream' = stream
     \/ /\ Fault("fseek") \/ Fault("ftell")
        /\ stream' = [stream EXCEPT !.state = "closed"]
  /\ ctx' = ZeroContext
  /\ Goto("done") /\ exit' = BUN_ERR_IO
  /\ out' = [out EXCEPT !.stderr = "open"]

BunOpen ==
  /\ pc = "start" /\ args = 2
  /\ Opened \/ NotOpened
  /\ UNCHANGED <<args, disk, header, i, rec, result, touched>>

-----------------------------------------------------------------------------
(* bun_parse_header. main then prints the header if it was loaded and goes   *)
(* on to the assets only when nothing was wrong.                            *)
TooSmall ==
  /\ ctx.file_size < BUN_HEADER_SIZE
  /\ ctx' = add_error(ctx, Check(TRUE, BUN_MALFORMED, "file too small", <<>>))
  /\ header' = ZeroHeader
  /\ result' = bun_context_result(ctx')
  /\ NoFault
  /\ UNCHANGED <<stream, touched>>

HeaderUnreadable ==
  /\ ctx.file_size >= BUN_HEADER_SIZE
  /\ Fault("fseek") \/ ShortRead(0, BUN_HEADER_SIZE)
  /\ header' = ZeroHeader
  /\ result' = BUN_ERR_IO
  /\ SeekTo(0)
  /\ UNCHANGED <<ctx, touched>>

HeaderRead ==
  /\ ctx.file_size >= BUN_HEADER_SIZE
  /\ Available(disk, 0) >= BUN_HEADER_SIZE /\ NoFault
  /\ ReadAt("header", 0, BUN_HEADER_SIZE)
  /\ header' = disk.header
  /\ ctx' = add_error([ctx EXCEPT !.header_loaded = TRUE],
                      validate_header_basic(header')
                        \o validate_header_offsets(header', ctx.file_size))
  /\ result' = bun_context_result(ctx')

\* Mutant: main goes on to the assets unless the header is malformed.
BunParseHeaderLenient ==
  /\ pc = "header"
  /\ TooSmall \/ HeaderUnreadable \/ HeaderRead
  /\ out' = [out EXCEPT !.header = ctx'.header_loaded]
  /\ Goto(IF result' \in {BUN_OK, BUN_UNSUPPORTED} THEN "table" ELSE "report")
  /\ UNCHANGED <<args, disk, i, rec, exit>>

BunParseHeader ==
  /\ pc = "header"
  /\ TooSmall \/ HeaderUnreadable \/ HeaderRead
  /\ out' = [out EXCEPT !.header = ctx'.header_loaded]
  /\ Goto(IF result' = BUN_OK THEN "table" ELSE "report")
  /\ UNCHANGED <<args, disk, i, rec, exit>>

-----------------------------------------------------------------------------
(* bun_parse_assets.                                                        *)
Return(r) == result' = r /\ Goto("report")

SeekTable ==
  /\ pc = "table"
  /\ \/ /\ Seekable(header.asset_table_offset) /\ NoFault
        /\ SeekTo(header.asset_table_offset)
        /\ Goto("record") /\ UNCHANGED result
     \/ /\ \/ ~Seekable(header.asset_table_offset) /\ NoFault
           \/ Seekable(header.asset_table_offset) /\ Fault("fseek")
        /\ Return(BUN_ERR_IO) /\ UNCHANGED stream
  /\ i' = 0
  /\ UNCHANGED <<args, disk, ctx, header, rec, exit, out, touched>>

\* fread of the record, and bun_print_asset_record. out.records counts the
\* records printed; UINT32_MAX bounds it, and no table has more.
ReadRecord ==
  /\ pc = "record" /\ i < header.asset_count
  /\ Available(disk, stream.pos) >= BUN_ASSET_RECORD_SIZE /\ NoFault
  /\ rec' = RecordAt(disk, stream.pos)
  /\ ReadAt("record", stream.pos, BUN_ASSET_RECORD_SIZE)
  /\ out' = [out EXCEPT !.records = AtMost(@ + 1, UINT32_MAX)]
  /\ Goto("name")
  /\ UNCHANGED <<args, disk, ctx, header, i, result, exit>>

RecordUnreadable ==
  /\ pc = "record" /\ i < header.asset_count
  /\ ShortRead(stream.pos, BUN_ASSET_RECORD_SIZE)
  /\ ctx' = add_error(ctx, Check(TRUE, BUN_MALFORMED, "record unreadable", <<i>>))
  /\ Return(bun_context_result(ctx'))
  /\ UNCHANGED <<args, disk, stream, header, i, rec, exit, out, touched>>

\* Mutant: the loop may stop one record early.
AssetsDoneEarly ==
  /\ pc = "record" /\ i + 1 >= header.asset_count
  /\ Return(bun_context_result(ctx))
  /\ NoFault
  /\ UNCHANGED <<args, disk, stream, ctx, header, i, rec, exit, out, touched>>

AssetsDone ==
  /\ pc = "record" /\ i >= header.asset_count
  /\ Return(bun_context_result(ctx))
  /\ NoFault
  /\ UNCHANGED <<args, disk, stream, ctx, header, i, rec, exit, out, touched>>

\* A printer shows n bytes at start, or a placeholder: the range is not safe,
\* or the seek or the read fails. Neither is recorded in ctx.
Snippet(use, safe, start, n) ==
  \/ /\ safe /\ start.ok /\ Seekable(start.out)
     /\ Available(disk, start.out) >= n /\ NoFault
     /\ ReadAt(use, start.out, n)
     /\ UNCHANGED out
  \/ /\ \/ ~(safe /\ start.ok /\ Seekable(start.out)) /\ NoFault
        \/ safe /\ start.ok /\ Seekable(start.out) /\ Fault("fseek")
     /\ out' = [out EXCEPT !.gaps = TRUE]
     /\ UNCHANGED <<stream, touched>>
  \/ /\ safe /\ start.ok /\ Seekable(start.out)
     /\ ShortRead(start.out, n)
     /\ out' = [out EXCEPT !.gaps = TRUE]
     /\ SeekTo(start.out) /\ UNCHANGED touched

PrintName ==
  /\ pc = "name"
  /\ Snippet("name", name_range_safe(header, rec), NameStart(header, rec),
             AtMost(rec.name_length, NAME_SNIPPET_BYTES))
  /\ Goto("payload")
  /\ UNCHANGED <<args, disk, ctx, header, i, rec, result, exit>>

\* An empty payload, or one whose compression is not supported, is sought
\* but not read.
PayloadShown ==
  IF rec.compression = BUN_COMPRESSION_RLE
    THEN AtMost(rec.data_size, 2 * PAYLOAD_SNIPPET_BYTES)
  ELSE IF rec.compression = BUN_COMPRESSION_NONE
    THEN AtMost(rec.data_size, PAYLOAD_SNIPPET_BYTES)
  ELSE 0

PrintPayload ==
  /\ pc = "payload"
  /\ Snippet("payload", data_range_safe(header, rec), DataStart(header, rec),
             PayloadShown)
  /\ Goto("validate")
  /\ UNCHANGED <<args, disk, ctx, header, i, rec, result, exit>>

\* The payload of an RLE asset is read whether or not its range is safe.
ScanPayload(from) ==
  \E left \in Deliverable(disk, from, rec.data_size, "fread" \in Faults) :
    /\ Delivers(from, rec.data_size, left)
    /\ ctx' = add_error(ctx,
                validate_asset_record(disk, header, rec, i, TRUE, left))
    /\ ReadAt("rle", from,
         RleConsumed(disk, from, rec.data_size, left, rec.uncompressed_size))

ValidateRecord ==
  /\ pc = "validate"
  /\ \/ ScansPayload(header, rec) /\ ScanPayload(DataStart(header, rec).out)
     \/ /\ \/ ScansPayload(header, rec) /\ Fault("fseek")
           \/ ~ScansPayload(header, rec) /\ NoFault
        /\ ctx' = add_error(ctx,
                    validate_asset_record(disk, header, rec, i, FALSE, 0))
        /\ UNCHANGED <<stream, touched>>
  /\ Goto("chars")
  /\ UNCHANGED <<args, disk, header, i, rec, result, exit, out>>

ScanName(from) ==
  \E left \in Deliverable(disk, from, rec.name_length, "fread" \in Faults) :
    /\ Delivers(from, rec.name_length, left)
    /\ ctx' = add_error(ctx,
                validate_asset_name(disk, header, rec, i, TRUE, left))
    /\ ReadAt("chars", from, NameConsumed(disk, from, rec.name_length, left))

\* The name can be sought at all.
NameReachable ==
  NameStart(header, rec).ok /\ Seekable(NameStart(header, rec).out)

ValidateName ==
  /\ pc = "chars"
  /\ \/ /\ name_range_safe(header, rec) /\ NameReachable
        /\ ScanName(NameStart(header, rec).out)
     \/ /\ name_range_safe(header, rec)
        /\ \/ NameReachable /\ Fault("fseek")
           \/ ~NameReachable /\ NoFault
        /\ ctx' = add_error(ctx,
                    validate_asset_name(disk, header, rec, i, FALSE, 0))
        /\ UNCHANGED <<stream, touched>>
     \/ ~name_range_safe(header, rec) /\ NoFault /\ UNCHANGED <<ctx, stream, touched>>
  /\ Goto("reseek")
  /\ UNCHANGED <<args, disk, header, i, rec, result, exit, out>>

\* Everything above has moved the stream: put it on the next record.
NextRecord ==
  LET step == bun_u64_mul(i + 1, BUN_ASSET_RECORD_SIZE)
      next == bun_u64_add(header.asset_table_offset, step.out)
  IN  [ok |-> step.ok /\ next.ok /\ Seekable(next.out), out |-> next.out]

\* Mutant: the stream is left where the validators put it.
ReseekForgotten ==
  /\ pc = "reseek"
  /\ i' = i + 1 /\ Goto("record") /\ NoFault
  /\ UNCHANGED <<args, disk, stream, ctx, header, rec, result, exit, out, touched>>

\* Mutant: the loop variable is not advanced.
ReseekStuck ==
  /\ pc = "reseek" /\ NextRecord.ok /\ NoFault
  /\ SeekTo(NextRecord.out)
  /\ Goto("record")
  /\ UNCHANGED <<args, disk, ctx, header, i, rec, result, exit, out, touched>>

Reseek ==
  /\ pc = "reseek"
  /\ \/ /\ NextRecord.ok /\ NoFault
        /\ SeekTo(NextRecord.out)
        /\ i' = i + 1
        /\ Goto("record") /\ UNCHANGED result
     \/ /\ \/ ~NextRecord.ok /\ NoFault
           \/ NextRecord.ok /\ Fault("fseek")
        /\ Return(BUN_ERR_IO) /\ UNCHANGED <<stream, i>>
  /\ UNCHANGED <<args, disk, ctx, header, rec, exit, out, touched>>

-----------------------------------------------------------------------------
(* main: report, bun_close and the exit code.                               *)
Report ==
  /\ pc = "report"
  /\ out' = [out EXCEPT !.stderr =
       CASE result \in {BUN_MALFORMED, BUN_UNSUPPORTED} -> "errors"
         [] result = BUN_ERR_IO -> "io failure"
         [] result = BUN_ERR_INTERNAL -> "internal error"
         [] OTHER -> @]
  /\ Goto("close") /\ NoFault
  /\ UNCHANGED <<args, disk, stream, ctx, header, i, rec, result, exit, touched>>

\* Mutant: bun_close's result replaces the result of parsing.
BunCloseDecides ==
  /\ pc = "close"
  /\ \/ NoFault /\ exit' = BUN_OK
     \/ ctx.file = "open" /\ Fault("fclose") /\ exit' = BUN_ERR_IO
  /\ stream' = [stream EXCEPT !.state = IF ctx.file = "open" THEN "closed" ELSE @]
  /\ ctx' = [ctx EXCEPT !.file = "null"]
  /\ Goto("done")
  /\ UNCHANGED <<args, disk, header, i, rec, result, out, touched>>

\* fclose releases the stream whether or not it reports an error.
BunClose ==
  /\ pc = "close"
  /\ \/ NoFault /\ exit' = result
     \/ /\ ctx.file = "open" /\ Fault("fclose")
        /\ exit' = IF result = BUN_OK THEN BUN_ERR_IO ELSE result
  /\ stream' = [stream EXCEPT !.state = IF ctx.file = "open" THEN "closed" ELSE @]
  /\ ctx' = [ctx EXCEPT !.file = "null"]
  /\ Goto("done")
  /\ UNCHANGED <<args, disk, header, i, rec, result, out, touched>>

Step ==
  \/ Usage \/ BunOpen \/ BunParseHeader \/ SeekTable
  \/ ReadRecord \/ RecordUnreadable \/ PrintName \/ PrintPayload
  \/ ValidateRecord \/ ValidateName \/ Reseek \/ AssetsDone
  \/ Report \/ BunClose

\* The process has exited.
Exited == pc = "done" /\ UNCHANGED vars

Next == Step \/ Exited

\* The operating system runs the process; nothing else moves it.
Spec == Init /\ [][Next]_vars /\ WF_vars(Step)

=============================================================================
