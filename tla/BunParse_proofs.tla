--------------------------- MODULE BunParse_proofs ---------------------------
(* BunParse keeps ParseInvariant, hence answers BUN_OK and BUN_UNSUPPORTED    *)
(* only where they are due, under any stdio failures; and ExactInvariant,    *)
(* hence answers nothing else without a failure, shows what it accepts and   *)
(* reads where it should. Every step is one that BunVerdict allows.          *)
EXTENDS BunExact, BunChecks_proofs

-----------------------------------------------------------------------------
(* Types of what an action computes.                                        *)

\* The result codes are result codes, all different.
LEMMA CodesType ==
  /\ bun_result_t = 0 .. 5
  /\ \A c : bun_context_result(c) \in {BUN_OK, BUN_MALFORMED, BUN_UNSUPPORTED}
BY DEF bun_result_t, bun_context_result, BUN_OK, BUN_MALFORMED, BUN_UNSUPPORTED,
       BUN_ERR_INTERNAL

\* The name check takes a natural number of characters.
LEMMA NameConsumedType ==
  ASSUME NEW f, NEW from \in Nat, NEW n \in Nat, NEW left \in Nat
  PROVE  NameConsumed(f, from, n, left) \in Nat
<1> DEFINE bad == BadChars(f, from, n, left)
<1>1. bad \in SUBSET Nat
  BY DEF BadChars
<1> HIDE DEF bad
<1>2. bad # {} => FirstOf(bad) \in Nat
  BY <1>1, FirstOfMember
<1>3. NameConsumed(f, from, n, left) =
        IF bad # {} THEN FirstOf(bad) + 1 ELSE IF left < n THEN left ELSE n
  BY DEF NameConsumed, bad
<1>4. QED BY <1>2, <1>3

\* The RLE check takes a natural number of bytes.
LEMMA RleConsumedType ==
  ASSUME NEW f, NEW from \in Nat, NEW n \in Nat, NEW left \in Nat, NEW declared
  PROVE  RleConsumed(f, from, n, left, declared) \in Nat
<1> DEFINE v == RleVerdict(f, from, n, left, declared)
           chunks == v.pos \div BUFFER_SIZE + 1
<1>1. v.pos \in Nat
  BY RleVerdictFacts
<1>2. RleConsumed(f, from, n, left, declared) =
        CASE v.what \in {"rle zero count", "rle expanded overflow"} ->
               IF chunks * BUFFER_SIZE <= n THEN chunks * BUFFER_SIZE ELSE n
          [] v.what = "rle read failed" -> left
          [] OTHER -> n
  BY DEF RleConsumed
<1> HIDE DEF v
<1>3. chunks \in Nat
  BY <1>1, BufferAssumption
<1> HIDE DEF chunks
<1>4. chunks * BUFFER_SIZE \in Nat
  BY <1>3, BufferAssumption
<1>5. QED BY <1>2, <1>4

-----------------------------------------------------------------------------
(* Every action keeps the invariant.                                        *)

\* The initial states satisfy the invariant.
LEMMA InitInvariant == Init => ParseInvariant
<1> SUFFICES ASSUME Init PROVE ParseInvariant
  OBVIOUS
<1>1. TypeOK
  <2>1. IsFile(disk)
    BY ParseAssumption DEF Init
  <2>2. 0 \in u32 /\ 0 \in Nat /\ BUN_OK \in bun_result_t
    BY WidthAssumption, CodesType DEF u32, BUN_OK
  <2>3. Len(ZeroContext.errors) <= MAX_ERRORS
    BY WidthAssumption DEF ZeroContext
  <2>4. QED BY <2>1, <2>2, <2>3, ZeroTypes DEF Init, TypeOK, Output, Access
<1>2. pc = "start" /\ exit = NotExited /\ ctx = ZeroContext /\ stream.state = "none"
  BY DEF Init
<1>3. Fresh /\ HeaderKnown /\ Counting /\ RecordSlot /\ Judged /\ ResultSound
  BY <1>2 DEF Fresh, HeaderKnown, Counting, RecordSlot, Judged, ResultSound, InLoop, InBody
<1>4. VerdictSound
  BY <1>2 DEF VerdictSound, NotExited, BUN_OK, BUN_UNSUPPORTED
<1>5. StreamDiscipline
  BY <1>2 DEF StreamDiscipline, ZeroContext
<1>6. QED BY <1>1, <1>3, <1>4, <1>5 DEF ParseInvariant

\* Outside the table and the loop, and while the program runs, some parts of
\* the invariant say nothing.
LEMMA OutOfLoop ==
  ASSUME pc' \in {"header", "report", "close", "done"}
  PROVE  HeaderKnown' /\ Counting' /\ RecordSlot' /\ Judged'
BY DEF HeaderKnown, Counting, RecordSlot, Judged, InLoop, InBody

\* A step that does not exit decides no exit code.
LEMMA StillRunning ==
  ASSUME exit' = NotExited
  PROVE  VerdictSound'
BY DEF VerdictSound, NotExited, BUN_OK, BUN_UNSUPPORTED

\* What bun_context_result answers, by the flags.
LEMMA ResultMeans ==
  ASSUME NEW c
  PROVE  /\ bun_context_result(c) \in bun_result_t
         /\ bun_context_result(c) = BUN_OK => ~c.saw_malformed /\ ~c.saw_unsupported
         /\ bun_context_result(c) = BUN_UNSUPPORTED => ~c.saw_malformed /\ c.saw_unsupported
BY DEF bun_context_result, bun_result_t, BUN_OK, BUN_MALFORMED, BUN_UNSUPPORTED,
       BUN_ERR_INTERNAL

\* main without a path keeps the invariant.
LEMMA UsageStep ==
  ASSUME ParseInvariant, Usage
  PROVE  ParseInvariant'
<1>1. TypeOK'
  <2>1. out' \in Output
    BY DEF ParseInvariant, TypeOK, Usage, Output
  <2>2. exit' \in bun_result_t
    BY CodesType DEF Usage, BUN_ERR_USAGE
  <2>3. QED BY <2>1, <2>2 DEF ParseInvariant, TypeOK, Usage, Goto
<1>2. /\ Fresh' /\ HeaderKnown' /\ Counting' /\ RecordSlot' /\ Judged'
      /\ ResultSound' /\ VerdictSound'
  BY DEF Usage, Goto, Fresh, HeaderKnown, Counting, RecordSlot, Judged, ResultSound,
         VerdictSound, InLoop, InBody, BUN_ERR_USAGE, BUN_OK, BUN_UNSUPPORTED
<1>3. StreamDiscipline'
  BY DEF Usage, Goto, ParseInvariant, Fresh, StreamDiscipline, ZeroContext
<1>4. QED BY <1>1, <1>2, <1>3 DEF ParseInvariant

\* bun_open keeps the invariant, on its error paths too.
LEMMA BunOpenStep ==
  ASSUME ParseInvariant, BunOpen
  PROVE  ParseInvariant'
<1>1. TypeOK'
  <2>1. CASE Opened
    <3>1. ctx' \in BunParseContext /\ Len(ctx'.errors) <= MAX_ERRORS
      <4>1. disk.size \in offset_t
        BY DEF ParseInvariant, TypeOK, IsFile
      <4>2. ctx' = [ZeroContext EXCEPT !.file = "open", !.file_size = disk.size]
        BY <2>1 DEF Opened
      <4>3. ctx'.errors = <<>>
        BY <4>2 DEF ZeroContext
      <4>4. ctx' \in BunParseContext
        BY <4>1, <4>2, ZeroTypes DEF BunParseContext
      <4>5. QED BY <4>3, <4>4, WidthAssumption
    <3>2. QED BY <2>1, <3>1 DEF ParseInvariant, TypeOK, BunOpen, Opened, Goto, NoFault
  <2>2. CASE NotOpened
    <3>1. ctx' \in BunParseContext /\ Len(ctx'.errors) <= MAX_ERRORS
      BY <2>2, ZeroTypes, WidthAssumption DEF NotOpened, ZeroContext
    <3>2. disturbed' \in BOOLEAN
      BY <2>2 DEF NotOpened, Fault
    <3>3. out' \in Output
      BY <2>2 DEF ParseInvariant, TypeOK, NotOpened, Output
    <3>3a. exit' \in bun_result_t
      BY <2>2, CodesType DEF NotOpened, BUN_ERR_IO
    <3>4. stream' \in [state : {"none", "open", "closed"}, pos : Nat]
      BY <2>2 DEF ParseInvariant, TypeOK, NotOpened
    <3>5. QED BY <2>2, <3>1, <3>2, <3>3, <3>3a, <3>4
              DEF ParseInvariant, TypeOK, BunOpen, NotOpened, Goto
  <2>3. QED BY <2>1, <2>2 DEF BunOpen
<1>2. /\ HeaderKnown' /\ Counting' /\ RecordSlot' /\ Judged' /\ ResultSound'
  BY DEF BunOpen, Opened, NotOpened, Goto, HeaderKnown, Counting, RecordSlot, Judged,
         ResultSound, InLoop, InBody
<1>3. CASE Opened
  <2>1. /\ ctx'.file = "open" /\ ctx'.file_size = disk'.size
        /\ ~ctx'.saw_malformed /\ ~ctx'.saw_unsupported
    BY <1>3 DEF BunOpen, Opened, ZeroContext
  <2>2. pc' = "header" /\ exit' = NotExited /\ stream'.state = "open"
    BY <1>3 DEF ParseInvariant, Fresh, BunOpen, Opened, Goto
  <2>3. Fresh' /\ StreamDiscipline'
    BY <2>1, <2>2 DEF Fresh, StreamDiscipline
  <2>4. VerdictSound'
    BY <2>2 DEF VerdictSound, NotExited, BUN_OK, BUN_UNSUPPORTED
  <2>5. QED BY <1>1, <1>2, <2>3, <2>4 DEF ParseInvariant
<1>4. CASE NotOpened
  <2>1. pc' = "done" /\ exit' = BUN_ERR_IO /\ ctx' = ZeroContext
    BY <1>4 DEF NotOpened, Goto
  <2>2. stream'.state \in {"none", "closed"}
    BY <1>4 DEF ParseInvariant, TypeOK, Fresh, BunOpen, NotOpened
  <2>3. Fresh' /\ StreamDiscipline'
    BY <2>1, <2>2 DEF Fresh, StreamDiscipline, ZeroContext
  <2>4. VerdictSound'
    BY <2>1 DEF VerdictSound, BUN_ERR_IO, BUN_OK, BUN_UNSUPPORTED
  <2>5. QED BY <1>1, <1>2, <2>3, <2>4 DEF ParseInvariant
<1>5. QED BY <1>1, <1>2, <1>3, <1>4 DEF ParseInvariant, BunOpen

\* bun_parse_header establishes what the loop relies on: an accepted header
\* is a good one.
LEMMA BunParseHeaderStep ==
  ASSUME ParseInvariant, BunParseHeader
  PROVE  ParseInvariant'
<1> DEFINE es == validate_header_basic(disk.header)
                   \o validate_header_offsets(disk.header, disk.size)
<1>1. /\ TypeOK /\ Fresh /\ StreamDiscipline
      /\ pc = "header" /\ pc' = (IF result' = BUN_OK THEN "table" ELSE "report")
      /\ disk' = disk /\ exit' = exit
      /\ ctx.file_size = disk.size /\ ~ctx.saw_malformed /\ ~ctx.saw_unsupported
      /\ exit = NotExited
  BY DEF ParseInvariant, BunParseHeader, Goto, Fresh
<1>2. /\ IsFile(disk) /\ disk.header \in BunHeader /\ disk.size \in offset_t
      /\ ctx \in BunParseContext
  BY <1>1 DEF TypeOK, IsFile
<1>3. BUN_HEADER_SIZE \in Nat /\ disk.size \in Nat
  BY <1>2, WidthAssumption DEF offset_t
<1>4. CASE TooSmall
  <2> DEFINE e1 == Check(TRUE, BUN_MALFORMED, "file too small", <<>>)
  <2>1. e1 \in Seq(Error) /\ Has(e1, BUN_MALFORMED)
    <3>1. e1 \in Seq(Error)
      BY CheckType, PlaceType DEF Complaint
    <3>2. QED BY <3>1, HasCheck, Zenon
  <2>2. ctx' = add_error(ctx, e1)
    BY <1>4 DEF TooSmall
  <2> HIDE DEF e1
  <2>3. /\ ctx' \in BunParseContext /\ Len(ctx'.errors) <= MAX_ERRORS
        /\ ctx'.file = ctx.file /\ ctx'.saw_malformed
    BY <1>2, <2>1, <2>2, AddErrorContext
  <2>4. result' = BUN_MALFORMED
    BY <1>4, <2>3 DEF TooSmall, bun_context_result
  <2>5. pc' = "report"
    BY <1>1, <2>4 DEF BUN_OK, BUN_MALFORMED
  <2>6. out' \in Output
    BY <1>1, <2>3 DEF TypeOK, BunParseHeader, Output, BunParseContext
  <2>6a. /\ stream' = stream /\ touched' = touched /\ disturbed' = disturbed
         /\ header' = ZeroHeader
    BY <1>4 DEF TooSmall, NoFault
  <2>6b. BUN_MALFORMED \in bun_result_t
    BY CodesType DEF BUN_MALFORMED
  <2>7. TypeOK'
    BY <1>1, <2>3, <2>4, <2>5, <2>6, <2>6a, <2>6b, ZeroTypes DEF TypeOK, BunParseHeader
  <2>8. Fresh' /\ ResultSound' /\ StreamDiscipline'
    BY <1>1, <2>3, <2>4, <2>5, <2>6a
    DEF Fresh, ResultSound, StreamDiscipline, BUN_MALFORMED, BUN_OK, BUN_UNSUPPORTED
  <2>9. QED BY <1>1, <2>5, <2>7, <2>8, OutOfLoop, StillRunning DEF ParseInvariant
<1>5. CASE HeaderUnreadable
  <2>1. /\ result' = BUN_ERR_IO /\ ctx' = ctx /\ header' = ZeroHeader
        /\ stream' = [stream EXCEPT !.pos = 0] /\ touched' = touched
        /\ disturbed' \in BOOLEAN
    BY <1>1, <1>5 DEF TypeOK, HeaderUnreadable, SeekTo, Fault, ShortRead, NoFault
  <2>2. pc' = "report"
    BY <1>1, <2>1 DEF BUN_OK, BUN_ERR_IO
  <2>3. out' \in Output
    BY <1>1, <1>2, <2>1 DEF TypeOK, BunParseHeader, Output, BunParseContext
  <2>4. TypeOK'
    BY <1>1, <2>1, <2>2, <2>3, ZeroTypes, CodesType DEF TypeOK, BunParseHeader, BUN_ERR_IO
  <2>5. Fresh' /\ ResultSound' /\ StreamDiscipline'
    BY <1>1, <2>1, <2>2
    DEF TypeOK, Fresh, ResultSound, StreamDiscipline, BUN_ERR_IO, BUN_OK, BUN_UNSUPPORTED
  <2>6. QED BY <1>1, <2>2, <2>4, <2>5, OutOfLoop, StillRunning DEF ParseInvariant
<1>6. CASE HeaderRead
  <2> DEFINE loaded == [ctx EXCEPT !.header_loaded = TRUE]
  <2>1. disk.size >= BUN_HEADER_SIZE
    BY <1>1, <1>6 DEF HeaderRead
  <2>2. /\ es \in Seq(Error)
        /\ Has(es, BUN_MALFORMED) <=> HeaderMalformed(disk)
        /\ Has(es, BUN_UNSUPPORTED) <=> HeaderUnsupported(disk)
    BY <1>2, <2>1, HeaderExact
  <2>3. /\ header' = disk.header /\ ctx' = add_error(loaded, es)
        /\ result' = bun_context_result(ctx')
        /\ stream' = [stream EXCEPT !.pos = 0 + BUN_HEADER_SIZE]
        /\ touched' = [use |-> "header", from |-> 0, len |-> BUN_HEADER_SIZE]
        /\ disturbed' = disturbed
    BY <1>1, <1>6 DEF HeaderRead, ReadAt, SeekTo, NoFault
  <2>4. /\ loaded \in BunParseContext /\ loaded.file = ctx.file
        /\ ~loaded.saw_malformed /\ ~loaded.saw_unsupported
    BY <1>1, <1>2 DEF BunParseContext
  <2> HIDE DEF es, loaded
  <2>5. /\ ctx' \in BunParseContext /\ Len(ctx'.errors) <= MAX_ERRORS
        /\ ctx'.file = ctx.file
        /\ ctx'.saw_malformed <=> Has(es, BUN_MALFORMED)
        /\ ctx'.saw_unsupported <=> Has(es, BUN_UNSUPPORTED)
    BY <2>2, <2>3, <2>4, AddErrorContext
  <2>6. out' \in Output
    BY <1>1, <2>5 DEF TypeOK, BunParseHeader, Output, BunParseContext
  <2>7. TypeOK'
    <3>1. touched' \in Access /\ stream' \in [state : {"none", "open", "closed"}, pos : Nat]
      BY <1>1, <1>3, <2>3 DEF TypeOK, Access
    <3>2. pc' \in {"table", "report"} /\ result' \in bun_result_t
      BY <1>1, <2>3, ResultMeans
    <3>3. QED BY <1>1, <1>2, <2>3, <2>5, <2>6, <3>1, <3>2 DEF TypeOK, BunParseHeader
  <2>8. StreamDiscipline'
    BY <1>1, <2>3, <2>5 DEF TypeOK, StreamDiscipline
  <2>9. CASE result' = BUN_OK
    <3>1. /\ ~ctx'.saw_malformed /\ ~ctx'.saw_unsupported /\ pc' = "table"
      BY <1>1, <2>3, <2>9, ResultMeans
    <3>2. ~HeaderMalformed(disk) /\ ~HeaderUnsupported(disk)
      BY <2>2, <2>5, <3>1
    <3>3. /\ Fresh' /\ HeaderKnown' /\ Counting' /\ RecordSlot' /\ Judged' /\ ResultSound'
      BY <1>1, <2>3, <3>1, <3>2
      DEF Fresh, HeaderKnown, Counting, RecordSlot, Judged, ResultSound, InLoop, InBody
    <3>4. QED BY <1>1, <2>7, <2>8, <3>3, StillRunning DEF ParseInvariant
  <2>10. CASE result' # BUN_OK
    <3>1. pc' = "report"
      BY <1>1, <2>10
    <3>2. result' = BUN_UNSUPPORTED => Classify(disk) = BUN_UNSUPPORTED
      BY <2>2, <2>3, <2>5, ResultMeans DEF Classify
    <3>3. Fresh' /\ ResultSound'
      BY <1>1, <2>10, <3>1, <3>2 DEF Fresh, ResultSound
    <3>4. QED BY <1>1, <2>7, <2>8, <3>1, <3>3, OutOfLoop, StillRunning DEF ParseInvariant
  <2>11. QED BY <2>9, <2>10
<1>7. QED BY <1>4, <1>5, <1>6 DEF BunParseHeader

\* The seek to the table puts the stream on record 0.
LEMMA SeekTableStep ==
  ASSUME ParseInvariant, SeekTable
  PROVE  ParseInvariant'
<1>1. /\ TypeOK /\ StreamDiscipline /\ pc = "table" /\ exit = NotExited
      /\ header = disk.header /\ ~HeaderMalformed(disk) /\ ~HeaderUnsupported(disk)
      /\ ~ctx.saw_malformed /\ ~ctx.saw_unsupported
      /\ UNCHANGED <<args, disk, ctx, header, rec, exit, out, touched>> /\ i' = 0
  BY DEF ParseInvariant, SeekTable, Fresh, HeaderKnown
<1>2. header.asset_table_offset \in Nat /\ header.asset_count \in Nat
  BY <1>1, FieldTypes, WidthAssumption DEF TypeOK, BunHeader, u64, u32
<1>3. 0 \in u32 /\ BUN_ERR_IO \in bun_result_t
  BY WidthAssumption, CodesType DEF u32, BUN_ERR_IO
<1>4. CASE /\ disturbed' = disturbed /\ pc' = "record" /\ result' = result
           /\ stream' = [stream EXCEPT !.pos = header.asset_table_offset]
  <2>1. TypeOK'
    BY <1>1, <1>2, <1>3, <1>4 DEF TypeOK
  <2>2. Fresh' /\ HeaderKnown' /\ Counting' /\ ResultSound' /\ StreamDiscipline'
    BY <1>1, <1>2, <1>4
    DEF TypeOK, Fresh, HeaderKnown, Counting, ResultSound, StreamDiscipline, InLoop, InBody
  <2>3. RecordSlot'
    <3>1. 0 * BUN_ASSET_RECORD_SIZE = 0
      BY WidthAssumption
    <3>2. stream'.pos = header.asset_table_offset
      BY <1>1, <1>4 DEF TypeOK
    <3>3. QED BY <1>1, <1>2, <3>1, <3>2 DEF RecordSlot
  <2>4. Judged'
    BY <1>1, <1>4 DEF Judged, Checked, Examined, InLoop, InBody
  <2>5. QED BY <1>1, <2>1, <2>2, <2>3, <2>4, StillRunning DEF ParseInvariant
<1>5. CASE /\ disturbed' \in BOOLEAN /\ pc' = "report" /\ result' = BUN_ERR_IO
           /\ stream' = stream
  <2>1. TypeOK'
    BY <1>1, <1>3, <1>5 DEF TypeOK
  <2>2. Fresh' /\ ResultSound' /\ StreamDiscipline'
    BY <1>1, <1>5 DEF Fresh, ResultSound, StreamDiscipline, BUN_ERR_IO, BUN_OK, BUN_UNSUPPORTED
  <2>3. QED BY <1>1, <1>5, <2>1, <2>2, OutOfLoop, StillRunning DEF ParseInvariant
<1>6. disturbed \in BOOLEAN
  BY <1>1 DEF TypeOK
<1>7. QED BY <1>4, <1>5, <1>6 DEF SeekTable, SeekTo, Goto, Return, NoFault, Fault

\* The record read is the i-th entry of the table.
LEMMA ReadRecordStep ==
  ASSUME ParseInvariant, ReadRecord
  PROVE  ParseInvariant'
<1>1. /\ TypeOK /\ StreamDiscipline /\ HeaderKnown /\ Judged /\ RecordSlot
      /\ pc = "record" /\ pc' = "name" /\ exit = NotExited /\ i < header.asset_count
      /\ rec' = RecordAt(disk, stream.pos)
      /\ stream' = [stream EXCEPT !.pos = stream.pos + BUN_ASSET_RECORD_SIZE]
      /\ touched' = [use |-> "record", from |-> stream.pos, len |-> BUN_ASSET_RECORD_SIZE]
      /\ out' = [out EXCEPT !.records = AtMost(@ + 1, UINT32_MAX)]
      /\ UNCHANGED <<args, disk, ctx, header, i, result, exit, disturbed>>
  BY DEF ParseInvariant, ReadRecord, ReadAt, SeekTo, Goto, NoFault, Fresh
<1>2. header = disk.header
  BY <1>1 DEF HeaderKnown, InLoop
<1>3. rec' = Entry(disk, i) /\ rec' \in BunAssetRecord
  BY <1>1, <1>2, RecordAtType DEF TypeOK, RecordSlot, Entry
<1>4. TypeOK'
  <2>1. stream.pos \in Nat /\ BUN_ASSET_RECORD_SIZE \in Nat /\ out \in Output
    BY <1>1, WidthAssumption DEF TypeOK
  <2>2. touched' \in Access
    BY <1>1, <2>1 DEF Access
  <2>3. out' \in Output
    <3>1. AtMost(out.records + 1, UINT32_MAX) \in Nat
      <4>1. out.records \in Nat
        BY <2>1 DEF Output
      <4>2. QED BY <4>1, WidthAssumption DEF AtMost
    <3>2. out' = [out EXCEPT !.records = AtMost(out.records + 1, UINT32_MAX)]
      BY <1>1
    <3>3. \A S : \A o \in [header : BOOLEAN, records : Nat, gaps : BOOLEAN, stderr : S] :
            \A n \in Nat : [o EXCEPT !.records = n]
              \in [header : BOOLEAN, records : Nat, gaps : BOOLEAN, stderr : S]
      OBVIOUS
    <3>4. QED BY <2>1, <3>1, <3>2, <3>3, Zenon DEF Output
  <2>4. stream' \in [state : {"none", "open", "closed"}, pos : Nat]
    BY <1>1, <2>1 DEF TypeOK
  <2>5. QED BY <1>1, <1>3, <2>2, <2>3, <2>4 DEF TypeOK
<1>5. Fresh' /\ HeaderKnown' /\ Counting' /\ RecordSlot' /\ ResultSound' /\ StreamDiscipline'
  BY <1>1, <1>3
  DEF TypeOK, Fresh, HeaderKnown, Counting, RecordSlot, ResultSound, StreamDiscipline,
      InLoop, InBody
<1>6. Judged'
  BY <1>1 DEF Judged, Checked, Examined, InLoop, InBody
<1>7. QED BY <1>1, <1>4, <1>5, <1>6, StillRunning DEF ParseInvariant

\* A record that cannot be read makes the run malformed.
LEMMA RecordUnreadableStep ==
  ASSUME ParseInvariant, RecordUnreadable
  PROVE  ParseInvariant'
<1> DEFINE es == Check(TRUE, BUN_MALFORMED, "record unreadable", <<i>>)
<1>1. /\ TypeOK /\ StreamDiscipline /\ pc = "record" /\ pc' = "report" /\ exit = NotExited
      /\ ctx' = add_error(ctx, es) /\ result' = bun_context_result(ctx')
      /\ UNCHANGED <<args, disk, stream, header, i, rec, exit, out, touched>>
  BY DEF ParseInvariant, RecordUnreadable, Return, Goto, Fresh
<1>2. disturbed' \in BOOLEAN
  BY <1>1 DEF RecordUnreadable, ShortRead, Fault, NoFault, TypeOK
<1>3. es \in Seq(Error) /\ Has(es, BUN_MALFORMED)
  <2>1. <<i>> \in Seq(Nat)
    <3>1. i \in Nat
      BY WidthAssumption DEF ParseInvariant, TypeOK, u32
    <3>2. QED BY <3>1
  <2>2. es \in Seq(Error)
    BY <2>1, CheckType DEF Complaint
  <2>3. QED BY <2>2, HasCheck, Zenon
<1> HIDE DEF es
<1>4. /\ ctx' \in BunParseContext /\ Len(ctx'.errors) <= MAX_ERRORS
      /\ ctx'.file = ctx.file /\ ctx'.saw_malformed
  BY <1>1, <1>3, AddErrorContext DEF TypeOK
<1>5. result' = BUN_MALFORMED /\ result' \in bun_result_t
  BY <1>1, <1>4, ResultMeans DEF bun_context_result
<1>6. TypeOK'
  BY <1>1, <1>2, <1>4, <1>5 DEF TypeOK
<1>7. Fresh' /\ ResultSound' /\ StreamDiscipline'
  BY <1>1, <1>4, <1>5
  DEF Fresh, ResultSound, StreamDiscipline, BUN_MALFORMED, BUN_OK, BUN_UNSUPPORTED
<1>8. QED BY <1>1, <1>6, <1>7, OutOfLoop, StillRunning DEF ParseInvariant

\* The end of the loop turns the flags into the class of the file.
LEMMA AssetsDoneStep ==
  ASSUME ParseInvariant, AssetsDone
  PROVE  ParseInvariant'
<1>1. /\ TypeOK /\ StreamDiscipline /\ Judged
      /\ pc = "record" /\ pc' = "report" /\ exit = NotExited
      /\ result' = bun_context_result(ctx)
      /\ UNCHANGED <<args, disk, stream, ctx, header, i, rec, exit, out, touched, disturbed>>
  BY DEF ParseInvariant, AssetsDone, Return, Goto, Fresh, NoFault
<1>2. /\ header = disk.header /\ ~HeaderMalformed(disk) /\ ~HeaderUnsupported(disk)
      /\ i = disk.header.asset_count
  <2>1. i \in Nat /\ header.asset_count \in Nat
    BY <1>1, WidthAssumption DEF TypeOK, BunHeader, u32
  <2>2. i <= header.asset_count /\ i >= header.asset_count /\ header = disk.header
        /\ ~HeaderMalformed(disk) /\ ~HeaderUnsupported(disk)
    BY <1>1 DEF ParseInvariant, Counting, HeaderKnown, AssetsDone, InLoop
  <2>3. QED BY <2>1, <2>2
<1>3. /\ ~ctx.saw_malformed =>
           \A j \in 0 .. i - 1 : ~RecordMalformed(disk, Entry(disk, j))
      /\ ctx.saw_unsupported <=> \E j \in 0 .. i - 1 : RecordUnsupported(Entry(disk, j))
  BY <1>1 DEF Judged, Checked, Examined, InLoop, InBody
<1>4. result' \in {BUN_OK, BUN_UNSUPPORTED} => result' = Classify(disk)
  <2>1. CASE result' = BUN_OK
    BY <1>1, <1>2, <1>3, <2>1, ResultMeans DEF Classify
  <2>2. CASE result' = BUN_UNSUPPORTED
    BY <1>1, <1>2, <1>3, <2>2, ResultMeans DEF Classify
  <2>3. QED BY <2>1, <2>2
<1>5. TypeOK'
  BY <1>1, ResultMeans DEF TypeOK
<1>6. Fresh' /\ ResultSound' /\ StreamDiscipline'
  BY <1>1, <1>4 DEF Fresh, ResultSound, StreamDiscipline
<1>7. QED BY <1>1, <1>5, <1>6, OutOfLoop, StillRunning DEF ParseInvariant

\* A snippet printer moves the stream, and says what it showed; nothing else.
LEMMA SnippetTypes ==
  ASSUME TypeOK, NEW use \in {"name", "payload"}, NEW safe, NEW start, start.out \in Nat,
         NEW n \in Nat, Snippet(use, safe, start, n)
  PROVE  /\ stream' \in [state : {"none", "open", "closed"}, pos : Nat]
         /\ stream'.state = stream.state
         /\ touched' \in Access /\ out' \in Output /\ disturbed' \in BOOLEAN
<1>1. /\ stream \in [state : {"none", "open", "closed"}, pos : Nat]
      /\ touched \in Access /\ out \in Output /\ disturbed \in BOOLEAN
  BY DEF TypeOK
<1>2. /\ \/ stream' = stream
         \/ stream' = [stream EXCEPT !.pos = start.out]
         \/ stream' = [stream EXCEPT !.pos = start.out + n]
      /\ \/ touched' = touched
         \/ touched' = [use |-> use, from |-> start.out, len |-> n]
      /\ out' = out \/ out' = [out EXCEPT !.gaps = TRUE]
      /\ disturbed' \in {disturbed, TRUE}
  BY DEF Snippet, ReadAt, SeekTo, ShortRead, NoFault, Fault
<1>3. out' \in Output
  BY <1>1, <1>2 DEF Output
<1>4. touched' \in Access
  BY <1>1, <1>2 DEF Access
<1>5. /\ stream' \in [state : {"none", "open", "closed"}, pos : Nat]
      /\ stream'.state = stream.state
  BY <1>1, <1>2
<1>6. disturbed' \in BOOLEAN
  BY <1>1, <1>2
<1>7. QED BY <1>3, <1>4, <1>5, <1>6

\* print_asset_name_snippet moves the stream and no more.
LEMMA PrintNameStep ==
  ASSUME ParseInvariant, PrintName
  PROVE  ParseInvariant'
<1>1. /\ TypeOK /\ StreamDiscipline /\ HeaderKnown /\ Counting /\ Judged
      /\ pc = "name" /\ pc' = "payload" /\ exit = NotExited
      /\ UNCHANGED <<args, disk, ctx, header, i, rec, result, exit>>
  BY DEF ParseInvariant, PrintName, Goto, Fresh
<1>2. AtMost(rec.name_length, NAME_SNIPPET_BYTES) \in Nat /\ NameStart(header, rec).out \in Nat
  BY <1>1, FieldTypes, StartTypes, ParseAssumption DEF TypeOK, AtMost
<1>3. /\ stream' \in [state : {"none", "open", "closed"}, pos : Nat]
      /\ stream'.state = stream.state
      /\ touched' \in Access /\ out' \in Output /\ disturbed' \in BOOLEAN
  BY <1>1, <1>2, SnippetTypes DEF PrintName
<1>4. TypeOK'
  BY <1>1, <1>3 DEF TypeOK
<1>5. Fresh' /\ HeaderKnown' /\ Counting' /\ RecordSlot' /\ ResultSound' /\ StreamDiscipline'
  BY <1>1, <1>3
  DEF Fresh, HeaderKnown, Counting, RecordSlot, ResultSound, StreamDiscipline, InLoop, InBody
<1>6. Judged'
  BY <1>1 DEF Judged, Checked, Examined, InLoop, InBody
<1>7. QED BY <1>1, <1>4, <1>5, <1>6, StillRunning DEF ParseInvariant

\* print_asset_payload_snippet moves the stream and no more.
LEMMA PrintPayloadStep ==
  ASSUME ParseInvariant, PrintPayload
  PROVE  ParseInvariant'
<1>1. /\ TypeOK /\ StreamDiscipline /\ HeaderKnown /\ Counting /\ Judged
      /\ pc = "payload" /\ pc' = "validate" /\ exit = NotExited
      /\ UNCHANGED <<args, disk, ctx, header, i, rec, result, exit>>
  BY DEF ParseInvariant, PrintPayload, Goto, Fresh
<1>2. PayloadShown \in Nat /\ DataStart(header, rec).out \in Nat
  BY <1>1, FieldTypes, StartTypes, ParseAssumption DEF TypeOK, PayloadShown, AtMost
<1>3. /\ stream' \in [state : {"none", "open", "closed"}, pos : Nat]
      /\ stream'.state = stream.state
      /\ touched' \in Access /\ out' \in Output /\ disturbed' \in BOOLEAN
  BY <1>1, <1>2, SnippetTypes DEF PrintPayload
<1>4. TypeOK'
  BY <1>1, <1>3 DEF TypeOK
<1>5. Fresh' /\ HeaderKnown' /\ Counting' /\ RecordSlot' /\ ResultSound' /\ StreamDiscipline'
  BY <1>1, <1>3
  DEF Fresh, HeaderKnown, Counting, RecordSlot, ResultSound, StreamDiscipline, InLoop, InBody
<1>6. Judged'
  BY <1>1 DEF Judged, Checked, Examined, InLoop, InBody
<1>7. QED BY <1>1, <1>4, <1>5, <1>6, StillRunning DEF ParseInvariant

\* Bytes that an fread may deliver are a natural number of them.
LEMMA DeliverableType ==
  ASSUME NEW f, f.size \in Nat, NEW p \in Nat, NEW n \in Nat, NEW failing,
         NEW left \in Deliverable(f, p, n, failing)
  PROVE  left \in Nat
<1>1. Available(f, p) \in Nat
  BY DEF Available
<1>2. AtMost(n, Available(f, p)) \in Nat
  BY <1>1 DEF AtMost
<1>3. QED BY <1>2 DEF Deliverable

\* validate_asset_record leaves the flags right, but for the name's bytes.
LEMMA ValidateRecordStep ==
  ASSUME ParseInvariant, ValidateRecord
  PROVE  ParseInvariant'
<1> DEFINE from == DataStart(header, rec).out
           es(seeks, left) == validate_asset_record(disk, header, rec, i, seeks, left)
           used(left) == RleConsumed(disk, from, rec.data_size, left, rec.uncompressed_size)
<1>1. /\ TypeOK /\ StreamDiscipline /\ HeaderKnown /\ Counting /\ Judged
      /\ pc = "validate" /\ pc' = "chars" /\ exit = NotExited
      /\ UNCHANGED <<args, disk, header, i, rec, result, exit, out>>
  BY DEF ParseInvariant, ValidateRecord, Goto, Fresh
<1>2. /\ header = disk.header /\ rec = Entry(disk, i) /\ i \in Nat
      /\ disk.header \in BunHeader /\ rec \in BunAssetRecord
      /\ disk.size \in Nat /\ ctx \in BunParseContext
  BY <1>1, WidthAssumption DEF HeaderKnown, Counting, InLoop, InBody, TypeOK, IsFile, u32, offset_t
<1>3. from \in Nat /\ rec.data_size \in Nat
  BY <1>2, FieldTypes, StartTypes
<1>4. \E seeks \in BOOLEAN, left \in Nat :
        /\ ctx' = add_error(ctx, es(seeks, left))
        /\ \/ stream' = stream /\ touched' = touched
           \/ /\ stream' = [stream EXCEPT !.pos = from + used(left)]
              /\ touched' = [use |-> "rle", from |-> from, len |-> used(left)]
  <2>1. CASE ScanPayload(from)
    <3>1. PICK left \in Deliverable(disk, from, rec.data_size, "fread" \in Faults) :
            /\ ctx' = add_error(ctx, es(TRUE, left))
            /\ stream' = [stream EXCEPT !.pos = from + used(left)]
            /\ touched' = [use |-> "rle", from |-> from, len |-> used(left)]
      BY <2>1 DEF ScanPayload, ReadAt, SeekTo
    <3>2. left \in Nat
      BY <1>2, <1>3, DeliverableType
    <3> HIDE DEF es, used
    <3>3. QED BY <3>1, <3>2
  <2>2. CASE ctx' = add_error(ctx, es(FALSE, 0)) /\ UNCHANGED <<stream, touched>>
    <3> HIDE DEF es, used
    <3>1. QED BY <2>2
  <2>3. QED BY <2>1, <2>2 DEF ValidateRecord
<1>5. PICK seeks \in BOOLEAN, left \in Nat :
        /\ ctx' = add_error(ctx, es(seeks, left))
        /\ \/ stream' = stream /\ touched' = touched
           \/ /\ stream' = [stream EXCEPT !.pos = from + used(left)]
              /\ touched' = [use |-> "rle", from |-> from, len |-> used(left)]
  BY <1>4
<1>6. disturbed' \in BOOLEAN
  BY <1>1 DEF ValidateRecord, ScanPayload, Delivers, Fault, NoFault, TypeOK
<1>7. used(left) \in Nat
  BY <1>3, RleConsumedType
<1>8. /\ es(seeks, left) \in Seq(Error)
      /\ ~Has(es(seeks, left), BUN_MALFORMED) =>
           /\ name_range_safe(header, rec)
           /\ NamePrintable(disk, rec) => ~RecordMalformed(disk, rec)
      /\ Has(es(seeks, left), BUN_UNSUPPORTED) <=> RecordUnsupported(rec)
  BY <1>2, RecordChecks, RecordSound
<1> HIDE DEF es, used
<1>9. /\ ctx' \in BunParseContext /\ Len(ctx'.errors) <= MAX_ERRORS
      /\ ctx'.file = ctx.file
      /\ ctx'.saw_malformed <=> ctx.saw_malformed \/ Has(es(seeks, left), BUN_MALFORMED)
      /\ ctx'.saw_unsupported <=> ctx.saw_unsupported \/ Has(es(seeks, left), BUN_UNSUPPORTED)
  BY <1>2, <1>5, <1>8, AddErrorContext
<1>10. /\ stream' \in [state : {"none", "open", "closed"}, pos : Nat]
       /\ stream'.state = stream.state /\ touched' \in Access
  BY <1>1, <1>3, <1>5, <1>7 DEF TypeOK, Access
<1>11. TypeOK'
  BY <1>1, <1>6, <1>9, <1>10 DEF TypeOK
<1>12. Fresh' /\ HeaderKnown' /\ Counting' /\ RecordSlot' /\ ResultSound' /\ StreamDiscipline'
  BY <1>1, <1>9, <1>10
  DEF Fresh, HeaderKnown, Counting, RecordSlot, ResultSound, StreamDiscipline, InLoop, InBody
<1>13. Judged'
  <2>1. /\ ~ctx.saw_malformed =>
             \A j \in 0 .. i - 1 : ~RecordMalformed(disk, Entry(disk, j))
        /\ ctx.saw_unsupported <=> \E j \in 0 .. i - 1 : RecordUnsupported(Entry(disk, j))
    BY <1>1 DEF Judged, Checked, Examined, InLoop, InBody
  <2>2. \A j : j \in 0 .. (i + 1) - 1 <=> j \in 0 .. i - 1 \/ j = i
    BY <1>2
  <2>3. ctx'.saw_unsupported <=>
          \E j \in 0 .. (i + 1) - 1 : RecordUnsupported(Entry(disk, j))
    BY <1>2, <1>8, <1>9, <2>1, <2>2
  <2>4. QED BY <1>1, <1>8, <1>9, <2>1, <2>3 DEF Judged, Checked, Examined, InLoop, InBody
<1>14. QED BY <1>1, <1>11, <1>12, <1>13, StillRunning DEF ParseInvariant

\* validate_asset_name completes the judgement of the record.
LEMMA ValidateNameStep ==
  ASSUME ParseInvariant, ValidateName
  PROVE  ParseInvariant'
<1> DEFINE from == NameStart(header, rec).out
           es(seeks, left) == validate_asset_name(disk, header, rec, i, seeks, left)
           used(left) == NameConsumed(disk, from, rec.name_length, left)
<1>1. /\ TypeOK /\ StreamDiscipline /\ HeaderKnown /\ Counting /\ Judged
      /\ pc = "chars" /\ pc' = "reseek" /\ exit = NotExited
      /\ UNCHANGED <<args, disk, header, i, rec, result, exit, out>>
  BY DEF ParseInvariant, ValidateName, Goto, Fresh
<1>2. /\ header = disk.header /\ rec = Entry(disk, i) /\ i \in Nat
      /\ disk.header \in BunHeader /\ rec \in BunAssetRecord
      /\ disk.size \in Nat /\ ctx \in BunParseContext
  BY <1>1, WidthAssumption DEF HeaderKnown, Counting, InLoop, InBody, TypeOK, IsFile, u32, offset_t
<1>3. from \in Nat /\ rec.name_length \in Nat
  BY <1>2, FieldTypes, StartTypes
\* The name is checked, or out of range and known to be so.
<1>4. \/ \E seeks \in BOOLEAN, left \in Nat :
           /\ ctx' = add_error(ctx, es(seeks, left))
           /\ \/ stream' = stream /\ touched' = touched
              \/ /\ stream' = [stream EXCEPT !.pos = from + used(left)]
                 /\ touched' = [use |-> "chars", from |-> from, len |-> used(left)]
      \/ ~name_range_safe(header, rec) /\ UNCHANGED <<ctx, stream, touched>>
  <2>1. CASE ScanName(from)
    <3>1. PICK left \in Deliverable(disk, from, rec.name_length, "fread" \in Faults) :
            /\ ctx' = add_error(ctx, es(TRUE, left))
            /\ stream' = [stream EXCEPT !.pos = from + used(left)]
            /\ touched' = [use |-> "chars", from |-> from, len |-> used(left)]
      BY <2>1 DEF ScanName, ReadAt, SeekTo
    <3>2. left \in Nat
      BY <1>2, <1>3, DeliverableType
    <3> HIDE DEF es, used
    <3>3. QED BY <3>1, <3>2
  <2>2. CASE ctx' = add_error(ctx, es(FALSE, 0)) /\ UNCHANGED <<stream, touched>>
    <3> HIDE DEF es, used
    <3>1. QED BY <2>2
  <2>3. CASE ~name_range_safe(header, rec) /\ UNCHANGED <<ctx, stream, touched>>
    BY <2>3
  <2>4. QED BY <2>1, <2>2, <2>3 DEF ValidateName
<1>5. disturbed' \in BOOLEAN
  BY <1>1 DEF ValidateName, ScanName, Delivers, Fault, NoFault, TypeOK
<1>6. \A seeks, left : left \in Nat =>
        /\ used(left) \in Nat
        /\ es(seeks, left) \in Seq(Error)
        /\ ~Has(es(seeks, left), BUN_UNSUPPORTED)
        /\ ~Has(es(seeks, left), BUN_MALFORMED) => NamePrintable(disk, rec)
  BY <1>2, <1>3, NameConsumedType, NameChecks
<1> HIDE DEF es, used
<1>7. /\ ctx' \in BunParseContext /\ Len(ctx'.errors) <= MAX_ERRORS
      /\ ctx'.file = ctx.file
      /\ ctx.saw_malformed => ctx'.saw_malformed
      /\ ctx'.saw_unsupported <=> ctx.saw_unsupported
      /\ ~ctx'.saw_malformed => ~name_range_safe(header, rec) \/ NamePrintable(disk, rec)
      /\ stream' \in [state : {"none", "open", "closed"}, pos : Nat]
      /\ stream'.state = stream.state /\ touched' \in Access
  <2>1. CASE ~name_range_safe(header, rec) /\ UNCHANGED <<ctx, stream, touched>>
    BY <1>1, <2>1 DEF TypeOK
  <2>2. ASSUME NEW seeks \in BOOLEAN, NEW left \in Nat,
               ctx' = add_error(ctx, es(seeks, left)),
               \/ stream' = stream /\ touched' = touched
               \/ /\ stream' = [stream EXCEPT !.pos = from + used(left)]
                  /\ touched' = [use |-> "chars", from |-> from, len |-> used(left)]
        PROVE  /\ ctx' \in BunParseContext /\ Len(ctx'.errors) <= MAX_ERRORS
               /\ ctx'.file = ctx.file
               /\ ctx.saw_malformed => ctx'.saw_malformed
               /\ ctx'.saw_unsupported <=> ctx.saw_unsupported
               /\ ~ctx'.saw_malformed => NamePrintable(disk, rec)
               /\ stream' \in [state : {"none", "open", "closed"}, pos : Nat]
               /\ stream'.state = stream.state /\ touched' \in Access
    <3>1. /\ used(left) \in Nat
          /\ es(seeks, left) \in Seq(Error)
          /\ ~Has(es(seeks, left), BUN_UNSUPPORTED)
          /\ ~Has(es(seeks, left), BUN_MALFORMED) => NamePrintable(disk, rec)
      BY <1>6
    <3>2. /\ ctx' \in BunParseContext /\ Len(ctx'.errors) <= MAX_ERRORS
          /\ ctx'.file = ctx.file
          /\ ctx'.saw_malformed <=> ctx.saw_malformed \/ Has(es(seeks, left), BUN_MALFORMED)
          /\ ctx'.saw_unsupported <=>
               ctx.saw_unsupported \/ Has(es(seeks, left), BUN_UNSUPPORTED)
      BY <1>2, <2>2, <3>1, AddErrorContext
    <3>3. /\ stream' \in [state : {"none", "open", "closed"}, pos : Nat]
          /\ stream'.state = stream.state /\ touched' \in Access
      BY <1>1, <1>3, <2>2, <3>1 DEF TypeOK, Access
    <3>4. QED BY <3>1, <3>2, <3>3
  <2>3. QED BY <1>4, <2>1, <2>2
<1>8. TypeOK'
  BY <1>1, <1>5, <1>7 DEF TypeOK
<1>9. Fresh' /\ HeaderKnown' /\ Counting' /\ RecordSlot' /\ ResultSound' /\ StreamDiscipline'
  BY <1>1, <1>7
  DEF Fresh, HeaderKnown, Counting, RecordSlot, ResultSound, StreamDiscipline, InLoop, InBody
<1>10. Judged'
  <2>1. /\ ~ctx.saw_malformed =>
             /\ \A j \in 0 .. i - 1 : ~RecordMalformed(disk, Entry(disk, j))
             /\ name_range_safe(header, rec)
             /\ NamePrintable(disk, rec) => ~RecordMalformed(disk, rec)
        /\ ctx.saw_unsupported <=>
             \E j \in 0 .. (i + 1) - 1 : RecordUnsupported(Entry(disk, j))
    BY <1>1 DEF Judged, Checked, Examined, InLoop, InBody
  <2>2. \A j : j \in 0 .. (i + 1) - 1 <=> j \in 0 .. i - 1 \/ j = i
    BY <1>2
  <2>3. ~ctx'.saw_malformed =>
          \A j \in 0 .. (i + 1) - 1 : ~RecordMalformed(disk, Entry(disk, j))
    BY <1>2, <1>7, <2>1, <2>2
  <2>4. QED BY <1>1, <1>7, <2>1, <2>3 DEF Judged, Checked, Examined, InLoop, InBody
<1>11. QED BY <1>1, <1>8, <1>9, <1>10, StillRunning DEF ParseInvariant

\* The seek after a record puts the stream on the next one.
LEMMA ReseekStep ==
  ASSUME ParseInvariant, Reseek
  PROVE  ParseInvariant'
<1>1. /\ TypeOK /\ StreamDiscipline /\ HeaderKnown /\ Counting /\ Judged
      /\ pc = "reseek" /\ exit = NotExited
      /\ UNCHANGED <<args, disk, ctx, header, rec, exit, out, touched>>
  BY DEF ParseInvariant, Reseek, Fresh
<1>2. /\ header = disk.header /\ header.asset_table_offset \in Nat
      /\ i \in Nat /\ header.asset_count \in u32 /\ i < header.asset_count
      /\ BUN_ASSET_RECORD_SIZE \in Nat
  BY <1>1, WidthAssumption
  DEF TypeOK, HeaderKnown, Counting, InLoop, InBody, BunHeader, u32, u64
<1>3. CASE /\ NextRecord.ok /\ disturbed' = disturbed /\ i' = i + 1 /\ pc' = "record"
           /\ result' = result /\ stream' = [stream EXCEPT !.pos = NextRecord.out]
  <2>1. NextRecord.out = header.asset_table_offset + (i + 1) * BUN_ASSET_RECORD_SIZE
    <3> DEFINE n == (i + 1) * BUN_ASSET_RECORD_SIZE
               step == Saturating(n)
               next == Saturating(header.asset_table_offset + step.out)
    <3>1. n \in Nat
      BY <1>2
    <3>2. NextRecord = [ok |-> step.ok /\ next.ok /\ Seekable(next.out), out |-> next.out]
      BY DEF NextRecord, bun_u64_mul, bun_u64_add
    <3> HIDE DEF n
    <3>3. step.ok /\ step.out = n
      BY <1>3, <3>1, <3>2, SaturatingExact
    <3>4. header.asset_table_offset + step.out \in Nat
      BY <1>2, <3>1, <3>3
    <3>5. next.ok /\ next.out = header.asset_table_offset + step.out
      BY <1>3, <3>2, <3>4, SaturatingExact
    <3> HIDE DEF step, next
    <3>6. QED BY <3>2, <3>3, <3>5 DEF n
  <2>2. (i + 1) * BUN_ASSET_RECORD_SIZE \in Nat
    BY <1>2
  <2>3. i + 1 \in u32 /\ i + 1 <= header.asset_count
    BY <1>2, WidthAssumption DEF u32
  <2>4. NextRecord.out \in Nat
    BY <1>2, <2>1, <2>2
  <2>5. TypeOK'
    BY <1>1, <1>3, <2>3, <2>4 DEF TypeOK
  <2>6. RecordSlot'
    <3>1. stream'.pos = NextRecord.out
      BY <1>1, <1>3 DEF TypeOK
    <3>2. QED BY <1>1, <1>3, <2>1, <3>1 DEF RecordSlot
  <2>7. Fresh' /\ HeaderKnown' /\ Counting' /\ ResultSound' /\ StreamDiscipline'
    BY <1>1, <1>3, <2>3
    DEF TypeOK, Fresh, HeaderKnown, Counting, ResultSound, StreamDiscipline, InLoop, InBody
  <2>8. Judged'
    BY <1>1, <1>3 DEF Judged, Checked, Examined, InLoop, InBody
  <2>9. QED BY <1>1, <2>5, <2>6, <2>7, <2>8, StillRunning DEF ParseInvariant
<1>4. CASE /\ disturbed' \in BOOLEAN /\ pc' = "report" /\ result' = BUN_ERR_IO
           /\ UNCHANGED <<stream, i>>
  <2>1. BUN_ERR_IO \in bun_result_t
    BY CodesType DEF BUN_ERR_IO
  <2>2. TypeOK'
    BY <1>1, <1>4, <2>1 DEF TypeOK
  <2>3. Fresh' /\ ResultSound' /\ StreamDiscipline'
    BY <1>1, <1>4 DEF Fresh, ResultSound, StreamDiscipline, BUN_ERR_IO, BUN_OK, BUN_UNSUPPORTED
  <2>4. QED BY <1>1, <1>4, <2>2, <2>3, OutOfLoop, StillRunning DEF ParseInvariant
<1>5. disturbed \in BOOLEAN
  BY <1>1 DEF TypeOK
<1>6. QED BY <1>3, <1>4, <1>5 DEF Reseek, SeekTo, Goto, Return, NoFault, Fault

\* Reporting changes nothing that is known.
LEMMA ReportStep ==
  ASSUME ParseInvariant, Report
  PROVE  ParseInvariant'
<1>1. /\ TypeOK /\ StreamDiscipline /\ ResultSound
      /\ pc = "report" /\ pc' = "close" /\ exit = NotExited
      /\ UNCHANGED <<args, disk, stream, ctx, header, i, rec, result, exit, touched, disturbed>>
  BY DEF ParseInvariant, Report, Goto, NoFault, Fresh
<1>2. out' \in Output
  <2> DEFINE s == CASE result \in {BUN_MALFORMED, BUN_UNSUPPORTED} -> "errors"
                    [] result = BUN_ERR_IO -> "io failure"
                    [] result = BUN_ERR_INTERNAL -> "internal error"
                    [] OTHER -> out.stderr
  <2>1. out' = [out EXCEPT !.stderr = s]
    BY DEF Report
  <2>2. s \in {"errors", "io failure", "internal error", out.stderr}
    BY DEF BUN_MALFORMED, BUN_UNSUPPORTED, BUN_ERR_IO, BUN_ERR_INTERNAL
  <2>3. out \in Output
    BY <1>1 DEF TypeOK
  <2> HIDE DEF s
  <2>4. QED BY <2>1, <2>2, <2>3 DEF Output
<1>3. TypeOK'
  BY <1>1, <1>2 DEF TypeOK
<1>4. Fresh' /\ ResultSound' /\ StreamDiscipline'
  BY <1>1 DEF Fresh, ResultSound, StreamDiscipline
<1>5. QED BY <1>1, <1>3, <1>4, OutOfLoop, StillRunning DEF ParseInvariant

\* bun_close releases the stream and keeps a verdict on the file.
LEMMA BunCloseStep ==
  ASSUME ParseInvariant, BunClose
  PROVE  ParseInvariant'
<1>1. /\ TypeOK /\ StreamDiscipline /\ ResultSound
      /\ pc = "close" /\ pc' = "done"
      /\ exit' \in {result, BUN_ERR_IO}
      /\ stream' = [stream EXCEPT !.state = IF ctx.file = "open" THEN "closed" ELSE @]
      /\ ctx' = [ctx EXCEPT !.file = "null"]
      /\ UNCHANGED <<args, disk, header, i, rec, result, out, touched>>
  BY DEF ParseInvariant, BunClose, Goto
<1>2. disturbed' \in BOOLEAN
  BY <1>1 DEF BunClose, NoFault, Fault, TypeOK
<1>3. ctx' \in BunParseContext /\ ctx'.file = "null" /\ ctx'.errors = ctx.errors
  BY <1>1 DEF TypeOK, BunParseContext
<1>4. exit' \in bun_result_t
  BY <1>1, CodesType DEF TypeOK, BUN_ERR_IO
<1>5. /\ stream' \in [state : {"none", "open", "closed"}, pos : Nat]
      /\ stream'.state # "open"
  BY <1>1 DEF TypeOK, StreamDiscipline
<1>6. TypeOK'
  BY <1>1, <1>2, <1>3, <1>4, <1>5 DEF TypeOK
<1>7. Fresh' /\ ResultSound' /\ StreamDiscipline'
  BY <1>1, <1>3, <1>5 DEF Fresh, ResultSound, StreamDiscipline
<1>8. VerdictSound'
  BY <1>1 DEF VerdictSound, ResultSound, BUN_ERR_IO, BUN_OK, BUN_UNSUPPORTED
<1>9. QED BY <1>1, <1>6, <1>7, <1>8, OutOfLoop DEF ParseInvariant

\* A step that changes nothing keeps the invariant.
LEMMA StutterStep ==
  ASSUME ParseInvariant, UNCHANGED vars
  PROVE  ParseInvariant'
BY DEF vars, ParseInvariant, TypeOK, Fresh, HeaderKnown, Counting, RecordSlot, Judged,
       ResultSound, VerdictSound, StreamDiscipline, InLoop, InBody, Checked, Examined

-----------------------------------------------------------------------------
\* ParseInvariant is inductive: what is known of the file at each point of
\* bun_parse_header, bun_parse_assets and main carries to the next point.
THEOREM Inductive == Spec => []ParseInvariant
<1>1. ParseInvariant /\ [Next]_vars => ParseInvariant'
  <2> SUFFICES ASSUME ParseInvariant, [Next]_vars PROVE ParseInvariant'
    OBVIOUS
  <2>1. CASE Step
    BY <2>1, UsageStep, BunOpenStep, BunParseHeaderStep, SeekTableStep, ReadRecordStep,
       RecordUnreadableStep, PrintNameStep, PrintPayloadStep, ValidateRecordStep,
       ValidateNameStep, ReseekStep, AssetsDoneStep, ReportStep, BunCloseStep DEF Step
  <2>2. CASE Exited
    BY <2>2, StutterStep DEF Exited
  <2>3. CASE UNCHANGED vars
    BY <2>3, StutterStep
  <2>4. QED BY <2>1, <2>2, <2>3 DEF Next
<1>2. QED BY InitInvariant, <1>1, PTL DEF Spec

\* Every variable keeps its C type, the loop variable and the bounded error
\* list included.
THEOREM TypeCorrect == Spec => []TypeOK
BY Inductive, PTL DEF ParseInvariant

\* bun_parse_assets reads record i at its slot of the table, whatever the
\* printers and validators of the records before it did to the stream.
THEOREM RecordsInPlace == Spec => []RecordSlot
BY Inductive, PTL DEF ParseInvariant

\* main exits with BUN_OK or BUN_UNSUPPORTED only for a file of that class:
\* for files of any size, any set of failing stdio calls, any capacity of the
\* error list and any integer widths that satisfy the assumptions.
THEOREM AcceptsOnlyGood == Spec => []VerdictSound
BY Inductive, PTL DEF ParseInvariant

\* No exit leaves the stream open, and no stream call is made without one.
THEOREM NoLeak == Spec => []StreamDiscipline
BY Inductive, PTL DEF ParseInvariant

-----------------------------------------------------------------------------
(* How far the reads go.                                                    *)

\* The name check takes no more than the name, nor more than there is.
LEMMA NameConsumedBound ==
  ASSUME NEW f, NEW from \in Nat, NEW n \in Nat, NEW left \in Nat
  PROVE  /\ NameConsumed(f, from, n, left) \in Nat
         /\ NameConsumed(f, from, n, left) <= n /\ NameConsumed(f, from, n, left) <= left
<1> DEFINE bad == BadChars(f, from, n, left)
<1>1. bad \in SUBSET Nat /\ \A k \in bad : k < n /\ k < left
  BY DEF BadChars
<1>2. NameConsumed(f, from, n, left) =
        IF bad # {} THEN FirstOf(bad) + 1 ELSE IF left < n THEN left ELSE n
  BY DEF NameConsumed
<1> HIDE DEF bad
<1>3. CASE bad # {}
  <2>1. FirstOf(bad) \in bad /\ FirstOf(bad) \in Nat
    BY <1>1, <1>3, FirstOfMember
  <2>2. FirstOf(bad) < n /\ FirstOf(bad) < left
    BY <1>1, <2>1
  <2> DEFINE k == FirstOf(bad)
  <2> HIDE DEF k
  <2>3. NameConsumed(f, from, n, left) = k + 1 /\ k \in Nat /\ k < n /\ k < left
    BY <1>2, <1>3, <2>1, <2>2 DEF k
  <2>4. QED BY <2>3
<1>4. CASE bad = {}
  BY <1>2, <1>4
<1>5. QED BY <1>3, <1>4

\* Where the RLE check stops: at a pair of the chunks read, or for want of a
\* chunk, or after the last.
LEMMA RleStops ==
  ASSUME NEW f, NEW from \in Nat, NEW n \in Nat, NEW left \in Nat, NEW declared,
         NEW read \in Nat, read = WholeChunks(n, left)
  PROVE  LET v == RleVerdict(f, from, n, left, declared) IN
         \/ /\ v.what \in {"rle zero count", "rle expanded overflow"}
            /\ v.pos \in Nat /\ v.pos < read
         \/ v.what = "rle read failed" /\ read < n
         \/ v.what \in {"rle size", "ok"} /\ ~(read < n)
<1> DEFINE stops == StoppingPairs(f, from, read)
           v == RleVerdict(f, from, n, left, declared)
           first == FirstOf(stops)
<1>1. stops # {} => first \in Nat /\ 2 * first < read
  <2>1. stops \in SUBSET Nat /\ \A p \in stops : p \in 0 .. (read \div 2) - 1
    BY DEF StoppingPairs
  <2> HIDE DEF stops
  <2>2. stops # {} => FirstOf(stops) \in stops /\ FirstOf(stops) \in Nat
    BY <2>1, FirstOfMember
  <2>3. \A p \in 0 .. (read \div 2) - 1 : 2 * p < read
    OBVIOUS
  <2>4. QED BY <2>1, <2>2, <2>3
<1>2. v = IF stops # {}
            THEN IF ByteAt(f, from + 2 * first) = 0
                   THEN [what |-> "rle zero count", pos |-> 2 * first]
                   ELSE [what |-> "rle expanded overflow", pos |-> 2 * first]
          ELSE IF read < n THEN [what |-> "rle read failed", pos |-> read]
          ELSE IF Counts(f, from, n \div 2) # declared
                 THEN [what |-> "rle size", pos |-> n]
                 ELSE [what |-> "ok", pos |-> n]
  BY DEF RleVerdict
<1> HIDE DEF stops, first, v
<1>3. CASE stops # {}
  <2>1. /\ v.what \in {"rle zero count", "rle expanded overflow"} /\ v.pos = 2 * first
    <3>1. CASE ByteAt(f, from + 2 * first) = 0
      <4>1. v = [what |-> "rle zero count", pos |-> 2 * first]
        BY <1>2, <1>3, <3>1
      <4>2. QED BY <4>1
    <3>2. CASE ByteAt(f, from + 2 * first) # 0
      <4>1. v = [what |-> "rle expanded overflow", pos |-> 2 * first]
        BY <1>2, <1>3, <3>2
      <4>2. QED BY <4>1
    <3>3. QED BY <3>1, <3>2
  <2>2. v.pos = 2 * first /\ first \in Nat /\ 2 * first < read
    BY <1>1, <1>3, <2>1
  <2>3. v.pos \in Nat /\ v.pos < read
    BY <2>2
  <2>4. QED BY <2>1, <2>3 DEF v
<1>4. CASE stops = {} /\ read < n
  <2>1. v = [what |-> "rle read failed", pos |-> read]
    BY <1>2, <1>4
  <2>2. v.what = "rle read failed"
    BY <2>1
  <2>3. QED BY <1>4, <2>2 DEF v
<1>5. CASE stops = {} /\ ~(read < n)
  <2>1. v = IF Counts(f, from, n \div 2) # declared
              THEN [what |-> "rle size", pos |-> n] ELSE [what |-> "ok", pos |-> n]
    BY <1>2, <1>5
  <2>2. v.what \in {"rle size", "ok"}
    <3>1. CASE Counts(f, from, n \div 2) # declared
      BY <2>1, <3>1
    <3>2. CASE Counts(f, from, n \div 2) = declared
      BY <2>1, <3>2
    <3>3. QED BY <3>1, <3>2
  <2>3. QED BY <1>5, <2>2 DEF v
<1>6. QED BY <1>3, <1>4, <1>5

\* The chunk that holds a place below a multiple of the buffer's size ends at
\* that multiple or before.
LEMMA ChunkWithin ==
  ASSUME NEW c \in Nat, NEW p \in Nat, p < BUFFER_SIZE * c
  PROVE  /\ (p \div BUFFER_SIZE + 1) * BUFFER_SIZE \in Nat
         /\ (p \div BUFFER_SIZE + 1) * BUFFER_SIZE <= BUFFER_SIZE * c
<1> DEFINE q == p \div BUFFER_SIZE
<1>1. q \in Nat /\ BUFFER_SIZE * q <= p
  BY BufferAssumption
<1> HIDE DEF q
<1>2. BUFFER_SIZE * q < BUFFER_SIZE * c /\ BUFFER_SIZE \in Nat
  BY <1>1, BufferAssumption
<1>3. q < c
  <2>1. SUFFICES ASSUME c <= q PROVE FALSE
    BY <1>1
  <2>2. \A a, b, n \in Nat : a <= b => n * a <= n * b
    OBVIOUS
  <2>3. BUFFER_SIZE * c <= BUFFER_SIZE * q
    BY <1>1, <1>2, <2>1, <2>2
  <2>4. QED BY <1>1, <1>2, <2>3
<1>4. (q + 1) * BUFFER_SIZE \in Nat /\ (q + 1) * BUFFER_SIZE <= BUFFER_SIZE * c
  <2>1. \A a, b, n \in Nat : a <= b => n * a <= n * b
    OBVIOUS
  <2>2. BUFFER_SIZE * (q + 1) <= BUFFER_SIZE * c
    BY <1>1, <1>2, <1>3, <2>1
  <2>3. QED BY <1>1, <1>2, <2>2
<1>5. QED BY <1>4 DEF q

\* The RLE check takes no more than the payload, nor more than there is.
LEMMA RleConsumedBound ==
  ASSUME NEW f, NEW from \in Nat, NEW n \in Nat, NEW left \in Nat, NEW declared
  PROVE  /\ RleConsumed(f, from, n, left, declared) \in Nat
         /\ RleConsumed(f, from, n, left, declared) <= n
         /\ RleConsumed(f, from, n, left, declared) <= left
<1> DEFINE read == WholeChunks(n, left)
           v == RleVerdict(f, from, n, left, declared)
           end == (v.pos \div BUFFER_SIZE + 1) * BUFFER_SIZE
           used == RleConsumed(f, from, n, left, declared)
<1>1. used = CASE v.what \in {"rle zero count", "rle expanded overflow"} ->
                    IF end <= n THEN end ELSE n
               [] v.what = "rle read failed" -> left
               [] OTHER -> n
  BY DEF RleConsumed
<1>2. /\ read \in Nat
      /\ \/ n <= left /\ read = n
         \/ /\ left < n /\ read <= left
            /\ \E c \in Nat : read = BUFFER_SIZE * c
  <2>1. CASE n <= left
    BY <2>1 DEF WholeChunks
  <2>2. CASE ~(n <= left)
    <3>1. read = left - (left % BUFFER_SIZE)
      BY <2>2 DEF WholeChunks
    <3>2. /\ left = BUFFER_SIZE * (left \div BUFFER_SIZE) + (left % BUFFER_SIZE)
          /\ left \div BUFFER_SIZE \in Nat /\ left % BUFFER_SIZE \in Nat
          /\ BUFFER_SIZE \in Nat
      BY BufferAssumption
    <3> DEFINE c == left \div BUFFER_SIZE
               m == left % BUFFER_SIZE
    <3> HIDE DEF c, m
    <3>3. read = left - m /\ left = BUFFER_SIZE * c + m /\ c \in Nat /\ m \in Nat
      BY <3>1, <3>2 DEF c, m
    <3>4. BUFFER_SIZE * c \in Nat
      BY <3>2, <3>3
    <3>5. read = BUFFER_SIZE * c /\ read <= left /\ read \in Nat /\ left < n
      BY <2>2, <3>3, <3>4
    <3>6. QED BY <3>3, <3>5
  <2>3. QED BY <2>1, <2>2
<1>3. \/ /\ v.what \in {"rle zero count", "rle expanded overflow"}
         /\ v.pos \in Nat /\ v.pos < read
      \/ v.what = "rle read failed" /\ read < n
      \/ v.what \in {"rle size", "ok"} /\ ~(read < n)
  BY <1>2, RleStops, Zenon
<1>4. /\ v.pos \in Nat /\ v.pos < read /\ left < n => end \in Nat /\ end <= left
      /\ v.pos \in Nat => end \in Nat
  <2>1. v.pos \in Nat => end \in Nat
    BY BufferAssumption
  <2>2. ASSUME v.pos \in Nat, v.pos < read, left < n PROVE end \in Nat /\ end <= left
    <3>1. PICK c \in Nat : read = BUFFER_SIZE * c
      BY <1>2, <2>2
    <3> HIDE DEF v
    <3>2. end \in Nat /\ end <= read
      BY <2>2, <3>1, ChunkWithin
    <3> HIDE DEF end
    <3>3. QED BY <1>2, <2>2, <3>2
  <2>3. QED BY <2>1, <2>2
<1> HIDE DEF read, v, end, used
<1>5. CASE v.what \in {"rle zero count", "rle expanded overflow"}
  <2>1. used = (IF end <= n THEN end ELSE n) /\ v.pos \in Nat /\ v.pos < read
    BY <1>1, <1>3, <1>5
  <2>2. QED BY <1>2, <1>4, <2>1 DEF used
<1>6. CASE v.what = "rle read failed"
  <2>1. used = left
    BY <1>1, <1>6
  <2>2. read < n
    BY <1>3, <1>6
  <2>3. left < n
    BY <1>2, <2>2
  <2>4. QED BY <2>1, <2>3 DEF used
<1>7. CASE v.what \in {"rle size", "ok"}
  <2>1. used = n
    BY <1>1, <1>7
  <2>2. ~(read < n)
    BY <1>3, <1>7
  <2>3. n <= left
    BY <1>2, <2>2
  <2>4. QED BY <2>1, <2>3 DEF used
<1>8. QED BY <1>3, <1>5, <1>6, <1>7

-----------------------------------------------------------------------------
(* The abstract specification.                                              *)

\* The abstract specification classifies files by the same rules.
LEMMA SameClass == \A f : Promise!Classify(f) = Classify(f)
<1>1. /\ Promise!BUN_OK = BUN_OK /\ Promise!BUN_MALFORMED = BUN_MALFORMED
      /\ Promise!BUN_UNSUPPORTED = BUN_UNSUPPORTED
      /\ Promise!BUN_ALLOWED_FLAGS = BUN_ALLOWED_FLAGS
      /\ Promise!BUN_COMPRESSION_NONE = BUN_COMPRESSION_NONE
      /\ Promise!BUN_COMPRESSION_RLE = BUN_COMPRESSION_RLE
  BY DEF Promise!BUN_OK, BUN_OK, Promise!BUN_MALFORMED, BUN_MALFORMED,
     Promise!BUN_UNSUPPORTED, BUN_UNSUPPORTED, Promise!BUN_ALLOWED_FLAGS, BUN_ALLOWED_FLAGS,
     Promise!BUN_COMPRESSION_NONE, BUN_COMPRESSION_NONE, Promise!BUN_COMPRESSION_RLE,
     BUN_COMPRESSION_RLE
<1>2. \A f, p : Promise!ByteAt(f, p) = ByteAt(f, p)
  BY DEF Promise!ByteAt, ByteAt
<1>3. Promise!ZeroRecord = ZeroRecord
  BY DEF Promise!ZeroRecord, ZeroRecord
<1>4. \A f, p : Promise!RecordAt(f, p) = RecordAt(f, p)
  BY <1>3 DEF Promise!RecordAt, RecordAt
<1>5. \A f, k : Promise!Entry(f, k) = Entry(f, k)
  BY <1>4 DEF Promise!Entry, Entry
<1>6. \A f, from, k : Promise!Counts(f, from, k) = Counts(f, from, k)
  BY <1>2 DEF Promise!Counts, Counts
<1>7. \A h, r : /\ Promise!NameInside(h, r) <=> NameInside(h, r)
                /\ Promise!DataInside(h, r) <=> DataInside(h, r)
  BY DEF Promise!NameInside, NameInside, Promise!DataInside, DataInside
<1>8. \A f, r : Promise!NamePrintable(f, r) <=> NamePrintable(f, r)
  BY <1>2 DEF Promise!NamePrintable, NamePrintable
<1>9. \A f, r : Promise!RleWellFormed(f, r) <=> RleWellFormed(f, r)
  BY <1>2, <1>6 DEF Promise!RleWellFormed, RleWellFormed
<1>10. \A f, r : Promise!RecordMalformed(f, r) <=> RecordMalformed(f, r)
  BY <1>1, <1>7, <1>8, <1>9, Zenon DEF Promise!RecordMalformed, RecordMalformed
<1>11. \A r : Promise!RecordUnsupported(r) <=> RecordUnsupported(r)
  BY <1>1 DEF Promise!RecordUnsupported, RecordUnsupported
<1>12. \A f : Promise!HeaderUnsupported(f) <=> HeaderUnsupported(f)
  BY DEF Promise!HeaderUnsupported, HeaderUnsupported
<1>13. \A f : Promise!HeaderMalformed(f) <=> HeaderMalformed(f)
  <2>1. \A h : Promise!HeaderSections(h) = HeaderSections(h)
    BY DEF Promise!HeaderSections, HeaderSections
  <2>2. \A s, f : Promise!Inside(s, f) <=> Inside(s, f)
    BY DEF Promise!Inside, Inside
  <2>3. \A s, t : Promise!Collide(s, t) <=> Collide(s, t)
    BY DEF Promise!Collide, Collide, Promise!Positions, Positions
  <2>4. QED BY <2>1, <2>2, <2>3, Zenon DEF Promise!HeaderMalformed, HeaderMalformed
<1>14. QED BY <1>1, <1>5, <1>10, <1>11, <1>12, <1>13, Zenon DEF Promise!Classify, Classify

\* What a run may answer, said with this module's Classify.
LEMMA AllowedIs ==
  ASSUME NEW f, NEW bad \in BOOLEAN
  PROVE  \A r : r \in Promise!Allowed(f, bad) <=>
                  r = Classify(f) \/ (bad /\ r \in {BUN_ERR_IO, BUN_MALFORMED})
<1>1. Promise!BUN_ERR_IO = BUN_ERR_IO /\ Promise!BUN_MALFORMED = BUN_MALFORMED
  BY DEF Promise!BUN_ERR_IO, BUN_ERR_IO, Promise!BUN_MALFORMED, BUN_MALFORMED
<1>2. Promise!Classify(f) = Classify(f)
  BY SameClass
<1>3. QED BY <1>1, <1>2 DEF Promise!Allowed

-----------------------------------------------------------------------------
(* Every action keeps ExactInvariant. ParseInvariant is known before and     *)
(* after.                                                                   *)

\* A step that goes on answers nothing.
LEMMA GoesOn ==
  ASSUME pc' \notin {"report", "close"}, exit' = NotExited
  PROVE  Answered' /\ AcceptedShown' /\ VerdictExact'
BY DEF Answered, AcceptedShown, VerdictExact, NotExited, BUN_OK

\* Outside the loop there is nothing to blame a record for.
LEMMA NothingBlamed ==
  ASSUME pc' \in {"header", "table", "report", "close", "done"}
  PROVE  Blamed'
BY DEF Blamed, InLoop, InBody

\* A step that reads nothing leaves the last read in its section.
LEMMA ReadsNothing ==
  ASSUME ReadsContained, UNCHANGED <<touched, disk, header, rec>>
  PROVE  ReadsContained'
BY DEF ReadsContained, Within

\* main without a path: nothing has been shown, and the verdict is not one on
\* a file.
LEMMA UsageExact ==
  ASSUME ParseInvariant, ExactInvariant, Usage
  PROVE  ExactInvariant'
<1>1. /\ pc = "start" /\ args # 2 /\ pc' = "done" /\ exit' = BUN_ERR_USAGE
      /\ out' = [out EXCEPT !.stderr = "usage"]
      /\ UNCHANGED <<args, disk, stream, ctx, header, i, rec, result, touched, disturbed>>
  BY DEF Usage, Goto
<1>2. /\ TypeOK /\ Showing /\ ReadsContained /\ ShownInOrder
  BY DEF ParseInvariant, ExactInvariant
<1>3. out'.records = out.records /\ out'.header = out.header /\ out'.gaps = out.gaps
  BY <1>1, <1>2 DEF TypeOK, Output
<1>4. Showing' /\ Answered' /\ AcceptedShown' /\ VerdictExact'
  BY <1>1 DEF Showing, InLoop, InBody, Answered, AcceptedShown, VerdictExact,
              BUN_ERR_USAGE, BUN_OK
<1>5. ShownInOrder'
  BY <1>1, <1>2, <1>3 DEF ShownInOrder
<1>6. QED BY <1>1, <1>2, <1>4, <1>5, NothingBlamed, ReadsNothing DEF ExactInvariant

\* bun_open: a failed one is the work of a failed call.
LEMMA BunOpenExact ==
  ASSUME ParseInvariant, ExactInvariant, BunOpen
  PROVE  ExactInvariant'
<1>1. /\ pc = "start" /\ args = 2 /\ exit = NotExited
      /\ UNCHANGED <<args, disk, header, i, rec, result, touched>>
  BY DEF BunOpen, ParseInvariant, Fresh
<1>2. TypeOK /\ Showing /\ ReadsContained /\ ShownInOrder
  BY DEF ParseInvariant, ExactInvariant
<1>3. CASE Opened
  <2>1. pc' = "header" /\ exit' = NotExited /\ out' = out
    BY <1>1, <1>3 DEF Opened, Goto
  <2>2. Showing' /\ ShownInOrder'
    BY <1>1, <1>2, <2>1 DEF Showing, InLoop, InBody, ShownInOrder
  <2>3. QED BY <1>1, <1>2, <2>1, <2>2, GoesOn, NothingBlamed, ReadsNothing
            DEF ExactInvariant
<1>4. CASE NotOpened
  <2>1. /\ pc' = "done" /\ exit' = BUN_ERR_IO /\ disturbed' = TRUE
        /\ out' = [out EXCEPT !.stderr = "open"]
    BY <1>4 DEF NotOpened, Goto, Fault
  <2>2. out'.records = out.records /\ out'.header = out.header
    BY <1>2, <2>1 DEF TypeOK, Output
  <2>3. ShownInOrder'
    BY <1>1, <1>2, <2>1, <2>2 DEF ShownInOrder
  <2>4. Showing' /\ Answered' /\ AcceptedShown' /\ VerdictExact'
    BY <2>1 DEF Showing, InLoop, InBody, Answered, AcceptedShown, VerdictExact,
                BUN_ERR_IO, BUN_OK
  <2>5. QED BY <1>1, <1>2, <2>1, <2>3, <2>4, NothingBlamed, ReadsNothing
            DEF ExactInvariant
<1>5. QED BY <1>3, <1>4 DEF BunOpen

\* bun_parse_header answers with the file's class, or with a failed call.
LEMMA BunParseHeaderExact ==
  ASSUME ParseInvariant, ParseInvariant', ExactInvariant, BunParseHeader
  PROVE  ExactInvariant'
<1> DEFINE es == validate_header_basic(disk.header)
                   \o validate_header_offsets(disk.header, disk.size)
<1>1. /\ pc = "header" /\ exit = NotExited /\ args = 2
      /\ pc' = (IF result' = BUN_OK THEN "table" ELSE "report")
      /\ out' = [out EXCEPT !.header = ctx'.header_loaded]
      /\ UNCHANGED <<args, disk, i, rec, exit>>
      /\ ctx.file_size = disk.size /\ ~ctx.saw_malformed /\ ~ctx.saw_unsupported
  BY DEF ParseInvariant, Fresh, ExactInvariant, BunParseHeader, Goto
<1>2. TypeOK /\ TypeOK' /\ Showing /\ ShownInOrder
  BY DEF ParseInvariant, ExactInvariant
<1>3. /\ IsFile(disk) /\ disk.header \in BunHeader /\ disk.size \in offset_t
      /\ ctx \in BunParseContext /\ header' \in BunHeader /\ out \in Output
      /\ disturbed \in BOOLEAN /\ disturbed' \in BOOLEAN
  BY <1>2 DEF TypeOK, IsFile
<1>4. disk.size \in Nat /\ BUN_HEADER_SIZE \in Nat /\ BUN_HEADER_SIZE > 0
  BY <1>3, WidthAssumption DEF offset_t
<1>5. /\ touched.len = 0 /\ out.records = 0 /\ ~out.gaps /\ out.stderr = "none"
  BY <1>1, <1>2 DEF Showing
<1>6. /\ out'.records = 0 /\ ~out'.gaps /\ out'.stderr = "none"
      /\ out'.header = ctx'.header_loaded
  BY <1>1, <1>3, <1>5 DEF Output
<1>7. ShownInOrder'
  <2>1. header'.asset_count \in Nat
    BY <1>3, WidthAssumption DEF BunHeader, u32
  <2>2. out'.records <= header'.asset_count /\ ~(out'.records > 0)
    BY <1>6, <2>1
  <2>3. pc' \notin {"name", "payload", "validate", "chars", "reseek"}
    BY <1>1
  <2>4. QED BY <2>2, <2>3 DEF ShownInOrder
<1>8. ASSUME pc' = "table" => ctx'.header_loaded PROVE Showing'
  BY <1>1, <1>6, <1>8 DEF Showing, InLoop, InBody
<1>9. AcceptedShown' /\ VerdictExact'
  BY <1>1 DEF AcceptedShown, VerdictExact, NotExited, BUN_OK
<1>10. Blamed'
  BY <1>1, NothingBlamed
\* It remains to see what was read, what the result is and whether the header
\* was loaded.
<1>11. SUFFICES /\ ReadsContained'
                /\ pc' = "table" => ctx'.header_loaded
                /\ pc' = "report" => result' \in Promise!Allowed(disk, disturbed')
  <2>1. ASSUME pc' = "report" => result' \in Promise!Allowed(disk, disturbed')
        PROVE  Answered'
    BY <1>1, <2>1 DEF Answered
  <2>2. QED BY <1>1, <1>7, <1>8, <1>9, <1>10, <2>1 DEF ExactInvariant
<1>12. CASE TooSmall
  <2>1. /\ disk.size < BUN_HEADER_SIZE /\ touched' = touched
        /\ ctx' = add_error(ctx, Check(TRUE, BUN_MALFORMED, "file too small", <<>>))
        /\ result' = bun_context_result(ctx')
    BY <1>1, <1>12 DEF TooSmall
  <2>2. ctx'.saw_malformed
    <3> DEFINE e1 == Check(TRUE, BUN_MALFORMED, "file too small", <<>>)
    <3>1. e1 \in Seq(Error)
      BY CheckType, PlaceType DEF Complaint
    <3>2. Has(e1, BUN_MALFORMED)
      BY HasCheck, Zenon
    <3>3. ctx' = add_error(ctx, e1)
      BY <2>1
    <3> HIDE DEF e1
    <3>4. QED BY <1>3, <3>1, <3>2, <3>3, AddErrorContext
  <2>3. result' = BUN_MALFORMED /\ pc' = "report"
    <3>1. result' = BUN_MALFORMED
      BY <2>1, <2>2 DEF bun_context_result
    <3>2. QED BY <1>1, <3>1 DEF BUN_MALFORMED, BUN_OK
  <2>4. Classify(disk) = BUN_MALFORMED
    BY <2>1 DEF Classify, HeaderMalformed
  <2>5. ReadsContained'
    <3>1. touched'.len = 0
      BY <1>5, <2>1
    <3>2. QED BY <3>1 DEF ReadsContained
  <2>6. result' \in Promise!Allowed(disk, disturbed')
    BY <1>3, <2>3, <2>4, AllowedIs
  <2>7. QED BY <2>3, <2>5, <2>6
<1>13. CASE HeaderUnreadable
  <2>1. /\ disk.size >= BUN_HEADER_SIZE /\ touched' = touched /\ result' = BUN_ERR_IO
    BY <1>1, <1>13 DEF HeaderUnreadable
  <2>2. disturbed' = TRUE
    <3>1. ~(Available(disk, 0) < BUN_HEADER_SIZE)
      BY <1>4, <2>1 DEF Available
    <3>2. QED BY <1>13, <3>1 DEF HeaderUnreadable, Fault, ShortRead
  <2>3. ReadsContained'
    BY <1>5, <2>1 DEF ReadsContained
  <2>4. pc' = "report"
    BY <1>1, <2>1 DEF BUN_ERR_IO, BUN_OK
  <2>5. result' \in Promise!Allowed(disk, disturbed')
    BY <2>1, <2>2, AllowedIs
  <2>6. QED BY <2>3, <2>4, <2>5
<1>14. CASE HeaderRead
  <2> DEFINE loaded == [ctx EXCEPT !.header_loaded = TRUE]
  <2>1. disk.size >= BUN_HEADER_SIZE
    BY <1>1, <1>14 DEF HeaderRead
  <2>2. /\ es \in Seq(Error)
        /\ Has(es, BUN_MALFORMED) <=> HeaderMalformed(disk)
        /\ Has(es, BUN_UNSUPPORTED) <=> HeaderUnsupported(disk)
    BY <1>3, <2>1, HeaderExact
  <2>3. /\ header' = disk.header /\ ctx' = add_error(loaded, es)
        /\ result' = bun_context_result(ctx')
        /\ touched' = [use |-> "header", from |-> 0, len |-> BUN_HEADER_SIZE]
    BY <1>1, <1>14 DEF HeaderRead, ReadAt
  <2>4. /\ loaded \in BunParseContext /\ loaded.header_loaded
        /\ ~loaded.saw_malformed /\ ~loaded.saw_unsupported
    BY <1>1, <1>3 DEF BunParseContext
  <2> HIDE DEF es, loaded
  <2>5. /\ ctx'.header_loaded
        /\ ctx'.saw_malformed <=> HeaderMalformed(disk)
        /\ ctx'.saw_unsupported <=> HeaderUnsupported(disk)
    BY <2>2, <2>3, <2>4, AddErrorContext
  <2>6. pc' = "report" => result' = Classify(disk)
    BY <1>1, <2>3, <2>5 DEF bun_context_result, Classify
  <2>7. pc' = "report" => result' \in Promise!Allowed(disk, disturbed')
    BY <1>3, <2>6, AllowedIs
  <2>8. ReadsContained'
    <3>1. /\ touched'.use = "header" /\ touched'.from = 0
          /\ touched'.len = BUN_HEADER_SIZE
      BY <2>3
    <3>2. 0 <= touched'.from /\ touched'.from + touched'.len <= 0 + disk'.size
      BY <1>1, <1>4, <2>1, <3>1
    <3>3. QED BY <3>1, <3>2 DEF ReadsContained, Within
  <2>9. QED BY <2>5, <2>7, <2>8
<1>15. QED BY <1>12, <1>13, <1>14 DEF BunParseHeader

\* What is known in the loop, and on the way to it.
LEMMA InTheLoop ==
  ASSUME ParseInvariant, ExactInvariant, pc = "table" \/ InLoop
  PROVE  /\ IsFile(disk) /\ header = disk.header /\ header \in BunHeader
         /\ ~HeaderMalformed(disk) /\ ~HeaderUnsupported(disk)
         /\ args = 2 /\ exit = NotExited /\ out \in Output
         /\ out.header /\ out.stderr = "none"
         /\ i \in Nat /\ header.asset_count \in Nat /\ rec \in BunAssetRecord
         /\ disturbed \in BOOLEAN /\ disk.size \in Nat
<1>1. TypeOK /\ Fresh /\ HeaderKnown /\ Showing
  BY DEF ParseInvariant, ExactInvariant
<1>2. pc \notin {"start", "close", "done"}
  BY DEF InLoop, InBody
<1>3. /\ IsFile(disk) /\ header \in BunHeader /\ out \in Output /\ i \in u32
      /\ rec \in BunAssetRecord /\ disturbed \in BOOLEAN
  BY <1>1 DEF TypeOK
<1>4. i \in Nat /\ header.asset_count \in Nat /\ disk.size \in Nat
  BY <1>3, WidthAssumption DEF u32, BunHeader, IsFile, offset_t
<1>5. args = 2 /\ exit = NotExited
  BY <1>1, <1>2 DEF ExactInvariant, Fresh
<1>6. out.header /\ out.stderr = "none"
  BY <1>1, <1>2 DEF Showing
<1>7. header = disk.header /\ ~HeaderMalformed(disk) /\ ~HeaderUnsupported(disk)
  BY <1>1 DEF HeaderKnown
<1>8. QED BY <1>3, <1>4, <1>5, <1>6, <1>7

\* bun_parse_assets returns: what is shown stays as it is, and the result must
\* be one the program may give.
LEMMA Returns ==
  ASSUME ParseInvariant, ExactInvariant, pc = "table" \/ InLoop, pc' = "report",
         UNCHANGED <<args, disk, header, rec, exit, out, touched>>,
         result' \in Promise!Allowed(disk, disturbed'),
         result' = BUN_OK => out.records = disk.header.asset_count
                             /\ (out.gaps => disturbed')
  PROVE  ExactInvariant'
<1>1. args = 2 /\ exit = NotExited /\ out.header /\ out.stderr = "none"
  BY InTheLoop
<1>2. ReadsContained /\ ShownInOrder
  BY DEF ExactInvariant
<1>3. Showing'
  BY <1>1 DEF Showing, InLoop, InBody
<1>4. Answered'
  BY <1>1 DEF Answered
<1>5. ShownInOrder'
  BY <1>2 DEF ShownInOrder
<1>6. AcceptedShown' /\ VerdictExact'
  BY <1>1 DEF AcceptedShown, VerdictExact, NotExited, BUN_OK
<1>7. QED BY <1>1, <1>2, <1>3, <1>4, <1>5, <1>6, NothingBlamed, ReadsNothing
          DEF ExactInvariant

\* The seek to the table of a good header fails only by a failed call.
LEMMA SeekTableExact ==
  ASSUME ParseInvariant, ExactInvariant, SeekTable
  PROVE  ExactInvariant'
<1>1. /\ pc = "table" /\ i' = 0
      /\ UNCHANGED <<args, disk, ctx, header, rec, exit, out, touched>>
  BY DEF SeekTable
<1>2. /\ IsFile(disk) /\ header = disk.header /\ header \in BunHeader
      /\ ~HeaderMalformed(disk) /\ args = 2 /\ exit = NotExited
      /\ out.header /\ out.stderr = "none" /\ header.asset_count \in Nat
      /\ disturbed \in BOOLEAN
  BY <1>1, InTheLoop
<1>3. Showing /\ ReadsContained /\ HeaderKnown
  BY DEF ParseInvariant, ExactInvariant
<1>4. out.records = 0 /\ ~out.gaps /\ ~ctx.saw_malformed
  BY <1>1, <1>3 DEF Showing, HeaderKnown
<1>5. CASE pc' = "record" /\ disturbed' = disturbed
  <2>1. Showing' /\ Blamed'
    BY <1>1, <1>2, <1>4, <1>5 DEF Showing, Blamed, InLoop, InBody
  <2>2. out'.records <= header'.asset_count /\ ~(out'.records > 0)
    BY <1>1, <1>2, <1>4
  <2>3. ShownInOrder'
    BY <1>5, <2>2 DEF ShownInOrder
  <2>4. QED BY <1>1, <1>2, <1>3, <1>5, <2>1, <2>3, GoesOn, ReadsNothing DEF ExactInvariant
<1>6. CASE pc' = "report" /\ result' = BUN_ERR_IO /\ disturbed' = TRUE
  <2>1. result' \in Promise!Allowed(disk, disturbed')
    BY <1>6, AllowedIs
  <2>2. QED BY <1>1, <1>6, <2>1, Returns DEF BUN_ERR_IO, BUN_OK
<1>7. Seekable(header.asset_table_offset)
  <2> DEFINE t == header.asset_table_offset
             l == header.asset_count * BUN_ASSET_RECORD_SIZE
  <2>1. t + l <= disk.size /\ disk.size \in Nat /\ disk.size <= LONG_MAX
    BY <1>2, GoodSections
  <2>2. t \in Nat /\ l \in Nat /\ LONG_MAX \in Nat
    BY <1>2, FieldTypes, WidthAssumption DEF BunHeader, u64
  <2> HIDE DEF l
  <2>3. t <= LONG_MAX
    BY <2>1, <2>2
  <2>4. QED BY <2>3 DEF Seekable
<1>8. QED BY <1>5, <1>6, <1>7 DEF SeekTable, Goto, Return, NoFault, Fault

\* The record read is shown, and lies in the table.
LEMMA ReadRecordExact ==
  ASSUME ParseInvariant, ParseInvariant', ExactInvariant, ReadRecord
  PROVE  ExactInvariant'
<1>1. /\ pc = "record" /\ pc' = "name" /\ i < header.asset_count
      /\ touched' = [use |-> "record", from |-> stream.pos, len |-> BUN_ASSET_RECORD_SIZE]
      /\ out' = [out EXCEPT !.records = AtMost(out.records + 1, UINT32_MAX)]
      /\ UNCHANGED <<args, disk, ctx, header, i, result, exit, disturbed>>
  BY DEF ReadRecord, ReadAt, SeekTo, Goto, NoFault
<1>2. /\ IsFile(disk) /\ header = disk.header /\ header \in BunHeader
      /\ ~HeaderMalformed(disk) /\ ~HeaderUnsupported(disk)
      /\ args = 2 /\ exit = NotExited /\ out \in Output
      /\ out.header /\ out.stderr = "none" /\ i \in Nat /\ header.asset_count \in Nat
      /\ disturbed \in BOOLEAN /\ disk.size \in Nat
  BY <1>1, InTheLoop DEF InLoop
<1>3. Showing /\ Blamed /\ RecordSlot /\ Counting'
  BY DEF ParseInvariant, ExactInvariant
<1>4. out.records = i /\ stream.pos = header.asset_table_offset + i * BUN_ASSET_RECORD_SIZE
  BY <1>1, <1>3 DEF Showing, RecordSlot
<1>5. /\ out'.records = i + 1 /\ out'.header = out.header /\ out'.gaps = out.gaps
      /\ out'.stderr = out.stderr
  <2>1. AtMost(out.records + 1, UINT32_MAX) = i + 1
    <3>1. header.asset_count <= UINT32_MAX /\ UINT32_MAX \in Nat
      BY <1>2, WidthAssumption DEF BunHeader, u32
    <3>2. i + 1 <= UINT32_MAX
      BY <1>1, <1>2, <3>1
    <3>3. QED BY <1>2, <1>4, <3>1, <3>2 DEF AtMost
  <2>2. QED BY <1>1, <1>2, <2>1 DEF Output
<1>6. rec' = Entry(disk, i)
  BY <1>1, <1>3 DEF Counting, InBody
<1>7. Showing'
  <2>1. ASSUME out.gaps, ~disturbed
        PROVE  \E j \in 0 .. (i + 1) - 1 : RecordMalformed(disk, Entry(disk, j))
    <3>1. PICK j \in 0 .. i - 1 : RecordMalformed(disk, Entry(disk, j))
      BY <1>1, <1>3, <1>4, <2>1 DEF Showing, InLoop
    <3>2. j \in 0 .. (i + 1) - 1
      BY <1>2
    <3>3. QED BY <3>1, <3>2
  <2>2. QED BY <1>1, <1>2, <1>5, <2>1 DEF Showing, InLoop, InBody
<1>8. Blamed'
  BY <1>1, <1>3 DEF Blamed, Examined, InLoop, InBody
<1>9. ReadsContained'
  <2>1. /\ header.asset_table_offset <= stream.pos
        /\ stream.pos + BUN_ASSET_RECORD_SIZE
             <= header.asset_table_offset + header.asset_count * BUN_ASSET_RECORD_SIZE
        /\ stream.pos + BUN_ASSET_RECORD_SIZE <= disk.size /\ stream.pos \in Nat
    BY <1>1, <1>2, <1>4, SlotInTable
  <2>2. 0 <= stream.pos /\ stream.pos + BUN_ASSET_RECORD_SIZE <= 0 + disk.size
    BY <1>2, <2>1, WidthAssumption
  <2>3. /\ touched'.use = "record" /\ touched'.from = stream.pos
        /\ touched'.len = BUN_ASSET_RECORD_SIZE
    BY <1>1
  <2>4. QED BY <1>1, <2>1, <2>2, <2>3 DEF ReadsContained, Within
<1>10. ShownInOrder'
  <2>1. i + 1 <= header.asset_count
    BY <1>1, <1>2
  <2>2. QED BY <1>1, <1>2, <1>5, <1>6, <2>1 DEF ShownInOrder
<1>11. QED BY <1>1, <1>2, <1>7, <1>8, <1>9, <1>10, GoesOn DEF ExactInvariant

\* A record of a good table is unreadable only by a failed call.
LEMMA UnreadableIsFault ==
  ASSUME ParseInvariant, ExactInvariant, RecordUnreadable
  PROVE  disturbed' = TRUE
<1>1. pc = "record" /\ i < header.asset_count
  BY DEF RecordUnreadable
<1>2. /\ IsFile(disk) /\ header = disk.header /\ ~HeaderMalformed(disk)
      /\ i \in Nat /\ disk.size \in Nat
  BY <1>1, InTheLoop DEF InLoop
<1>3. stream.pos = header.asset_table_offset + i * BUN_ASSET_RECORD_SIZE
  BY <1>1 DEF ParseInvariant, RecordSlot
<1>4. stream.pos + BUN_ASSET_RECORD_SIZE <= disk.size /\ stream.pos \in Nat
  BY <1>1, <1>2, <1>3, SlotInTable
<1>5. ~(Available(disk, stream.pos) < BUN_ASSET_RECORD_SIZE)
  BY <1>2, <1>4, WidthAssumption DEF Available
<1>6. QED BY <1>5 DEF RecordUnreadable, ShortRead, Fault

\* A record that cannot be read is the fault of a failed call: its slot lies in
\* the file.
LEMMA RecordUnreadableExact ==
  ASSUME ParseInvariant, ExactInvariant, RecordUnreadable
  PROVE  ExactInvariant'
<1> DEFINE es == Check(TRUE, BUN_MALFORMED, "record unreadable", <<i>>)
<1>1. /\ pc = "record" /\ pc' = "report" /\ i < header.asset_count
      /\ ctx' = add_error(ctx, es) /\ result' = bun_context_result(ctx')
      /\ UNCHANGED <<args, disk, stream, header, i, rec, exit, out, touched>>
  BY DEF RecordUnreadable, Return, Goto
<1>2. /\ IsFile(disk) /\ header = disk.header /\ ~HeaderMalformed(disk)
      /\ i \in Nat /\ disk.size \in Nat /\ ctx \in BunParseContext
  BY <1>1, InTheLoop DEF InLoop, ParseInvariant, TypeOK
<1>3. disturbed' = TRUE
  BY UnreadableIsFault
<1>4. ctx'.saw_malformed
  <2>1. <<i>> \in Seq(Nat)
    BY <1>2
  <2>2. es \in Seq(Error)
    BY <2>1, CheckType DEF Complaint
  <2>3. Has(es, BUN_MALFORMED)
    BY HasCheck, Zenon
  <2> HIDE DEF es
  <2>4. QED BY <1>1, <1>2, <2>2, <2>3, AddErrorContext
<1>5. result' = BUN_MALFORMED
  BY <1>1, <1>4 DEF bun_context_result
<1>6. result' \in Promise!Allowed(disk, disturbed')
  BY <1>3, <1>5, AllowedIs
<1>7. result' # BUN_OK
  BY <1>5 DEF BUN_OK, BUN_MALFORMED
<1> HIDE DEF es
<1>8. InLoop
  BY <1>1 DEF InLoop
<1>9. QED BY <1>1, <1>6, <1>7, <1>8, Returns

\* The end of the loop answers with the file's class, unless a call failed.
LEMMA AssetsDoneExact ==
  ASSUME ParseInvariant, ParseInvariant', ExactInvariant, AssetsDone
  PROVE  ExactInvariant'
<1>1. /\ pc = "record" /\ pc' = "report" /\ i >= header.asset_count
      /\ result' = bun_context_result(ctx)
      /\ UNCHANGED <<args, disk, stream, ctx, header, i, rec, exit, out, touched, disturbed>>
  BY DEF AssetsDone, Return, Goto, NoFault
<1>2. /\ header = disk.header /\ ~HeaderMalformed(disk) /\ ~HeaderUnsupported(disk)
      /\ i \in Nat /\ header.asset_count \in Nat /\ disturbed \in BOOLEAN
  BY <1>1, InTheLoop DEF InLoop
<1>3. /\ Showing /\ Blamed /\ Counting /\ ResultSound'
  BY DEF ParseInvariant, ExactInvariant
<1>4. i = disk.header.asset_count /\ out.records = i
  <2>1. i <= header.asset_count /\ out.records = i
    BY <1>1, <1>3 DEF Counting, Showing
  <2>2. QED BY <1>1, <1>2, <2>1
<1>5. ASSUME NEW j \in 0 .. i - 1, RecordMalformed(disk, Entry(disk, j))
      PROVE  Classify(disk) = BUN_MALFORMED
  BY <1>2, <1>4, <1>5 DEF Classify
<1>6. result' \in {BUN_OK, BUN_UNSUPPORTED} => result' = Classify(disk)
  BY <1>1, <1>3 DEF ResultSound
<1>7. ~disturbed => result' = Classify(disk)
  <2>1. CASE ctx.saw_malformed
    <3>1. result' = BUN_MALFORMED
      BY <1>1, <2>1 DEF bun_context_result
    <3>2. ~disturbed => \E j \in 0 .. i - 1 : RecordMalformed(disk, Entry(disk, j))
      BY <1>1, <1>3, <2>1 DEF Blamed, Examined, InLoop
    <3>3. QED BY <1>5, <3>1, <3>2
  <2>2. CASE ~ctx.saw_malformed
    BY <1>1, <1>6, <2>2 DEF bun_context_result
  <2>3. QED BY <2>1, <2>2
<1>8. result' \in Promise!Allowed(disk, disturbed')
  <2>1. result' \in {BUN_OK, BUN_UNSUPPORTED, BUN_MALFORMED}
    BY <1>1 DEF bun_context_result
  <2>2. result' = Classify(disk) \/ (disturbed /\ result' \in {BUN_ERR_IO, BUN_MALFORMED})
    BY <1>2, <1>6, <1>7, <2>1
  <2>3. disturbed' = disturbed
    BY <1>1
  <2>4. QED BY <1>2, <2>2, <2>3, AllowedIs
<1>9. ASSUME result' = BUN_OK, out.gaps PROVE disturbed'
  <2>1. SUFFICES ASSUME ~disturbed PROVE FALSE
    BY <1>1, <1>2
  <2>2. \E j \in 0 .. i - 1 : RecordMalformed(disk, Entry(disk, j))
    BY <1>1, <1>3, <1>4, <1>9, <2>1 DEF Showing, InLoop
  <2>3. Classify(disk) = BUN_MALFORMED
    BY <1>5, <2>2
  <2>4. QED BY <1>6, <1>9, <2>3 DEF BUN_OK, BUN_MALFORMED
<1>10. QED BY <1>1, <1>4, <1>8, <1>9, Returns DEF InLoop

\* The seek to the next slot fails only by a failed call: the slot ends with
\* the file or before.
LEMMA ReseekExact ==
  ASSUME ParseInvariant, ExactInvariant, Reseek
  PROVE  ExactInvariant'
<1>1. /\ pc = "reseek"
      /\ UNCHANGED <<args, disk, ctx, header, rec, exit, out, touched>>
  BY DEF Reseek
<1>2. /\ IsFile(disk) /\ header = disk.header /\ ~HeaderMalformed(disk)
      /\ args = 2 /\ exit = NotExited /\ out.header /\ out.stderr = "none"
      /\ i \in Nat /\ disturbed \in BOOLEAN /\ disk.size \in Nat
  BY <1>1, InTheLoop DEF InLoop, InBody
<1>3. Showing /\ Blamed /\ ReadsContained /\ ShownInOrder /\ Counting
  BY DEF ParseInvariant, ExactInvariant
<1>4. i < header.asset_count /\ out.records = i + 1
  BY <1>1, <1>3 DEF Counting, InBody, ShownInOrder
<1>5. NextRecord.ok
  <2> DEFINE n == (i + 1) * BUN_ASSET_RECORD_SIZE
             t == header.asset_table_offset
  <2>1. t \in Nat /\ n \in Nat /\ t + n <= disk.size
    BY <1>2, <1>4, SlotInTable
  <2>2. disk.size <= LONG_MAX
    BY <1>2, GoodSections
  <2> HIDE DEF n, t
  <2>3. t + n \in Nat /\ t + n <= LONG_MAX /\ n <= LONG_MAX
    BY <1>2, <2>1, <2>2, WidthAssumption
  <2>4. /\ Saturating(n).ok /\ Saturating(n).out = n
        /\ Saturating(t + n).ok /\ Seekable(Saturating(t + n).out)
    BY <2>1, <2>3, Reachable
  <2>5. NextRecord = [ok |-> /\ Saturating(n).ok
                             /\ Saturating(t + Saturating(n).out).ok
                             /\ Seekable(Saturating(t + Saturating(n).out).out),
                      out |-> Saturating(t + Saturating(n).out).out]
    BY DEF NextRecord, bun_u64_mul, bun_u64_add, n, t
  <2>6. QED BY <2>4, <2>5
<1>6. CASE pc' = "record" /\ i' = i + 1 /\ disturbed' = disturbed
  <2>1. Showing'
    BY <1>1, <1>2, <1>3, <1>4, <1>6 DEF Showing, InLoop, InBody
  <2>2. Blamed'
    BY <1>1, <1>3, <1>6 DEF Blamed, Examined, InLoop, InBody
  <2>3. ShownInOrder'
    BY <1>1, <1>3, <1>6 DEF ShownInOrder
  <2>4. QED BY <1>1, <1>2, <1>3, <1>6, <2>1, <2>2, <2>3, GoesOn, ReadsNothing
            DEF ExactInvariant
<1>7. CASE pc' = "report" /\ result' = BUN_ERR_IO /\ disturbed' = TRUE
  <2>1. result' \in Promise!Allowed(disk, disturbed')
    BY <1>7, AllowedIs
  <2>2. QED BY <1>1, <1>7, <2>1, Returns DEF InLoop, InBody, BUN_ERR_IO, BUN_OK
<1>8. QED BY <1>5, <1>6, <1>7 DEF Reseek, Goto, Return, NoFault, Fault

\* A step within the body of the loop: what is shown of the record keeps its
\* place, and a new gap is the fault of a record shown.
LEMMA BodyStep ==
  ASSUME ParseInvariant, ExactInvariant, InBody,
         pc' \in {"payload", "validate", "chars", "reseek"},
         UNCHANGED <<args, disk, header, i, rec, result, exit>>,
         out'.records = out.records, out'.header = out.header,
         out'.stderr = out.stderr,
         disturbed => disturbed',
         out'.gaps /\ ~disturbed' => out.gaps \/ RecordMalformed(disk, rec),
         Blamed', ReadsContained'
  PROVE  ExactInvariant'
<1>1. /\ out.header /\ out.stderr = "none" /\ i \in Nat /\ args = 2 /\ exit = NotExited
  BY InTheLoop DEF InLoop
<1>2. Showing /\ ShownInOrder
  BY DEF ExactInvariant
<1>3. out.records = i + 1 /\ rec = Entry(disk, i)
  BY <1>2 DEF InBody, ShownInOrder
<1>4. Showing'
  <2>1. ASSUME out'.gaps, ~disturbed'
        PROVE  \E j \in 0 .. out.records - 1 : RecordMalformed(disk, Entry(disk, j))
    <3>1. CASE out.gaps
      BY <1>2, <2>1, <3>1 DEF Showing, InLoop
    <3>2. CASE RecordMalformed(disk, rec)
      <4>1. i \in 0 .. out.records - 1
        BY <1>1, <1>3
      <4>2. QED BY <1>3, <3>2, <4>1
    <3>3. QED BY <2>1, <3>1, <3>2
  <2>2. QED BY <1>1, <2>1 DEF Showing
<1>5. ShownInOrder'
  BY <1>2, <1>3 DEF ShownInOrder
<1>6. QED BY <1>1, <1>4, <1>5, GoesOn DEF ExactInvariant

\* A snippet leaves a gap only if its range is not safe or a call failed, and
\* is read from its range. Here a safe range is one of len bytes in the file.
LEMMA SnippetExact ==
  ASSUME TypeOK, NEW use, NEW safe, NEW start, start.out \in Nat, NEW n \in Nat,
         NEW len \in Nat, n <= len, disk.size \in Nat,
         safe => start.ok /\ Seekable(start.out) /\ start.out + len <= disk.size,
         Snippet(use, safe, start, n)
  PROVE  /\ out'.records = out.records /\ out'.header = out.header
         /\ out'.stderr = out.stderr
         /\ disturbed => disturbed'
         /\ out'.gaps /\ ~disturbed' => out.gaps \/ ~safe
         /\ \/ touched' = touched
            \/ safe /\ touched' = [use |-> use, from |-> start.out, len |-> n]
<1>1. out \in Output /\ disturbed \in BOOLEAN
  BY DEF TypeOK
<1>2. out' = out \/ out' = [out EXCEPT !.gaps = TRUE]
  BY DEF Snippet
<1>3. /\ out'.records = out.records /\ out'.header = out.header
      /\ out'.stderr = out.stderr
  BY <1>1, <1>2 DEF Output
<1>4. disturbed' \in {disturbed, TRUE}
  BY DEF Snippet, ShortRead, NoFault, Fault
<1>5. safe => ~(Available(disk, start.out) < n)
  <2>1. SUFFICES ASSUME start.out + len <= disk.size
                 PROVE  ~(Available(disk, start.out) < n)
    OBVIOUS
  <2> DEFINE at == start.out
             size == disk.size
  <2> HIDE DEF at, size
  <2>2. at \in Nat /\ size \in Nat /\ at + len <= size
    BY <2>1 DEF at, size
  <2>3. at <= size /\ n <= size - at
    BY <2>2
  <2>4. Available(disk, start.out) = size - at
    BY <2>3 DEF Available, at, size
  <2>5. QED BY <2>2, <2>3, <2>4
<1>6. out'.gaps /\ ~disturbed' => out.gaps \/ ~safe
  <2>1. SUFFICES ASSUME safe, ~disturbed', ~out.gaps PROVE ~out'.gaps
    OBVIOUS
  <2>2. start.ok /\ Seekable(start.out)
    BY <2>1
  <2>3. ~ShortRead(start.out, n) /\ ~Fault("fseek")
    BY <1>5, <2>1 DEF ShortRead, Fault
  <2>4. out' = out
    BY <2>1, <2>2, <2>3 DEF Snippet
  <2>5. QED BY <2>1, <2>4
<1>7. \/ touched' = touched
      \/ safe /\ touched' = [use |-> use, from |-> start.out, len |-> n]
  BY DEF Snippet, ReadAt
<1>8. QED BY <1>1, <1>3, <1>4, <1>6, <1>7

\* No step of the printers raises a flag.
LEMMA PrintersBlameNone ==
  ASSUME ExactInvariant, pc \in {"name", "payload"}, pc' \in {"payload", "validate"},
         UNCHANGED <<disk, ctx, i>>, disturbed => disturbed'
  PROVE  Blamed'
<1>1. Blamed
  BY DEF ExactInvariant
<1>2. QED BY <1>1 DEF Blamed, Examined, InLoop, InBody

\* print_asset_name_snippet reads names inside the string table.
LEMMA PrintNameExact ==
  ASSUME ParseInvariant, ExactInvariant, PrintName
  PROVE  ExactInvariant'
<1> DEFINE safe == name_range_safe(header, rec)
           start == NameStart(header, rec)
           n == AtMost(rec.name_length, NAME_SNIPPET_BYTES)
           lo == header.string_table_offset
           size == header.string_table_size
<1>1. /\ pc = "name" /\ pc' = "payload" /\ Snippet("name", safe, start, n)
      /\ UNCHANGED <<args, disk, ctx, header, i, rec, result, exit>>
  BY DEF PrintName, Goto
<1>2. /\ IsFile(disk) /\ header = disk.header /\ header \in BunHeader
      /\ ~HeaderMalformed(disk) /\ rec \in BunAssetRecord
      /\ disturbed \in BOOLEAN /\ disk.size \in Nat /\ TypeOK
  BY <1>1, InTheLoop DEF InLoop, InBody, ParseInvariant
<1>3. n \in Nat /\ rec.name_length \in Nat /\ n <= rec.name_length /\ start.out \in Nat
  BY <1>2, FieldTypes, StartTypes, ParseAssumption DEF AtMost
<1>4. lo \in Nat /\ size \in Nat
  BY <1>2, FieldTypes
<1>5. safe => NameInside(disk.header, rec)
  BY <1>2, RangesExact
<1>6. ~safe => RecordMalformed(disk, rec)
  <2>1. ~safe => ~NameInside(disk.header, rec)
    BY <1>2, RangesExact
  <2>2. QED BY <2>1 DEF RecordMalformed
<1>7. safe => /\ start.ok /\ Seekable(start.out) /\ start.out = lo + rec.name_offset
              /\ start.out + rec.name_length <= lo + size
              /\ start.out + rec.name_length <= disk.size
  BY <1>2, <1>5, NameReach
<1>8. rec.name_offset \in Nat
  BY <1>2, FieldTypes
<1> HIDE DEF safe, start, n, lo, size
<1>9. /\ out'.records = out.records /\ out'.header = out.header
      /\ out'.stderr = out.stderr
      /\ disturbed => disturbed'
      /\ out'.gaps /\ ~disturbed' => out.gaps \/ ~safe
      /\ \/ touched' = touched
         \/ safe /\ touched' = [use |-> "name", from |-> start.out, len |-> n]
  BY <1>1, <1>2, <1>3, <1>7, SnippetExact
<1>10. ReadsContained'
  <2>1. CASE touched' = touched
    BY <1>1, <2>1, ReadsNothing DEF ExactInvariant
  <2>2. CASE safe /\ touched' = [use |-> "name", from |-> start.out, len |-> n]
    <3>1. touched'.use = "name" /\ touched'.from = start.out /\ touched'.len = n
      BY <2>2
    <3>2. /\ lo <= start.out /\ start.out + n <= lo + size
          /\ 0 <= start.out /\ start.out + n <= 0 + disk.size
      BY <1>2, <1>3, <1>4, <1>7, <1>8, <2>2
    <3>3. QED BY <1>1, <3>1, <3>2 DEF ReadsContained, Within, lo, size
  <2>3. QED BY <1>9, <2>1, <2>2
<1>11. Blamed'
  BY <1>1, <1>9, PrintersBlameNone
<1>12. QED BY <1>1, <1>6, <1>9, <1>10, <1>11, BodyStep DEF InBody

\* print_asset_payload_snippet reads payloads inside the data section.
LEMMA PrintPayloadExact ==
  ASSUME ParseInvariant, ExactInvariant, PrintPayload
  PROVE  ExactInvariant'
<1> DEFINE safe == data_range_safe(header, rec)
           start == DataStart(header, rec)
           n == PayloadShown
           lo == header.data_section_offset
           size == header.data_section_size
<1>1. /\ pc = "payload" /\ pc' = "validate" /\ Snippet("payload", safe, start, n)
      /\ UNCHANGED <<args, disk, ctx, header, i, rec, result, exit>>
  BY DEF PrintPayload, Goto
<1>2. /\ IsFile(disk) /\ header = disk.header /\ header \in BunHeader
      /\ ~HeaderMalformed(disk) /\ rec \in BunAssetRecord
      /\ disturbed \in BOOLEAN /\ disk.size \in Nat /\ TypeOK
  BY <1>1, InTheLoop DEF InLoop, InBody, ParseInvariant
<1>3. n \in Nat /\ rec.data_size \in Nat /\ n <= rec.data_size /\ start.out \in Nat
  <2>1. rec.data_size \in Nat /\ start.out \in Nat
    BY <1>2, FieldTypes, StartTypes
  <2>2. \A m \in Nat : AtMost(rec.data_size, m) \in Nat /\ AtMost(rec.data_size, m) <= rec.data_size
    BY <2>1 DEF AtMost
  <2>3. n \in {AtMost(rec.data_size, 2 * PAYLOAD_SNIPPET_BYTES),
               AtMost(rec.data_size, PAYLOAD_SNIPPET_BYTES), 0}
    BY DEF PayloadShown
  <2>4. 2 * PAYLOAD_SNIPPET_BYTES \in Nat /\ PAYLOAD_SNIPPET_BYTES \in Nat
    BY ParseAssumption
  <2> HIDE DEF n
  <2>5. QED BY <2>1, <2>2, <2>3, <2>4
<1>4. lo \in Nat /\ size \in Nat
  BY <1>2, FieldTypes
<1>5. safe => DataInside(disk.header, rec)
  BY <1>2, RangesExact
<1>6. ~safe => RecordMalformed(disk, rec)
  <2>1. ~safe => ~DataInside(disk.header, rec)
    BY <1>2, RangesExact
  <2>2. QED BY <2>1 DEF RecordMalformed
<1>7. safe => /\ start.ok /\ Seekable(start.out) /\ start.out = lo + rec.data_offset
              /\ start.out + rec.data_size <= lo + size
              /\ start.out + rec.data_size <= disk.size
  BY <1>2, <1>5, DataReach
<1>8. rec.data_offset \in Nat
  BY <1>2, FieldTypes
<1> HIDE DEF safe, start, n, lo, size
<1>9. /\ out'.records = out.records /\ out'.header = out.header
      /\ out'.stderr = out.stderr
      /\ disturbed => disturbed'
      /\ out'.gaps /\ ~disturbed' => out.gaps \/ ~safe
      /\ \/ touched' = touched
         \/ safe /\ touched' = [use |-> "payload", from |-> start.out, len |-> n]
  BY <1>1, <1>2, <1>3, <1>7, SnippetExact
<1>10. ReadsContained'
  <2>1. CASE touched' = touched
    BY <1>1, <2>1, ReadsNothing DEF ExactInvariant
  <2>2. CASE safe /\ touched' = [use |-> "payload", from |-> start.out, len |-> n]
    <3>1. touched'.use = "payload" /\ touched'.from = start.out /\ touched'.len = n
      BY <2>2
    <3>2. /\ lo <= start.out /\ start.out + n <= lo + size
          /\ 0 <= start.out /\ start.out + n <= 0 + disk.size
      BY <1>2, <1>3, <1>4, <1>7, <1>8, <2>2
    <3>3. QED BY <1>1, <3>1, <3>2 DEF ReadsContained, Within, lo, size
  <2>3. QED BY <1>9, <2>1, <2>2
<1>11. Blamed'
  BY <1>1, <1>9, PrintersBlameNone
<1>12. QED BY <1>1, <1>6, <1>9, <1>10, <1>11, BodyStep DEF InBody

\* A read delivers no more than is wanted, nor than there is; all of it, when
\* no call failed.
LEMMA DeliverableBound ==
  ASSUME NEW f, f.size \in Nat, NEW p \in Nat, NEW n \in Nat, NEW failing,
         NEW left \in Deliverable(f, p, n, failing)
  PROVE  /\ left \in Nat /\ left <= AtMost(n, Available(f, p))
         /\ left > 0 => p + left <= f.size
<1>1. Available(f, p) \in Nat
  BY DEF Available
<1>2. AtMost(n, Available(f, p)) \in Nat /\ AtMost(n, Available(f, p)) <= Available(f, p)
  BY <1>1 DEF AtMost
<1>3. left \in Nat /\ left <= AtMost(n, Available(f, p))
  BY <1>2 DEF Deliverable
<1>4. left <= Available(f, p)
  BY <1>1, <1>2, <1>3
<1>5. left > 0 => p + left <= f.size
  BY <1>3, <1>4 DEF Available
<1>6. QED BY <1>3, <1>5

\* The flag set by a row of messages about record i is the fault of a record
\* examined, if a complaint in that row is.
LEMMA BlameStep ==
  ASSUME ParseInvariant, ExactInvariant, InBody, pc' \in {"chars", "reseek"},
         UNCHANGED <<disk, i>>, disturbed => disturbed',
         NEW complained, ctx'.saw_malformed => ctx.saw_malformed \/ complained,
         complained /\ ~disturbed' => RecordMalformed(disk, rec)
  PROVE  Blamed'
<1>1. i \in Nat /\ rec = Entry(disk, i)
  BY InTheLoop DEF InLoop, InBody, ParseInvariant, Counting
<1>2. \A j : j \in 0 .. Examined - 1 => j \in 0 .. (i + 1) - 1
  BY <1>1 DEF Examined
<1>3. ASSUME ctx'.saw_malformed, ~disturbed'
      PROVE  \E j \in 0 .. (i + 1) - 1 : RecordMalformed(disk, Entry(disk, j))
  <2>1. CASE ctx.saw_malformed
    <3>1. PICK j \in 0 .. Examined - 1 : RecordMalformed(disk, Entry(disk, j))
      BY <1>3, <2>1 DEF ExactInvariant, Blamed, InLoop
    <3>2. QED BY <1>2, <3>1
  <2>2. CASE complained
    <3>1. RecordMalformed(disk, Entry(disk, i)) /\ i \in 0 .. (i + 1) - 1
      BY <1>1, <1>3, <2>2
    <3>2. QED BY <3>1
  <2>3. QED BY <1>3, <2>1, <2>2
<1>4. QED BY <1>3 DEF Blamed, Examined

\* validate_asset_record blames only a bad record, and reads its payload inside
\* the file, and inside the data section when that is where it belongs.
LEMMA ValidateRecordExact ==
  ASSUME ParseInvariant, ExactInvariant, ValidateRecord
  PROVE  ExactInvariant'
<1> DEFINE from == DataStart(header, rec).out
           n == rec.data_size
           es(seeks, left) == validate_asset_record(disk, header, rec, i, seeks, left)
           used(left) == RleConsumed(disk, from, n, left, rec.uncompressed_size)
           complete(seeks, left) ==
             ScansPayload(header, rec) => seeks /\ left = AtMost(n, Available(disk, from))
<1>1. /\ pc = "validate" /\ pc' = "chars"
      /\ UNCHANGED <<args, disk, header, i, rec, result, exit, out>>
  BY DEF ValidateRecord, Goto
<1>2. /\ IsFile(disk) /\ header = disk.header /\ header \in BunHeader
      /\ ~HeaderMalformed(disk) /\ rec \in BunAssetRecord /\ i \in Nat
      /\ disturbed \in BOOLEAN /\ disk.size \in Nat /\ ctx \in BunParseContext
  BY <1>1, InTheLoop DEF InLoop, InBody, ParseInvariant, TypeOK
<1>3. from \in Nat /\ n \in Nat
  BY <1>2, FieldTypes, StartTypes
<1>4. \E seeks \in BOOLEAN, left \in Nat :
        /\ ctx' = add_error(ctx, es(seeks, left))
        /\ disturbed => disturbed'
        /\ ~disturbed' => complete(seeks, left)
        /\ \/ touched' = touched
           \/ /\ ScansPayload(header, rec)
              /\ touched' = [use |-> "rle", from |-> from, len |-> used(left)]
              /\ left > 0 => from + left <= disk.size
  <2>1. CASE ScansPayload(header, rec) /\ ScanPayload(from)
    <3>1. PICK left \in Deliverable(disk, from, n, "fread" \in Faults) :
            /\ Delivers(from, n, left)
            /\ ctx' = add_error(ctx, es(TRUE, left))
            /\ touched' = [use |-> "rle", from |-> from, len |-> used(left)]
      BY <2>1 DEF ScanPayload, ReadAt
    <3>2. /\ left \in Nat /\ left <= AtMost(n, Available(disk, from))
          /\ left > 0 => from + left <= disk.size
      BY <1>2, <1>3, DeliverableBound
    <3>3. AtMost(n, Available(disk, from)) \in Nat
      BY <1>2, <1>3 DEF AtMost, Available
    <3>4. (disturbed => disturbed') /\ (~disturbed' => left = AtMost(n, Available(disk, from)))
      <4>1. (disturbed => disturbed') /\ (~disturbed' => ~(left < AtMost(n, Available(disk, from))))
        BY <3>1, Zenon DEF Delivers
      <4> DEFINE all == AtMost(n, Available(disk, from))
      <4> HIDE DEF all
      <4>2. left \in Nat /\ left <= all /\ all \in Nat
        BY <3>2, <3>3 DEF all
      <4>3. ~(left < all) => left = all
        BY <4>2
      <4>4. QED BY <4>1, <4>3 DEF all
    <3> HIDE DEF es, used
    <3>5. QED BY <2>1, <3>1, <3>2, <3>4
  <2>2. CASE /\ ctx' = add_error(ctx, es(FALSE, 0)) /\ UNCHANGED <<stream, touched>>
             /\ \/ ScansPayload(header, rec) /\ Fault("fseek")
                \/ ~ScansPayload(header, rec) /\ NoFault
    <3>1. (disturbed => disturbed') /\ (~disturbed' => ~ScansPayload(header, rec))
      BY <2>2 DEF Fault, NoFault
    <3> HIDE DEF es, used
    <3>2. QED BY <2>2, <3>1
  <2>3. QED BY <2>1, <2>2 DEF ValidateRecord
<1>5. PICK seeks \in BOOLEAN, left \in Nat :
        /\ ctx' = add_error(ctx, es(seeks, left))
        /\ disturbed => disturbed'
        /\ ~disturbed' => complete(seeks, left)
        /\ \/ touched' = touched
           \/ /\ ScansPayload(header, rec)
              /\ touched' = [use |-> "rle", from |-> from, len |-> used(left)]
              /\ left > 0 => from + left <= disk.size
  BY <1>4
<1>6. /\ es(seeks, left) \in Seq(Error)
      /\ complete(seeks, left) /\ Has(es(seeks, left), BUN_MALFORMED)
           => RecordMalformed(disk, rec)
  <2>1. es(seeks, left) \in Seq(Error)
    BY <1>2, RecordChecks
  <2>2. ASSUME complete(seeks, left), Has(es(seeks, left), BUN_MALFORMED)
        PROVE  RecordMalformed(disk, rec)
    <3>1. ScansPayload(header, rec) /\ DataInside(header, rec) => seeks /\ n <= left
      <4>1. SUFFICES ASSUME ScansPayload(header, rec), DataInside(header, rec)
                     PROVE  seeks /\ n <= left
        OBVIOUS
      <4>2. seeks /\ left = AtMost(n, Available(disk, from))
        BY <2>2, <4>1
      <4>3. from + n <= disk.size
        BY <1>2, <4>1, DataReach
      <4>4. QED BY <1>2, <1>3, <4>2, <4>3 DEF AtMost, Available
    <3> HIDE DEF complete
    <3>2. QED BY <1>2, <2>2, <3>1, RecordComplete
  <2>3. QED BY <2>1, <2>2
<1>7. used(left) \in Nat /\ used(left) <= n /\ used(left) <= left
  BY <1>3, RleConsumedBound
<1> DEFINE u == used(left)
           e == es(seeks, left)
           whole == complete(seeks, left)
<1>8. /\ ctx' = add_error(ctx, e) /\ e \in Seq(Error) /\ (~disturbed' => whole)
      /\ whole /\ Has(e, BUN_MALFORMED) => RecordMalformed(disk, rec)
  BY <1>5, <1>6
<1>9. /\ u \in Nat /\ u <= n /\ u <= left
      /\ \/ touched' = touched
         \/ /\ ScansPayload(header, rec)
            /\ touched' = [use |-> "rle", from |-> from, len |-> u]
            /\ left > 0 => from + left <= disk.size
  BY <1>5, <1>7
<1> HIDE DEF u, e, es, used, complete, whole
<1>10. Blamed'
  <2>1. ctx'.saw_malformed => ctx.saw_malformed \/ Has(e, BUN_MALFORMED)
    BY <1>2, <1>8, AddErrorContext
  <2>2. QED BY <1>1, <1>5, <1>8, <2>1, BlameStep DEF InBody
<1>11. ReadsContained'
  <2>1. CASE touched' = touched
    BY <1>1, <2>1, ReadsNothing DEF ExactInvariant
  <2>2. CASE /\ ScansPayload(header, rec)
             /\ touched' = [use |-> "rle", from |-> from, len |-> u]
             /\ left > 0 => from + left <= disk.size
    <3>1. touched'.use = "rle" /\ touched'.from = from /\ touched'.len = u
      BY <2>2
    <3>2. u > 0 => 0 <= from /\ from + u <= 0 + disk.size
      BY <1>2, <1>3, <1>9, <2>2
    <3>3. ASSUME DataInside(header, rec)
          PROVE  /\ header.data_section_offset <= from
                 /\ from + u <= header.data_section_offset + header.data_section_size
      <4>1. /\ from = header.data_section_offset + rec.data_offset
            /\ from + n <= header.data_section_offset + header.data_section_size
        BY <1>2, <3>3, DataReach
      <4>2. /\ header.data_section_offset \in Nat /\ header.data_section_size \in Nat
            /\ rec.data_offset \in Nat
        BY <1>2, FieldTypes
      <4> DEFINE lo == header.data_section_offset
                 size == header.data_section_size
                 off == rec.data_offset
      <4> HIDE DEF from, n, lo, size, off
      <4>3. from = lo + off /\ from + n <= lo + size /\ lo \in Nat /\ size \in Nat /\ off \in Nat
        BY <4>1, <4>2 DEF lo, size, off
      <4>4. lo <= from /\ from + u <= lo + size
        BY <1>3, <1>9, <4>3
      <4>5. QED BY <4>4 DEF lo, size
    <3> HIDE DEF from, n
    <3>4. QED BY <1>1, <3>1, <3>2, <3>3 DEF ReadsContained, Within
  <2>3. QED BY <1>9, <2>1, <2>2
<1>12. out'.gaps = out.gaps
  BY <1>1
<1>13. QED BY <1>1, <1>5, <1>10, <1>11, <1>12, BodyStep DEF InBody

\* validate_asset_name blames only a name with an unprintable byte, and reads it
\* inside the string table.
LEMMA ValidateNameExact ==
  ASSUME ParseInvariant, ExactInvariant, ValidateName
  PROVE  ExactInvariant'
<1> DEFINE from == NameStart(header, rec).out
           n == rec.name_length
           lo == header.string_table_offset
           size == header.string_table_size
           es(seeks, left) == validate_asset_name(disk, header, rec, i, seeks, left)
           used(left) == NameConsumed(disk, from, n, left)
<1>1. /\ pc = "chars" /\ pc' = "reseek"
      /\ UNCHANGED <<args, disk, header, i, rec, result, exit, out>>
  BY DEF ValidateName, Goto
<1>2. /\ IsFile(disk) /\ header = disk.header /\ header \in BunHeader
      /\ ~HeaderMalformed(disk) /\ rec \in BunAssetRecord /\ i \in Nat
      /\ disturbed \in BOOLEAN /\ disk.size \in Nat /\ ctx \in BunParseContext
  BY <1>1, InTheLoop DEF InLoop, InBody, ParseInvariant, TypeOK
<1>3. /\ from \in Nat /\ n \in Nat /\ lo \in Nat /\ size \in Nat /\ rec.name_offset \in Nat
  BY <1>2, FieldTypes, StartTypes
<1>4. out'.gaps = out.gaps
  BY <1>1
<1>5. CASE ~name_range_safe(header, rec) /\ NoFault /\ UNCHANGED <<ctx, stream, touched>>
  <2>1. Blamed'
    BY <1>1, <1>5, BlameStep DEF InBody, NoFault
  <2>2. ReadsContained'
    BY <1>1, <1>5, ReadsNothing DEF ExactInvariant
  <2>3. QED BY <1>1, <1>4, <1>5, <2>1, <2>2, BodyStep DEF InBody, NoFault
<1>6. CASE name_range_safe(header, rec)
  <2>1. NameInside(disk.header, rec)
    BY <1>2, <1>6, RangesExact
  <2>2. /\ NameReachable /\ from = lo + rec.name_offset
        /\ from + n <= lo + size /\ from + n <= disk.size
    BY <1>2, <2>1, NameReach DEF NameReachable
  <2>3. CASE ScanName(from)
    <3>1. PICK left \in Deliverable(disk, from, n, "fread" \in Faults) :
            /\ Delivers(from, n, left)
            /\ ctx' = add_error(ctx, es(TRUE, left))
            /\ touched' = [use |-> "chars", from |-> from, len |-> used(left)]
      BY <2>3 DEF ScanName, ReadAt
    <3>2. left \in Nat
      BY <1>2, <1>3, DeliverableBound
    <3>3. disturbed => disturbed'
      BY <3>1 DEF Delivers
    <3>4. ~disturbed' => n <= left
      <4>1. Available(disk, from) \in Nat /\ n <= Available(disk, from)
        BY <1>2, <1>3, <2>2 DEF Available
      <4>2. AtMost(n, Available(disk, from)) = n
        BY <1>3, <4>1 DEF AtMost
      <4>3. ~disturbed' => ~(left < AtMost(n, Available(disk, from)))
        BY <3>1, Zenon DEF Delivers
      <4>4. ~(left < n) => n <= left
        BY <1>3, <3>2
      <4>5. QED BY <4>2, <4>3, <4>4
    <3>5. used(left) \in Nat /\ used(left) <= n
      BY <1>3, <3>2, NameConsumedBound
    <3>6. es(TRUE, left) \in Seq(Error)
      BY <1>2, <3>2, NameChecks
    <3>7. ASSUME n <= left, Has(es(TRUE, left), BUN_MALFORMED)
          PROVE  RecordMalformed(disk, rec)
      BY <1>2, <2>1, <3>2, <3>7, NameComplete DEF RecordMalformed
    <3> DEFINE u == used(left)
               e == es(TRUE, left)
    <3>8. /\ ctx' = add_error(ctx, e) /\ e \in Seq(Error)
          /\ touched' = [use |-> "chars", from |-> from, len |-> u]
          /\ u \in Nat /\ u <= n
          /\ Has(e, BUN_MALFORMED) /\ ~disturbed' => RecordMalformed(disk, rec)
      BY <3>1, <3>4, <3>5, <3>6, <3>7
    <3> HIDE DEF u, e, es, used
    <3>9. Blamed'
      <4>1. ctx'.saw_malformed => ctx.saw_malformed \/ Has(e, BUN_MALFORMED)
        BY <1>2, <3>8, AddErrorContext
      <4>2. QED BY <1>1, <3>3, <3>8, <4>1, BlameStep DEF InBody
    <3>10. ReadsContained'
      <4> HIDE DEF from, n, lo, size
      <4>1. touched'.use = "chars" /\ touched'.from = from /\ touched'.len = u
        BY <3>8
      <4>2. /\ lo <= from /\ from + u <= lo + size
            /\ 0 <= from /\ from + u <= 0 + disk.size
        <5> DEFINE off == rec.name_offset
                   end == disk.size
        <5>1. /\ from = lo + off /\ from + n <= lo + size /\ from + n <= end
              /\ off \in Nat /\ lo \in Nat /\ size \in Nat /\ end \in Nat
              /\ n \in Nat /\ u \in Nat /\ u <= n
          BY <1>2, <1>3, <2>2, <3>8
        <5> HIDE DEF off, end
        <5>2. /\ lo <= from /\ from + u <= lo + size
              /\ 0 <= from /\ from + u <= 0 + end
          BY <5>1
        <5>3. QED BY <5>2, Zenon DEF end
      <4>3. QED BY <1>1, <4>1, <4>2 DEF ReadsContained, Within, lo, size
    <3>11. QED BY <1>1, <1>4, <3>3, <3>9, <3>10, BodyStep DEF InBody
  <2>4. CASE /\ Fault("fseek") /\ ctx' = add_error(ctx, es(FALSE, 0))
             /\ UNCHANGED <<stream, touched>>
    <3>1. disturbed'
      BY <2>4 DEF Fault
    <3>2. Blamed'
      BY <3>1 DEF Blamed
    <3>3. ReadsContained'
      BY <1>1, <2>4, ReadsNothing DEF ExactInvariant
    <3> HIDE DEF es
    <3>4. QED BY <1>1, <1>4, <3>1, <3>2, <3>3, BodyStep DEF InBody
  <2>5. QED BY <1>6, <2>2, <2>3, <2>4 DEF ValidateName
<1>7. QED BY <1>5, <1>6 DEF ValidateName

\* main reports a result other than BUN_OK, and nothing else.
LEMMA ReportExact ==
  ASSUME ParseInvariant, ExactInvariant, Report
  PROVE  ExactInvariant'
<1>1. /\ pc = "report" /\ pc' = "close"
      /\ UNCHANGED <<args, disk, stream, ctx, header, i, rec, result, exit, touched, disturbed>>
  BY DEF Report, Goto, NoFault
<1>2. /\ args = 2 /\ exit = NotExited /\ out \in Output
      /\ Answered /\ ReadsContained /\ ShownInOrder /\ out.stderr = "none"
  BY <1>1 DEF ParseInvariant, ExactInvariant, Fresh, TypeOK, Showing
<1>3. /\ out'.records = out.records /\ out'.header = out.header /\ out'.gaps = out.gaps
      /\ result = BUN_OK => out'.stderr = out.stderr
  <2> DEFINE s == CASE result \in {BUN_MALFORMED, BUN_UNSUPPORTED} -> "errors"
                    [] result = BUN_ERR_IO -> "io failure"
                    [] result = BUN_ERR_INTERNAL -> "internal error"
                    [] OTHER -> out.stderr
  <2>1. out' = [out EXCEPT !.stderr = s]
    BY DEF Report
  <2>2. result = BUN_OK => s = out.stderr
    BY DEF BUN_OK, BUN_MALFORMED, BUN_UNSUPPORTED, BUN_ERR_IO, BUN_ERR_INTERNAL
  <2> HIDE DEF s
  <2>3. QED BY <1>2, <2>1, <2>2 DEF Output
<1>4. Showing'
  BY <1>1 DEF Showing, InLoop, InBody
<1>5. Answered'
  BY <1>1, <1>2, <1>3 DEF Answered
<1>6. ShownInOrder'
  BY <1>1, <1>2, <1>3 DEF ShownInOrder
<1>7. AcceptedShown' /\ VerdictExact'
  BY <1>1, <1>2 DEF AcceptedShown, VerdictExact, NotExited, BUN_OK
<1>8. QED BY <1>1, <1>2, <1>4, <1>5, <1>6, <1>7, NothingBlamed, ReadsNothing
          DEF ExactInvariant

\* A failing fclose turns an acceptance into an I/O error, and takes back no
\* other answer.
LEMMA CloseAnswers ==
  ASSUME ParseInvariant, ExactInvariant, BunClose
  PROVE  /\ exit' \in Promise!Allowed(disk, disturbed')
         /\ disturbed' = disturbed \/ disturbed' = TRUE
         /\ exit' = BUN_OK => result = BUN_OK /\ disturbed' = disturbed
<1>1. result \in Promise!Allowed(disk, disturbed) /\ disturbed \in BOOLEAN
  BY DEF BunClose, ExactInvariant, Answered, ParseInvariant, TypeOK
<1>2. CASE disturbed' = disturbed /\ exit' = result
  <2>1. exit' \in Promise!Allowed(disk, disturbed')
    BY <1>1, <1>2, AllowedIs
  <2>2. exit' = BUN_OK => result = BUN_OK
    BY <1>2
  <2>3. QED BY <1>2, <2>1, <2>2
<1>3. CASE disturbed' = TRUE /\ exit' = IF result = BUN_OK THEN BUN_ERR_IO ELSE result
  <2>1. CASE result = BUN_OK
    <3>1. exit' = BUN_ERR_IO
      BY <1>3, <2>1
    <3>2. BUN_ERR_IO \in Promise!Allowed(disk, TRUE)
      BY AllowedIs
    <3>3. exit' # BUN_OK
      BY <3>1 DEF BUN_ERR_IO, BUN_OK
    <3>4. QED BY <1>3, <3>1, <3>2, <3>3
  <2>2. CASE result # BUN_OK
    <3>1. exit' = result
      BY <1>3, <2>2
    <3>2. result = Classify(disk) \/ result \in {BUN_ERR_IO, BUN_MALFORMED}
      BY <1>1, AllowedIs
    <3>3. exit' \in Promise!Allowed(disk, TRUE)
      BY <3>1, <3>2, AllowedIs
    <3>4. QED BY <1>3, <2>2, <3>1, <3>3
  <2>3. QED BY <2>1, <2>2
<1>4. QED BY <1>2, <1>3 DEF BunClose, NoFault, Fault

\* bun_close: the exit code is the answer.
LEMMA BunCloseExact ==
  ASSUME ParseInvariant, ParseInvariant', ExactInvariant, BunClose
  PROVE  ExactInvariant'
<1>1. /\ pc = "close" /\ pc' = "done"
      /\ UNCHANGED <<args, disk, header, i, rec, result, out, touched>>
  BY DEF BunClose, Goto
<1>2. Answered /\ ReadsContained /\ ShownInOrder /\ disturbed' \in BOOLEAN
  BY DEF ParseInvariant, ExactInvariant, TypeOK
<1>3. /\ exit' \in Promise!Allowed(disk, disturbed')
      /\ exit' = BUN_OK => result = BUN_OK /\ disturbed' = disturbed
  BY CloseAnswers
<1>4. VerdictExact'
  <2>1. ~disturbed' => exit' = Classify(disk)
    BY <1>2, <1>3, AllowedIs
  <2>2. QED BY <1>1, <2>1 DEF VerdictExact
<1>5. AcceptedShown'
  BY <1>1, <1>2, <1>3 DEF Answered, AcceptedShown
<1>6. Showing' /\ Answered'
  BY <1>1 DEF Showing, Answered, InLoop, InBody
<1>7. ShownInOrder'
  BY <1>1, <1>2 DEF ShownInOrder
<1>8. QED BY <1>1, <1>2, <1>4, <1>5, <1>6, <1>7, NothingBlamed, ReadsNothing
          DEF ExactInvariant

\* The initial states satisfy the invariant.
LEMMA InitExact == Init => ExactInvariant
<1> SUFFICES ASSUME Init PROVE ExactInvariant
  OBVIOUS
<1>1. /\ pc = "start" /\ exit = NotExited /\ touched.len = 0
      /\ out.records = 0 /\ ~out.gaps /\ out.stderr = "none" /\ header = ZeroHeader
  BY DEF Init
<1>2. Showing /\ Blamed /\ Answered
  BY <1>1 DEF Showing, Blamed, Answered, InLoop, InBody
<1>3. ReadsContained
  BY <1>1 DEF ReadsContained
<1>4. ShownInOrder
  BY <1>1 DEF ShownInOrder, ZeroHeader
<1>5. AcceptedShown /\ VerdictExact
  BY <1>1 DEF AcceptedShown, VerdictExact, NotExited, BUN_OK
<1>6. QED BY <1>1, <1>2, <1>3, <1>4, <1>5 DEF ExactInvariant

\* A step that changes nothing keeps the invariant.
LEMMA StutterExact ==
  ASSUME ExactInvariant, UNCHANGED vars
  PROVE  ExactInvariant'
<1>1. UNCHANGED <<pc, args, disk, stream, ctx, header, i, rec, result, exit, out,
                  touched, disturbed>>
  BY DEF vars
<1>2. /\ Showing /\ Blamed /\ Answered /\ ReadsContained /\ ShownInOrder
      /\ AcceptedShown /\ VerdictExact /\ (pc \notin {"start", "done"} => args = 2)
  BY DEF ExactInvariant
<1>3. Showing' /\ Blamed'
  BY <1>1, <1>2 DEF Showing, Blamed, Examined, InLoop, InBody
<1>4. Answered' /\ AcceptedShown' /\ VerdictExact'
  BY <1>1, <1>2 DEF Answered, AcceptedShown, VerdictExact
<1>5. ShownInOrder'
  BY <1>1, <1>2 DEF ShownInOrder
<1>6. QED BY <1>1, <1>2, <1>3, <1>4, <1>5, ReadsNothing DEF ExactInvariant

-----------------------------------------------------------------------------
\* ExactInvariant is inductive, given ParseInvariant: what bun_parse_assets has
\* complained of and shown is right at every point of the loop.
THEOREM ExactInductive == Spec => []ExactInvariant
<1>1. ParseInvariant /\ ParseInvariant' /\ ExactInvariant /\ [Next]_vars => ExactInvariant'
  <2> SUFFICES ASSUME ParseInvariant, ParseInvariant', ExactInvariant, [Next]_vars
               PROVE  ExactInvariant'
    OBVIOUS
  <2>1. CASE Step
    BY <2>1, UsageExact, BunOpenExact, BunParseHeaderExact, SeekTableExact,
       ReadRecordExact, RecordUnreadableExact, PrintNameExact, PrintPayloadExact,
       ValidateRecordExact, ValidateNameExact, ReseekExact, AssetsDoneExact,
       ReportExact, BunCloseExact DEF Step
  <2>2. CASE Exited
    BY <2>2, StutterExact DEF Exited
  <2>3. CASE UNCHANGED vars
    BY <2>3, StutterExact
  <2>4. QED BY <2>1, <2>2, <2>3 DEF Next
<1>2. QED BY Inductive, InitExact, <1>1, PTL DEF Spec

\* Without a failing stdio call the exit code of main is exactly the file's
\* class, whatever the file, the widths and the capacity of the error list.
THEOREM ExactVerdict == Spec => []VerdictExact
BY ExactInductive, PTL DEF ExactInvariant

\* Every byte read is a byte of the file, and records, names, snippets and the
\* payloads in range are read in the section they belong to.
THEOREM ReadsStay == Spec => []ReadsContained
BY ExactInductive, PTL DEF ExactInvariant

\* A file main accepts was shown whole: its header, every record, and every
\* snippet unless a stdio call failed.
THEOREM AcceptedIsShown == Spec => []AcceptedShown
BY ExactInductive, PTL DEF ExactInvariant

\* main prints records only under a good header, and in the table's order.
THEOREM ShowsInOrder == Spec => []ShownInOrder
BY ExactInductive, PTL DEF ExactInvariant

-----------------------------------------------------------------------------
(* What a run has concluded it never takes back.                            *)

\* What add_error makes of a context takes nothing back.
LEMMA AddErrorKeeps ==
  ASSUME NEW c \in BunParseContext, Len(c.errors) <= MAX_ERRORS, NEW es \in Seq(Error),
         NEW d, d = add_error(c, es)
  PROVE  /\ c.saw_malformed => d.saw_malformed
         /\ c.saw_unsupported => d.saw_unsupported
         /\ Len(c.errors) <= Len(d.errors)
         /\ SubSeq(d.errors, 1, Len(c.errors)) = c.errors
<1>1. c.errors \in Seq(Error)
  BY DEF BunParseContext
<1>2. d.errors = Capped(c.errors \o es)
  BY DEF add_error, BunParseContext
<1>3. (c.saw_malformed => d.saw_malformed) /\ (c.saw_unsupported => d.saw_unsupported)
  BY AddErrorContext
<1>4. QED BY <1>1, <1>2, <1>3, CappedKeeps

\* A context that keeps its messages and flags takes nothing back either.
LEMMA SameKeeps ==
  ASSUME NEW c \in BunParseContext, NEW d, d.errors = c.errors,
         d.saw_malformed = c.saw_malformed, d.saw_unsupported = c.saw_unsupported
  PROVE  /\ c.saw_malformed => d.saw_malformed
         /\ c.saw_unsupported => d.saw_unsupported
         /\ Len(c.errors) <= Len(d.errors)
         /\ SubSeq(d.errors, 1, Len(c.errors)) = c.errors
<1>1. c.errors \in Seq(Error) /\ Len(c.errors) \in Nat
  BY DEF BunParseContext
<1>2. SubSeq(c.errors, 1, Len(c.errors)) = c.errors
  <2> DEFINE u == c.errors
  <2>1. u \in Seq(Error)
    BY <1>1
  <2> HIDE DEF u
  <2>2. /\ SubSeq(u, 1, Len(u)) \in Seq(Error) /\ Len(SubSeq(u, 1, Len(u))) = Len(u)
        /\ \A k \in 1 .. Len(u) : SubSeq(u, 1, Len(u))[k] = u[k]
    BY <2>1, SubSeqProperties
  <2>3. QED BY <2>1, <2>2, SeqEqual DEF u
<1>3. QED BY <1>1, <1>2

\* The header's messages, the one for a file too small, and those of a record
\* are rows of messages.
LEMMA RowsType ==
  ASSUME TypeOK
  PROVE  /\ Check(TRUE, BUN_MALFORMED, "file too small", <<>>) \in Seq(Error)
         /\ Check(TRUE, BUN_MALFORMED, "record unreadable", <<i>>) \in Seq(Error)
         /\ validate_header_basic(disk.header)
              \o validate_header_offsets(disk.header, disk.size) \in Seq(Error)
         /\ \A seeks, left : left \in Nat =>
              validate_asset_record(disk, header, rec, i, seeks, left) \in Seq(Error)
<1>1. /\ i \in Nat /\ header \in BunHeader /\ rec \in BunAssetRecord
      /\ disk.header \in BunHeader /\ disk.size \in offset_t
  BY WidthAssumption DEF TypeOK, u32, IsFile
<1>2. Check(TRUE, BUN_MALFORMED, "file too small", <<>>) \in Seq(Error)
  BY CheckType, PlaceType DEF Complaint
<1>3. Check(TRUE, BUN_MALFORMED, "record unreadable", <<i>>) \in Seq(Error)
  BY <1>1, CheckType, PlaceType DEF Complaint
<1>4. validate_header_basic(disk.header)
        \o validate_header_offsets(disk.header, disk.size) \in Seq(Error)
  BY <1>1, HeaderBasicType, HeaderOffsetsType, ConcatType
<1>5. \A seeks, left : left \in Nat =>
        validate_asset_record(disk, header, rec, i, seeks, left) \in Seq(Error)
  BY <1>1, RecordChecks
<1>6. QED BY <1>2, <1>3, <1>4, <1>5

\* The step form of Sticky.
TakesNothingBack ==
  /\ ctx.saw_malformed => ctx'.saw_malformed
  /\ ctx.saw_unsupported => ctx'.saw_unsupported
  /\ Len(ctx.errors) <= Len(ctx'.errors)
  /\ SubSeq(ctx'.errors, 1, Len(ctx.errors)) = ctx.errors

\* Every action leaves the context as it is, or adds messages, or runs before
\* there is any (bun_open).
LEMMA StickyStep ==
  ASSUME ParseInvariant, Step
  PROVE  TakesNothingBack
<1>1. ctx \in BunParseContext /\ Len(ctx.errors) <= MAX_ERRORS /\ TypeOK
  BY DEF ParseInvariant, TypeOK
<1>2. ASSUME ctx'.errors = ctx.errors, ctx'.saw_malformed = ctx.saw_malformed,
             ctx'.saw_unsupported = ctx.saw_unsupported
      PROVE  TakesNothingBack
  BY <1>1, <1>2, SameKeeps DEF TakesNothingBack
<1>3. ASSUME NEW es \in Seq(Error), ctx' = add_error(ctx, es)
      PROVE  TakesNothingBack
  BY <1>1, <1>3, AddErrorKeeps DEF TakesNothingBack
<1>4. CASE ctx' = ctx
  BY <1>2, <1>4
<1>5. CASE BunOpen
  <2>1. ctx = ZeroContext
    BY <1>5 DEF ParseInvariant, Fresh, BunOpen
  <2>2. /\ ctx'.errors = <<>> /\ ctx'.saw_malformed = FALSE
        /\ ctx'.saw_unsupported = FALSE
    <3>1. CASE ctx' = ZeroContext
      BY <3>1 DEF ZeroContext
    <3>2. CASE ctx' = [ZeroContext EXCEPT !.file = "open", !.file_size = disk.size]
      BY <3>2 DEF ZeroContext
    <3>3. QED BY <1>5, <3>1, <3>2 DEF BunOpen, Opened, NotOpened
  <2>3. ctx.errors = <<>> /\ ctx.saw_malformed = FALSE /\ ctx.saw_unsupported = FALSE
    BY <2>1 DEF ZeroContext
  <2>4. QED BY <1>2, <2>2, <2>3
<1>6. CASE BunParseHeader
  <2>1. CASE TooSmall
    BY <1>1, <1>3, <2>1, RowsType DEF TooSmall
  <2>2. CASE HeaderUnreadable
    BY <1>4, <2>2 DEF HeaderUnreadable
  <2>3. CASE HeaderRead
    <3> DEFINE loaded == [ctx EXCEPT !.header_loaded = TRUE]
               es == validate_header_basic(disk.header)
                       \o validate_header_offsets(disk.header, disk.size)
    <3>1. ctx' = add_error(loaded, es)
      <4>1. ctx.file_size = disk.size
        BY <1>6 DEF ParseInvariant, Fresh, BunParseHeader
      <4>2. QED BY <2>3, <4>1 DEF HeaderRead
    <3>2. es \in Seq(Error)
      BY <1>1, RowsType
    <3>3. /\ loaded \in BunParseContext /\ loaded.errors = ctx.errors
          /\ loaded.saw_malformed = ctx.saw_malformed
          /\ loaded.saw_unsupported = ctx.saw_unsupported
      BY <1>1 DEF BunParseContext
    <3> HIDE DEF loaded, es
    <3>4. /\ loaded.saw_malformed => ctx'.saw_malformed
          /\ loaded.saw_unsupported => ctx'.saw_unsupported
          /\ Len(loaded.errors) <= Len(ctx'.errors)
          /\ SubSeq(ctx'.errors, 1, Len(loaded.errors)) = loaded.errors
      BY <1>1, <3>1, <3>2, <3>3, AddErrorKeeps
    <3>5. QED BY <3>3, <3>4 DEF TakesNothingBack
  <2>4. QED BY <1>6, <2>1, <2>2, <2>3 DEF BunParseHeader
<1>7. CASE RecordUnreadable
  BY <1>1, <1>3, <1>7, RowsType DEF RecordUnreadable
<1>8. CASE ValidateRecord
  <2> DEFINE es(seeks, left) == validate_asset_record(disk, header, rec, i, seeks, left)
  <2>1. \E seeks \in BOOLEAN, left \in Nat : ctx' = add_error(ctx, es(seeks, left))
    <3>1. disk.size \in Nat /\ DataStart(header, rec).out \in Nat /\ rec.data_size \in Nat
      BY <1>1, FieldTypes, StartTypes, WidthAssumption DEF TypeOK, IsFile, offset_t
    <3>2. CASE ScanPayload(DataStart(header, rec).out)
      <4>1. PICK left \in Deliverable(disk, DataStart(header, rec).out, rec.data_size,
                                      "fread" \in Faults) :
              ctx' = add_error(ctx, es(TRUE, left))
        BY <3>2 DEF ScanPayload
      <4>2. left \in Nat
        BY <3>1, DeliverableBound
      <4> HIDE DEF es
      <4>3. QED BY <4>1, <4>2
    <3>3. CASE ctx' = add_error(ctx, es(FALSE, 0))
      <4> HIDE DEF es
      <4>1. QED BY <3>3
    <3>4. QED BY <1>8, <3>2, <3>3 DEF ValidateRecord
  <2>2. PICK seeks \in BOOLEAN, left \in Nat : ctx' = add_error(ctx, es(seeks, left))
    BY <2>1
  <2>3. es(seeks, left) \in Seq(Error)
    BY <1>1, RowsType
  <2> HIDE DEF es
  <2>4. QED BY <1>3, <2>2, <2>3
<1>9. CASE ValidateName
  <2> DEFINE es(seeks, left) == validate_asset_name(disk, header, rec, i, seeks, left)
             from == NameStart(header, rec).out
  <2>1. /\ disk.size \in Nat /\ from \in Nat /\ rec.name_length \in Nat
        /\ i \in Nat /\ disk.header \in BunHeader /\ rec \in BunAssetRecord
        /\ header = disk.header
    BY <1>1, <1>9, FieldTypes, StartTypes, WidthAssumption
    DEF TypeOK, IsFile, offset_t, u32, ParseInvariant, HeaderKnown, InLoop, InBody, ValidateName
  <2>2. \/ ctx' = ctx
        \/ \E seeks \in BOOLEAN, left \in Nat : ctx' = add_error(ctx, es(seeks, left))
    <3>1. CASE ScanName(from)
      <4>1. PICK left \in Deliverable(disk, from, rec.name_length, "fread" \in Faults) :
              ctx' = add_error(ctx, es(TRUE, left))
        BY <3>1 DEF ScanName
      <4>2. left \in Nat
        BY <2>1, DeliverableBound
      <4> HIDE DEF es
      <4>3. QED BY <4>1, <4>2
    <3>2. CASE ctx' = add_error(ctx, es(FALSE, 0))
      <4> HIDE DEF es
      <4>1. QED BY <3>2
    <3>3. QED BY <1>9, <3>1, <3>2 DEF ValidateName
  <2>3. ASSUME NEW seeks \in BOOLEAN, NEW left \in Nat, ctx' = add_error(ctx, es(seeks, left))
        PROVE  TakesNothingBack
    <3>1. es(seeks, left) \in Seq(Error)
      BY <2>1, NameChecks
    <3> HIDE DEF es
    <3>2. QED BY <1>3, <2>3, <3>1
  <2>4. QED BY <1>4, <2>2, <2>3
<1>10. CASE BunClose
  <2>1. ctx' = [ctx EXCEPT !.file = "null"]
    BY <1>10 DEF BunClose
  <2>2. /\ ctx'.errors = ctx.errors /\ ctx'.saw_malformed = ctx.saw_malformed
        /\ ctx'.saw_unsupported = ctx.saw_unsupported
    BY <1>1, <2>1 DEF BunParseContext
  <2>3. QED BY <1>2, <2>2
<1>11. CASE \/ Usage \/ SeekTable \/ ReadRecord \/ PrintName \/ PrintPayload
            \/ Reseek \/ AssetsDone \/ Report
  BY <1>4, <1>11 DEF Usage, SeekTable, ReadRecord, PrintName, PrintPayload, Reseek,
                     AssetsDone, Report
<1>12. QED BY <1>5, <1>6, <1>7, <1>8, <1>9, <1>10, <1>11 DEF Step

\* Flags are set for good and messages only appended, for every width, file,
\* set of failing calls and capacity of the list.
THEOREM NeverTakenBack == Spec => Sticky
<1>1. ParseInvariant /\ [Next]_vars => [TakesNothingBack]_vars
  BY StickyStep DEF Next, Exited
<1>2. QED BY Inductive, <1>1, PTL DEF Spec, Sticky, TakesNothingBack

-----------------------------------------------------------------------------
(* The program implements the safety part of BunVerdict.                    *)

\* The initial states are initial states of BunVerdict.
LEMMA PromiseInit == Init => Promise!AInit
BY DEF Init, Promise!AInit, Promise!NoVerdict, NotExited

\* No step takes back that a call has failed.
LEMMA StaysDisturbed ==
  ASSUME Step, disturbed
  PROVE  disturbed'
<1>1. NoFault => disturbed'
  BY DEF NoFault
<1>2. \A call : Fault(call) => disturbed'
  BY DEF Fault
<1>3. \A p, n : ShortRead(p, n) => disturbed'
  BY <1>1, <1>2 DEF ShortRead
<1>4. \A p, n, left : Delivers(p, n, left) => disturbed'
  BY DEF Delivers
<1>5. \A use, safe, start, n : Snippet(use, safe, start, n) => disturbed'
  BY <1>1, <1>2, <1>3 DEF Snippet
<1>6. CASE Usage
  BY <1>6 DEF Usage
<1>7. CASE BunOpen
  BY <1>1, <1>2, <1>7 DEF BunOpen, Opened, NotOpened
<1>8. CASE BunParseHeader
  BY <1>1, <1>2, <1>3, <1>8 DEF BunParseHeader, TooSmall, HeaderUnreadable, HeaderRead
<1>9. CASE SeekTable \/ Reseek
  BY <1>1, <1>2, <1>9 DEF SeekTable, Reseek
<1>10. CASE ReadRecord \/ RecordUnreadable
  BY <1>1, <1>3, <1>10 DEF ReadRecord, RecordUnreadable
<1>11. CASE PrintName \/ PrintPayload
  BY <1>5, <1>11 DEF PrintName, PrintPayload
<1>12. CASE ValidateRecord
  BY <1>1, <1>2, <1>4, <1>12 DEF ValidateRecord, ScanPayload
<1>13. CASE ValidateName
  BY <1>1, <1>2, <1>4, <1>13 DEF ValidateName, ScanName
<1>14. CASE AssetsDone \/ Report \/ BunClose
  BY <1>1, <1>2, <1>14 DEF AssetsDone, Report, BunClose
<1>15. QED BY <1>6, <1>7, <1>8, <1>9, <1>10, <1>11, <1>12, <1>13, <1>14 DEF Step

\* Every step is a step of BunVerdict or changes none of its variables.
LEMMA PromiseStep ==
  ASSUME ParseInvariant, ParseInvariant', ExactInvariant, Step
  PROVE  Promise!ANext \/ UNCHANGED Promise!aVars
<1>1. /\ disturbed \in BOOLEAN /\ disturbed' \in BOOLEAN /\ (disturbed => disturbed')
  BY StaysDisturbed DEF ParseInvariant, TypeOK
<1>2. UNCHANGED <<args, disk>>
  BY DEF Step, Usage, BunOpen, BunParseHeader, SeekTable, ReadRecord, RecordUnreadable,
         PrintName, PrintPayload, ValidateRecord, ValidateName, Reseek, AssetsDone,
         Report, BunClose
<1>3. CASE Usage
  <2>1. /\ exit = NotExited /\ args # 2 /\ exit' = BUN_ERR_USAGE
        /\ disturbed' = disturbed
    BY <1>3 DEF Usage, ParseInvariant, Fresh
  <2>2. exit = Promise!NoVerdict /\ exit' = Promise!BUN_ERR_USAGE
    BY <2>1 DEF Promise!NoVerdict, NotExited, Promise!BUN_ERR_USAGE, BUN_ERR_USAGE
  <2>3. Promise!Misuse
    BY <1>2, <2>1, <2>2 DEF Promise!Misuse
  <2>4. QED BY <2>3 DEF Promise!ANext
<1>4. CASE NotOpened /\ BunOpen
  <2>1. /\ exit = NotExited /\ args = 2 /\ exit' = BUN_ERR_IO /\ disturbed' = TRUE
    BY <1>4 DEF NotOpened, BunOpen, Fault, ParseInvariant, Fresh
  <2>2. exit' \in Promise!Allowed(disk, TRUE)
    BY <2>1, AllowedIs
  <2>3. exit = Promise!NoVerdict
    BY <2>1 DEF Promise!NoVerdict, NotExited
  <2>4. Promise!Fail
    BY <1>2, <2>1, <2>2, <2>3 DEF Promise!Fail
  <2>5. QED BY <2>4 DEF Promise!ANext
<1>5. CASE BunClose
  <2>1. /\ exit = NotExited /\ args = 2
        /\ exit' \in Promise!Allowed(disk, disturbed')
        /\ disturbed' = disturbed \/ disturbed' = TRUE
    BY <1>5, CloseAnswers DEF BunClose, ParseInvariant, Fresh, ExactInvariant
  <2>2. exit = Promise!NoVerdict
    BY <2>1 DEF Promise!NoVerdict, NotExited
  <2>3. CASE disturbed' = disturbed
    <3>1. exit' \in Promise!Allowed(disk, disturbed)
      BY <2>1, <2>3
    <3>2. Promise!Decide
      BY <1>2, <2>1, <2>2, <2>3, <3>1 DEF Promise!Decide
    <3>3. QED BY <3>2 DEF Promise!ANext
  <2>4. CASE disturbed' = TRUE
    <3>1. exit' \in Promise!Allowed(disk, TRUE)
      BY <2>1, <2>4
    <3>2. Promise!Fail
      BY <1>2, <2>1, <2>2, <2>4, <3>1 DEF Promise!Fail
    <3>3. QED BY <3>2 DEF Promise!ANext
  <2>5. QED BY <2>1, <2>3, <2>4
\* Any other step decides nothing, though a call may fail in it.
<1>6. CASE /\ exit' = exit
           /\ disturbed' = disturbed \/ (args = 2 /\ exit = NotExited)
  <2>1. CASE disturbed' = disturbed
    BY <1>2, <1>6, <2>1 DEF Promise!aVars
  <2>2. CASE disturbed' # disturbed
    <3>1. args = 2 /\ exit = Promise!NoVerdict /\ exit' = Promise!NoVerdict
      BY <1>6, <2>2 DEF Promise!NoVerdict, NotExited
    <3>2. disturbed' = TRUE
      BY <1>1, <2>2
    <3>3. Promise!Fail
      BY <1>2, <3>1, <3>2 DEF Promise!Fail
    <3>4. QED BY <3>3 DEF Promise!ANext
  <2>3. QED BY <2>1, <2>2
<1>7. CASE BunOpen /\ Opened
  BY <1>6, <1>7 DEF Opened, NoFault
<1>8. CASE \/ BunParseHeader \/ SeekTable \/ ReadRecord \/ RecordUnreadable
           \/ PrintName \/ PrintPayload \/ ValidateRecord \/ ValidateName
           \/ Reseek \/ AssetsDone \/ Report
  <2>1. exit' = exit /\ pc \notin {"start", "done"}
    BY <1>8 DEF BunParseHeader, SeekTable, ReadRecord, RecordUnreadable, PrintName,
                PrintPayload, ValidateRecord, ValidateName, Reseek, AssetsDone,
                Report, Return
  <2>2. args = 2 /\ exit = NotExited
    BY <2>1 DEF ExactInvariant, ParseInvariant, Fresh
  <2>3. QED BY <1>6, <2>1, <2>2
<1>9. QED BY <1>3, <1>4, <1>5, <1>7, <1>8 DEF Step, BunOpen

\* main implements the safety part of BunVerdict: one answer, never changed,
\* and the file's class unless a stdio call failed before it. That the answer
\* comes is PromiseKept's liveness, which TLC checks.
THEOREM KeepsPromise == Spec => Promise!ASafe
<1>1. ParseInvariant /\ ParseInvariant' /\ ExactInvariant /\ [Next]_vars
        => [Promise!ANext]_(Promise!aVars)
  <2> SUFFICES ASSUME ParseInvariant, ParseInvariant', ExactInvariant, [Next]_vars
               PROVE  Promise!ANext \/ UNCHANGED Promise!aVars
    OBVIOUS
  <2>1. UNCHANGED vars => UNCHANGED Promise!aVars
    BY DEF vars, Promise!aVars
  <2>2. QED BY <2>1, PromiseStep DEF Next, Exited
<1>2. QED BY Inductive, ExactInductive, PromiseInit, <1>1, PTL DEF Spec, Promise!ASafe

=============================================================================
