------------------------- MODULE BunMessages_proofs -------------------------
(* The messages of a run. The record loop of BunParse, with four functions   *)
(* moving its stream, leaves the context the two functions of BunCalls make  *)
(* of the file at once (ComposedTheorem); each message of it is true of the  *)
(* file, and a list with room to spare misses none (MessagesInductive).      *)
EXTENDS BunComposed, BunParse_proofs

-----------------------------------------------------------------------------
(* The checks make the same messages in BunParse, which asks for what is     *)
(* wanted, and in BunCalls, which is given what is there.                   *)

\* More bytes than are wanted change nothing.
LEMMA WholeSame ==
  ASSUME NEW n \in Nat, NEW all \in Nat
  PROVE  WholeChunks(n, AtMost(n, all)) = WholeChunks(n, all)
BY DEF WholeChunks, AtMost

\* So validate_asset_record with all that is there reports what it does with
\* all that it wants;
LEMMA RecordWhole ==
  ASSUME NEW f, NEW h, NEW r, NEW k, r.data_size \in Nat, NEW all \in Nat
  PROVE  validate_asset_record(f, h, r, k, TRUE, AtMost(r.data_size, all))
           = validate_asset_record(f, h, r, k, TRUE, all)
<1> DEFINE left == AtMost(r.data_size, all)
<1>1. WholeChunks(r.data_size, left) = WholeChunks(r.data_size, all)
  BY WholeSame
<1> HIDE DEF left
<1>2. \A from, d : RleVerdict(f, from, r.data_size, left, d)
                     = RleVerdict(f, from, r.data_size, all, d)
  BY <1>1, Zenon DEF RleVerdict
<1>3. \A from, d : RleErrors(f, from, r.data_size, left, d, k)
                     = RleErrors(f, from, r.data_size, all, d, k)
  BY <1>2, Zenon DEF RleErrors
<1>4. validate_compression(f, h, r, k, TRUE, left) = validate_compression(f, h, r, k, TRUE, all)
  BY <1>3, Zenon DEF validate_compression
<1>5. QED BY <1>4, Zenon DEF validate_asset_record, left

\* where it reads no payload the stream does not matter;
LEMMA RecordUnscanned ==
  ASSUME NEW f, NEW h, NEW r, NEW k, NEW left, ~ScansPayload(h, r)
  PROVE  validate_asset_record(f, h, r, k, TRUE, left)
           = validate_asset_record(f, h, r, k, FALSE, 0)
<1>1. validate_compression(f, h, r, k, TRUE, left) = validate_compression(f, h, r, k, FALSE, 0)
  <2>1. CASE r.compression = BUN_COMPRESSION_RLE
    <3>1. \/ r.data_size % 2 # 0
          \/ ~DataStart(h, r).ok
          \/ ~Seekable(DataStart(h, r).out)
      BY <2>1 DEF ScansPayload
    <3>2. QED BY <3>1, Zenon DEF validate_compression
  <2>2. CASE r.compression # BUN_COMPRESSION_RLE
    <3> DEFINE v(seeks, n) == validate_compression(f, h, r, k, seeks, n)
    <3>1. \A seeks, n : v(seeks, n) =
            CASE r.compression = BUN_COMPRESSION_NONE ->
                   Check(r.uncompressed_size # 0, BUN_MALFORMED, "uncompressed size", <<k>>)
              [] r.compression = BUN_COMPRESSION_ZLIB ->
                   Check(TRUE, BUN_UNSUPPORTED, "zlib", <<k>>)
              [] OTHER -> Check(TRUE, BUN_UNSUPPORTED, "unknown compression", <<k>>)
      BY <2>2 DEF validate_compression
    <3> HIDE DEF v
    <3>2. v(TRUE, left) = v(FALSE, 0)
      BY <3>1
    <3>3. QED BY <3>2 DEF v
  <2>3. QED BY <2>1, <2>2
<1>2. QED BY <1>1, Zenon DEF validate_asset_record

\* and the same of validate_asset_name.
LEMMA NameWhole ==
  ASSUME NEW f, NEW h, NEW r, NEW k, r.name_length \in Nat, NEW all \in Nat
  PROVE  validate_asset_name(f, h, r, k, TRUE, AtMost(r.name_length, all))
           = validate_asset_name(f, h, r, k, TRUE, all)
<1> DEFINE n == r.name_length
           left == AtMost(n, all)
<1>1. /\ (left < n) <=> (all < n)
      /\ \A q \in 0 .. n - 1 : q < left <=> q < all
  BY DEF AtMost
<1> HIDE DEF left
<1>2. \A from : BadChars(f, from, n, left) = BadChars(f, from, n, all)
  BY <1>1 DEF BadChars
<1>3. \A b, c, w, p : Check(left < n, b, w, p) = Check(all < n, b, w, p)
  BY <1>1, Zenon DEF Check
<1>4. QED BY <1>2, <1>3, Zenon DEF validate_asset_name, left, n

-----------------------------------------------------------------------------
(* The outcomes of the loop, from each record on.                           *)

\* Rows are put together from either end.
LEMMA Associates ==
  ASSUME NEW s \in Seq(Error), NEW t \in Seq(Error), NEW u \in Seq(Error)
  PROVE  (s \o t) \o u = s \o (t \o u)
BY ConcatAssociative

\* They are messages.
LEMMA FromType ==
  ASSUME NEW f, IsFile(f), NEW k \in 0 .. f.header.asset_count
  PROVE  LoopFrom(f, f.header, NoFailures, k).es \in Seq(Error)
<1>1. f.header \in BunHeader /\ IsStops(NoFailures)
  BY DEF IsFile, IsStops, NoFailures
<1>2. PICK g : /\ Loops(f, f.header, NoFailures, 0, g)
               /\ \A j : LoopFrom(f, f.header, NoFailures, j) = g[j]
  BY <1>1, LoopIs
<1>3. IsOutcome(g[k])
  BY <1>1, <1>2, LoopsSay
<1>4. QED BY <1>2, <1>3 DEF IsOutcome

\* Under a good header the messages from record k on are those of record k and
\* then those from the next one on.
LEMMA FromNext ==
  ASSUME NEW f, IsFile(f), ~HeaderMalformed(f), NEW k \in Nat, k < f.header.asset_count
  PROVE  LoopFrom(f, f.header, NoFailures, k).es
           = RecordMessages(f, f.header, Entry(f, k), k, NoFailures)
               \o LoopFrom(f, f.header, NoFailures, k + 1).es
<1> DEFINE h == f.header
           c == h.asset_count
<1>1. h \in BunHeader /\ c \in Nat
  BY DEF IsFile, BunHeader, u32
<1>2. PICK g : /\ Loops(f, h, NoFailures, 0, g)
               /\ \A j : LoopFrom(f, h, NoFailures, j) = g[j]
  BY <1>1, LoopIs
<1>3. k \in 0 .. c /\ k # c /\ k <= c
  <2>1. k < c
    OBVIOUS
  <2> HIDE DEF c
  <2>2. QED BY <1>1, <2>1
<1>4. g[k] = Turn(f, h, k, NoFailures, g[k + 1])
  BY <1>2, <1>3 DEF Loops
<1>5. Reached(h, k, NoFailures) /\ ReadWhole(f, h, k, NoFailures)
  BY <1>3, SlotReach
<1>6. RecordAt(f, Slot(h, k).out) = Entry(f, k)
  BY <1>3, <1>5, SlotEntry DEF Reached
<1>7. g[k] = [io |-> g[k + 1].io,
              es |-> RecordMessages(f, h, Entry(f, k), k, NoFailures) \o g[k + 1].es]
  BY <1>3, <1>4, <1>5, <1>6, Zenon DEF Turn
<1>8. g[k].es = RecordMessages(f, h, Entry(f, k), k, NoFailures) \o g[k + 1].es
  <2> DEFINE all == RecordMessages(f, h, Entry(f, k), k, NoFailures) \o g[k + 1].es
  <2>1. g[k] = [io |-> g[k + 1].io, es |-> all]
    BY <1>7, Zenon
  <2> HIDE DEF all
  <2>2. g[k].es = all
    BY <2>1
  <2>3. QED BY <2>2 DEF all
<1>9. LoopFrom(f, h, NoFailures, k) = g[k] /\ LoopFrom(f, h, NoFailures, k + 1) = g[k + 1]
  BY <1>2
<1>10. QED BY <1>8, <1>9, Zenon

\* After the last record nothing is said.
LEMMA FromEnd ==
  ASSUME NEW f, IsFile(f), ~HeaderMalformed(f)
  PROVE  LoopFrom(f, f.header, NoFailures, f.header.asset_count).es = <<>>
<1> DEFINE h == f.header
           c == h.asset_count
<1>1. h \in BunHeader /\ c \in Nat
  BY DEF IsFile, BunHeader, u32
<1>2. PICK g : /\ Loops(f, h, NoFailures, 0, g)
               /\ \A j : LoopFrom(f, h, NoFailures, j) = g[j]
  BY <1>1, LoopIs
<1>3. c \in 0 .. c /\ c <= c
  <2> HIDE DEF c
  <2>1. QED BY <1>1
<1>4. g[c] = Turn(f, h, c, NoFailures, g[c + 1])
  BY <1>2, <1>3 DEF Loops
<1>5. Reached(h, c, NoFailures)
  BY <1>1, <1>3, SlotReach
<1>6. g[c] = [io |-> FALSE, es |-> <<>>]
  BY <1>4, <1>5, Zenon DEF Turn
<1>7. QED BY <1>2, <1>6

-----------------------------------------------------------------------------
(* Every action keeps ComposedInvariant. ParseInvariant and ExactInvariant   *)
(* are known before and after.                                              *)

\* What the two functions answer depends on the file alone.
LEMMA SameAnswers ==
  ASSUME disk' = disk
  PROVE  /\ OpenedContext' = OpenedContext
         /\ HeaderAnswer' = HeaderAnswer /\ AssetsAnswer' = AssetsAnswer
<1>1. OpenedContext' = OpenedContext
  BY DEF OpenedContext
<1>2. HeaderAnswer' = HeaderAnswer
  BY <1>1 DEF HeaderAnswer
<1>3. QED BY <1>1, <1>2 DEF AssetsAnswer

\* Outside the calls only the answer counts, when no call has failed.
LEMMA AnswerCounts ==
  ASSUME pc' \in {"report", "close", "done"},
         pc' = "report" /\ ~disturbed' => Composed'
  PROVE  ComposedInvariant'
<1>1. Composed'
  BY DEF Composed
<1>2. pc' \notin {"header", "table"} /\ ~InLoop'
  BY DEF InLoop, InBody
<1>3. QED BY <1>1, <1>2 DEF ComposedInvariant

\* In the loop what is still to come must make up for what was done.
LEMMA StillMakes ==
  ASSUME ComposedInvariant, InLoop, InLoop', UNCHANGED <<disk, header>>,
         disturbed => disturbed',
         ~disturbed' => add_error(ctx', Ahead') = add_error(ctx, Ahead)
  PROVE  ComposedInvariant'
<1>1. pc' \notin {"header", "table", "report"}
  BY DEF InLoop, InBody
<1>2. Composed'
  BY <1>1 DEF Composed
<1>3. HeaderAnswer'.result = BUN_OK /\ header' = HeaderAnswer'.header
  BY SameAnswers DEF ComposedInvariant
<1>4. ~disturbed' => add_error(ctx', Ahead') = AssetsAnswer'.ctx
  BY SameAnswers DEF ComposedInvariant
<1>5. QED BY <1>1, <1>2, <1>3, <1>4 DEF ComposedInvariant

\* BUN_ERR_IO is the answer of a failed call alone.
LEMMA FailedCall ==
  ASSUME ParseInvariant', ExactInvariant', pc' = "report", result' = BUN_ERR_IO
  PROVE  disturbed'
<1>1. result' \in Promise!Allowed(disk', disturbed') /\ disturbed' \in BOOLEAN
  BY DEF ParseInvariant, TypeOK, ExactInvariant, Answered
<1>2. result' = Classify(disk') \/ disturbed'
  BY <1>1, AllowedIs
<1>3. Classify(disk') \in {BUN_OK, BUN_MALFORMED, BUN_UNSUPPORTED}
  BY DEF Classify
<1>4. QED BY <1>2, <1>3, CodesApart

\* A step in the body that leaves the context and the loop variable alone, and
\* nothing to be said in between.
LEMMA SaysNothing ==
  ASSUME ComposedInvariant, InLoop, UNCHANGED <<disk, ctx, header, i>>,
         pc \notin {"chars", "reseek"}, pc' \in {"name", "payload", "validate"},
         disturbed => disturbed'
  PROVE  ComposedInvariant'
<1>1. Ahead = LoopFrom(disk, header, NoFailures, i).es
  BY DEF Ahead
<1>2. Ahead' = LoopFrom(disk, header, NoFailures, i).es
  BY DEF Ahead
<1>3. QED BY <1>1, <1>2, StillMakes DEF InLoop, InBody

\* bun_open leaves its context for a file of that size.
LEMMA BunOpenComposed ==
  ASSUME ComposedInvariant, BunOpen
  PROVE  ComposedInvariant'
<1>1. disk' = disk
  BY DEF BunOpen
<1>2. CASE Opened
  <2>1. pc' = "header" /\ ctx' = OpenedContext
    BY <1>2 DEF Opened, Goto, OpenedContext
  <2>2. ctx' = OpenedContext'
    BY <1>1, <2>1, SameAnswers
  <2>3. QED BY <2>1, <2>2 DEF ComposedInvariant, Composed, InLoop, InBody
<1>3. CASE NotOpened
  BY <1>3, AnswerCounts DEF NotOpened, Goto
<1>4. QED BY <1>2, <1>3 DEF BunOpen

\* bun_parse_header is parse_header, unless its read fails.
LEMMA BunParseHeaderComposed ==
  ASSUME ParseInvariant', ExactInvariant', ComposedInvariant, BunParseHeader
  PROVE  ComposedInvariant'
<1> DEFINE c == OpenedContext
<1>1. /\ disk' = disk /\ ctx = c /\ c.file_size = disk.size
      /\ pc' = (IF result' = BUN_OK THEN "table" ELSE "report")
      /\ TooSmall \/ HeaderUnreadable \/ HeaderRead
  BY DEF BunParseHeader, ComposedInvariant, Goto, OpenedContext, ZeroContext
<1>2. CASE result' = BUN_ERR_IO
  <2>1. pc' = "report"
    BY <1>1, <1>2, CodesApart
  <2>2. QED BY <1>2, <2>1, FailedCall, AnswerCounts
<1>3. CASE /\ ctx' = HeaderAnswer.ctx /\ result' = HeaderAnswer.result
           /\ header' = HeaderAnswer.header
  <2>1. /\ ctx' = HeaderAnswer'.ctx /\ result' = HeaderAnswer'.result
        /\ header' = HeaderAnswer'.header
    BY <1>1, <1>3, SameAnswers
  <2>2. CASE result' = BUN_OK
    <3>1. pc' = "table"
      BY <1>1, <2>2
    <3>2. QED BY <2>1, <2>2, <3>1 DEF ComposedInvariant, Composed, InLoop, InBody
  <2>3. CASE result' # BUN_OK
    <3>1. Composed'
      BY <2>1, <2>3 DEF Composed
    <3>2. QED BY <1>1, <2>3, <3>1, AnswerCounts
  <2>4. QED BY <2>2, <2>3
<1>4. CASE TooSmall
  <2>1. disk.size < BUN_HEADER_SIZE
    BY <1>1, <1>4 DEF TooSmall
  <2>2. [c EXCEPT !.header_loaded = FALSE] = c
    <3>1. \A S, d : d \in ContextOf(S) /\ d.header_loaded = FALSE
                     => [d EXCEPT !.header_loaded = FALSE] = d
      BY DEF ContextOf
    <3>2. c.header_loaded = FALSE
      BY DEF OpenedContext, ZeroContext
    <3>3. c \in ContextOf({"open"})
      <4>1. disk.size \in offset_t
        BY <1>1 DEF ParseInvariant, TypeOK, IsFile
      <4>2. ZeroContext \in ContextOf({"null"})
        BY WidthAssumption DEF ZeroContext, ContextOf, offset_t
      <4>3. QED BY <4>1, <4>2 DEF OpenedContext, ContextOf
    <3> HIDE DEF c
    <3>4. QED BY <3>1, <3>2, <3>3
  <2>3. HeaderAnswer =
          LET d == add_error(c, Check(TRUE, BUN_MALFORMED, "file too small", <<>>))
          IN  [result |-> bun_context_result(d), ctx |-> d, header |-> ZeroHeader]
    BY <1>1, <2>1, <2>2 DEF HeaderAnswer, parse_header
  <2>4. QED BY <1>1, <1>3, <1>4, <2>3 DEF TooSmall
<1>5. CASE HeaderUnreadable
  BY <1>2, <1>5 DEF HeaderUnreadable
<1>6. CASE HeaderRead
  <2>1. ~(disk.size < BUN_HEADER_SIZE)
    <3>1. disk.size \in Nat /\ BUN_HEADER_SIZE \in Nat
      BY <1>1, WidthAssumption DEF ParseInvariant, TypeOK, IsFile, offset_t
    <3>2. QED BY <1>1, <1>6, <3>1 DEF HeaderRead
  <2>2. HeaderAnswer =
          LET d == add_error([c EXCEPT !.header_loaded = TRUE],
                     validate_header_basic(disk.header)
                       \o validate_header_offsets(disk.header, disk.size))
          IN  [result |-> bun_context_result(d), ctx |-> d, header |-> disk.header]
    BY <1>1, <2>1 DEF HeaderAnswer, parse_header
  <2>3. QED BY <1>1, <1>3, <1>6, <2>2 DEF HeaderRead
<1>7. QED BY <1>1, <1>4, <1>5, <1>6

\* The loop starts with everything ahead.
LEMMA SeekTableComposed ==
  ASSUME ParseInvariant', ExactInvariant', ComposedInvariant, SeekTable
  PROVE  ComposedInvariant'
<1>1. /\ pc = "table" /\ i' = 0 /\ UNCHANGED <<disk, ctx, header>>
      /\ \/ pc' = "record"
         \/ pc' = "report" /\ result' = BUN_ERR_IO
  BY DEF SeekTable, Goto, Return
<1>2. /\ ctx = HeaderAnswer.ctx /\ HeaderAnswer.result = BUN_OK
      /\ header = HeaderAnswer.header
  BY <1>1 DEF ComposedInvariant
<1>3. CASE pc' = "record"
  <2>1. Ahead' = AssetLoop(disk, header, NoFailures).es
    BY <1>1, <1>3 DEF Ahead, AssetLoop
  <2>2. AssetsAnswer.ctx
          = add_error(HeaderAnswer.ctx, AssetLoop(disk, HeaderAnswer.header, NoFailures).es)
    BY DEF AssetsAnswer, parse_assets
  <2>3. add_error(ctx', Ahead') = AssetsAnswer'.ctx
    BY <1>1, <1>2, <2>1, <2>2, SameAnswers
  <2>4. HeaderAnswer'.result = BUN_OK /\ header' = HeaderAnswer'.header
    BY <1>1, <1>2, SameAnswers
  <2>5. QED BY <1>3, <2>3, <2>4 DEF ComposedInvariant, Composed
<1>4. CASE pc' = "report" /\ result' = BUN_ERR_IO
  BY <1>4, FailedCall, AnswerCounts
<1>5. QED BY <1>1, <1>3, <1>4

\* A record of a good table is unreadable only by a failed call.
LEMMA RecordUnreadableComposed ==
  ASSUME ParseInvariant, ExactInvariant, RecordUnreadable
  PROVE  ComposedInvariant'
<1>1. disturbed' = TRUE
  BY UnreadableIsFault
<1>2. pc' = "report"
  BY DEF RecordUnreadable, Return, Goto
<1>3. QED BY <1>1, <1>2, AnswerCounts

\* Reading and showing a record leave everything about it to be said.
LEMMA ReadRecordComposed ==
  ASSUME ComposedInvariant, ReadRecord
  PROVE  ComposedInvariant'
BY SaysNothing DEF ReadRecord, Goto, InLoop, NoFault

\* So do showing its name and showing its payload.
LEMMA PrintersComposed ==
  ASSUME ComposedInvariant, PrintName \/ PrintPayload
  PROVE  ComposedInvariant'
<1>1. disturbed => disturbed'
  BY StaysDisturbed DEF Step
<1>2. /\ pc \in {"name", "payload"} /\ pc' \in {"payload", "validate"}
      /\ UNCHANGED <<disk, ctx, header, i>>
  BY DEF PrintName, PrintPayload, Goto
<1>3. QED BY <1>1, <1>2, SaysNothing DEF InLoop, InBody

\* What is known of the record in hand.
LEMMA InHand ==
  ASSUME ParseInvariant, ExactInvariant, InBody
  PROVE  /\ IsFile(disk) /\ header = disk.header /\ header \in BunHeader
         /\ ~HeaderMalformed(disk) /\ ctx \in BunParseContext
         /\ rec \in BunAssetRecord /\ rec = Entry(disk, i)
         /\ i \in Nat /\ i < header.asset_count /\ header.asset_count \in Nat
         /\ i + 1 \in 0 .. header.asset_count
         /\ LoopFrom(disk, header, NoFailures, i + 1).es \in Seq(Error)
<1>1. InLoop
  BY DEF InLoop
<1>2. /\ IsFile(disk) /\ header = disk.header /\ header \in BunHeader
      /\ ~HeaderMalformed(disk) /\ rec \in BunAssetRecord
      /\ i \in Nat /\ header.asset_count \in Nat
  BY <1>1, InTheLoop
<1>3. ctx \in BunParseContext /\ i < header.asset_count /\ rec = Entry(disk, i)
  BY DEF ParseInvariant, TypeOK, Counting
<1>4. i + 1 \in 0 .. header.asset_count
  BY <1>2, <1>3
<1>5. LoopFrom(disk, header, NoFailures, i + 1).es \in Seq(Error)
  BY <1>2, <1>4, FromType
<1>6. QED BY <1>2, <1>3, <1>4, <1>5

\* The messages of the two checks of the record in hand, when no call fails:
\* what validate_asset_record says, what validate_asset_name says, and the rest.
Own == validate_asset_record(disk, header, rec, i, TRUE,
         Available(disk, DataStart(header, rec).out))
Names == IF name_range_safe(header, rec)
           THEN validate_asset_name(disk, header, rec, i, TRUE,
                  Available(disk, NameStart(header, rec).out))
           ELSE <<>>
Later == LoopFrom(disk, header, NoFailures, i + 1).es

\* They are rows of messages, and together what the loop says from record i on.
LEMMA FromHand ==
  ASSUME ParseInvariant, ExactInvariant, InBody
  PROVE  /\ Own \in Seq(Error) /\ Names \in Seq(Error) /\ Later \in Seq(Error)
         /\ LoopFrom(disk, header, NoFailures, i).es = Own \o (Names \o Later)
<1> DEFINE d == Available(disk, DataStart(header, rec).out)
           n == Available(disk, NameStart(header, rec).out)
<1>1. /\ IsFile(disk) /\ header = disk.header /\ header \in BunHeader
      /\ ~HeaderMalformed(disk) /\ rec \in BunAssetRecord /\ rec = Entry(disk, i)
      /\ i \in Nat /\ i < header.asset_count /\ Later \in Seq(Error)
  BY InHand DEF Later
<1>2. /\ d \in Nat /\ n \in Nat
      /\ RecordMessages(disk, header, rec, i, NoFailures)
           = Row(disk, header, rec, i, TRUE, d, TRUE, n)
  BY <1>1, MessagesAll
<1>3. Row(disk, header, rec, i, TRUE, d, TRUE, n) = Own \o Names
  BY Zenon DEF Row, Own, Names
<1>4. Own \in Seq(Error)
  BY <1>1, <1>2, RecordChecks DEF Own
<1>5. validate_asset_name(disk, header, rec, i, TRUE, n) \in Seq(Error)
  BY <1>1, <1>2, NameChecks
<1>6. Names \in Seq(Error)
  <2>1. CASE name_range_safe(header, rec)
    BY <1>5, <2>1 DEF Names
  <2>2. CASE ~name_range_safe(header, rec)
    <3>1. Names = <<>>
      BY <2>2 DEF Names
    <3>2. QED BY <3>1
  <2>3. QED BY <2>1, <2>2
<1>7. LoopFrom(disk, header, NoFailures, i).es
        = RecordMessages(disk, header, rec, i, NoFailures) \o Later
  BY <1>1, FromNext DEF Later
<1>8. LoopFrom(disk, header, NoFailures, i).es = (Own \o Names) \o Later
  BY <1>2, <1>3, <1>7, Zenon
<1>9. (Own \o Names) \o Later = Own \o (Names \o Later)
  BY <1>1, <1>4, <1>6, Associates
<1>10. QED BY <1>1, <1>4, <1>6, <1>8, <1>9, Zenon

\* What a read delivers, when no call has failed, is all that is wanted and
\* there.
LEMMA DeliversAll ==
  ASSUME NEW p \in Nat, NEW n \in Nat, disk.size \in Nat,
         NEW left \in Deliverable(disk, p, n, "fread" \in Faults),
         Delivers(p, n, left), ~disturbed'
  PROVE  left = AtMost(n, Available(disk, p))
<1> DEFINE all == AtMost(n, Available(disk, p))
<1>1. ~(left < all)
  BY Zenon DEF Delivers
<1>2. left \in Nat /\ left <= all
  BY DeliverableBound
<1>3. all \in Nat
  BY DEF AtMost, Available
<1> HIDE DEF all
<1>4. left = all
  BY <1>1, <1>2, <1>3
<1>5. QED BY <1>4 DEF all

\* validate_asset_record adds the messages that were to come from it.
LEMMA ValidateRecordComposed ==
  ASSUME ParseInvariant, ExactInvariant, ComposedInvariant, ValidateRecord
  PROVE  ComposedInvariant'
<1> DEFINE from == DataStart(header, rec).out
           n == rec.data_size
<1>1. /\ pc = "validate" /\ pc' = "chars" /\ UNCHANGED <<disk, header, i, rec>>
  BY DEF ValidateRecord, Goto
<1>2. InBody /\ InLoop /\ InLoop'
  BY <1>1 DEF InLoop, InBody
<1>3. disturbed => disturbed'
  BY StaysDisturbed DEF Step
<1>4. /\ header \in BunHeader /\ rec \in BunAssetRecord /\ ctx \in BunParseContext
      /\ disk.size \in Nat
  BY <1>2, InHand, WidthAssumption DEF IsFile, offset_t
<1>5. n \in Nat /\ from \in Nat /\ Available(disk, from) \in Nat
  <2>1. n \in Nat /\ from \in Nat
    BY <1>4, FieldTypes, StartTypes
  <2>2. QED BY <1>4, <2>1 DEF Available
<1>6. ASSUME ~disturbed' PROVE ctx' = add_error(ctx, Own)
  <2>1. CASE ScanPayload(from)
    <3>1. PICK left \in Deliverable(disk, from, n, "fread" \in Faults) :
            /\ Delivers(from, n, left)
            /\ ctx' = add_error(ctx, validate_asset_record(disk, header, rec, i, TRUE, left))
      BY <2>1 DEF ScanPayload
    <3>2. left = AtMost(n, Available(disk, from))
      BY <1>4, <1>5, <1>6, <3>1, DeliversAll
    <3>3. validate_asset_record(disk, header, rec, i, TRUE, AtMost(n, Available(disk, from)))
            = Own
      BY <1>5, RecordWhole DEF Own
    <3>4. QED BY <3>1, <3>2, <3>3, Zenon
  <2>2. CASE /\ ~ScansPayload(header, rec)
             /\ ctx' = add_error(ctx, validate_asset_record(disk, header, rec, i, FALSE, 0))
    <3>1. validate_asset_record(disk, header, rec, i, FALSE, 0) = Own
      BY <2>2, RecordUnscanned DEF Own
    <3>2. QED BY <2>2, <3>1, Zenon
  <2>3. QED BY <1>6, <2>1, <2>2 DEF ValidateRecord, Fault
<1>7. /\ Own \in Seq(Error) /\ Names \in Seq(Error) /\ Later \in Seq(Error)
      /\ Ahead = Own \o (Names \o Later)
  BY <1>1, <1>2, FromHand DEF Ahead
<1>8. Ahead' = Names \o Later
  BY <1>1 DEF Ahead, Names, Later
<1>9. Names \o Later \in Seq(Error)
  BY <1>7, ConcatType
<1>10. add_error(add_error(ctx, Own), Names \o Later) = add_error(ctx, Own \o (Names \o Later))
  BY <1>4, <1>7, <1>9, add_error_composes
<1>11. ~disturbed' => add_error(ctx', Ahead') = add_error(ctx, Ahead)
  BY <1>6, <1>7, <1>8, <1>10, Zenon
<1>12. QED BY <1>1, <1>2, <1>3, <1>11, StillMakes

\* So does validate_asset_name.
LEMMA ValidateNameComposed ==
  ASSUME ParseInvariant, ExactInvariant, ComposedInvariant, ValidateName
  PROVE  ComposedInvariant'
<1> DEFINE from == NameStart(header, rec).out
           n == rec.name_length
<1>1. /\ pc = "chars" /\ pc' = "reseek" /\ UNCHANGED <<disk, header, i, rec>>
  BY DEF ValidateName, Goto
<1>2. InBody /\ InLoop /\ InLoop'
  BY <1>1 DEF InLoop, InBody
<1>3. disturbed => disturbed'
  BY StaysDisturbed DEF Step
<1>4. /\ IsFile(disk) /\ header = disk.header /\ ~HeaderMalformed(disk)
      /\ header \in BunHeader /\ rec \in BunAssetRecord /\ ctx \in BunParseContext
      /\ disk.size \in Nat
  BY <1>2, InHand, WidthAssumption DEF IsFile, offset_t
<1>5. n \in Nat /\ from \in Nat /\ Available(disk, from) \in Nat
  <2>1. n \in Nat /\ from \in Nat
    BY <1>4, FieldTypes, StartTypes
  <2>2. QED BY <1>4, <2>1 DEF Available
<1>6. Own \in Seq(Error) /\ Names \in Seq(Error) /\ Later \in Seq(Error)
  BY <1>2, FromHand
<1>7. Ahead = Names \o Later /\ Ahead' = Later
  BY <1>1 DEF Ahead, Names, Later
<1>8. CASE ~name_range_safe(header, rec) /\ ctx' = ctx
  <2>1. Names = <<>>
    BY <1>8 DEF Names
  <2>2. Names \o Later = Later
    BY <1>6, <2>1
  <2>3. add_error(ctx', Ahead') = add_error(ctx, Ahead)
    BY <1>7, <1>8, <2>2, Zenon
  <2>4. QED BY <1>1, <1>2, <1>3, <2>3, StillMakes
<1>9. CASE name_range_safe(header, rec)
  <2>1. NameReachable
    <3>1. NameInside(disk.header, rec)
      BY <1>4, <1>9, RangesExact
    <3>2. QED BY <1>4, <3>1, NameReach DEF NameReachable
  <2>2. ASSUME ~disturbed' PROVE ctx' = add_error(ctx, Names)
    <3>1. ScanName(from)
      BY <1>9, <2>1, <2>2 DEF ValidateName, Fault
    <3>2. PICK left \in Deliverable(disk, from, n, "fread" \in Faults) :
            /\ Delivers(from, n, left)
            /\ ctx' = add_error(ctx, validate_asset_name(disk, header, rec, i, TRUE, left))
      BY <3>1 DEF ScanName
    <3>3. left = AtMost(n, Available(disk, from))
      BY <1>4, <1>5, <2>2, <3>2, DeliversAll
    <3>4. validate_asset_name(disk, header, rec, i, TRUE, AtMost(n, Available(disk, from)))
            = Names
      BY <1>5, <1>9, NameWhole DEF Names
    <3>5. QED BY <3>2, <3>3, <3>4, Zenon
  <2>3. add_error(add_error(ctx, Names), Later) = add_error(ctx, Names \o Later)
    BY <1>4, <1>6, add_error_composes
  <2>4. ~disturbed' => add_error(ctx', Ahead') = add_error(ctx, Ahead)
    BY <1>7, <2>2, <2>3, Zenon
  <2>5. QED BY <1>1, <1>2, <1>3, <2>4, StillMakes
<1>10. QED BY <1>8, <1>9 DEF ValidateName

\* The seek to the next record leaves the next records to come.
LEMMA ReseekComposed ==
  ASSUME ParseInvariant', ExactInvariant', ComposedInvariant, Reseek
  PROVE  ComposedInvariant'
<1>1. /\ pc = "reseek" /\ UNCHANGED <<disk, ctx, header>>
      /\ \/ pc' = "record" /\ i' = i + 1
         \/ pc' = "report" /\ result' = BUN_ERR_IO
  BY DEF Reseek, Goto, Return
<1>2. disturbed => disturbed'
  BY StaysDisturbed DEF Step
<1>3. CASE pc' = "record" /\ i' = i + 1
  <2>1. Ahead = LoopFrom(disk, header, NoFailures, i + 1).es
    BY <1>1 DEF Ahead
  <2>2. Ahead' = LoopFrom(disk, header, NoFailures, i + 1).es
    BY <1>1, <1>3 DEF Ahead
  <2>3. QED BY <1>1, <1>2, <1>3, <2>1, <2>2, StillMakes DEF InLoop, InBody
<1>4. CASE pc' = "report" /\ result' = BUN_ERR_IO
  BY <1>4, FailedCall, AnswerCounts
<1>5. QED BY <1>1, <1>3, <1>4

\* Nothing said leaves the context as it is.
LEMMA NothingSaid ==
  ASSUME NEW c \in BunParseContext, Len(c.errors) <= MAX_ERRORS
  PROVE  add_error(c, <<>>) = c
<1>1. c.errors \o <<>> = c.errors /\ Capped(c.errors) = c.errors
  BY DEF BunParseContext, Capped
<1>2. ~Has(<<>>, BUN_MALFORMED) /\ ~Has(<<>>, BUN_UNSUPPORTED)
  BY DEF Has
<1>3. add_error(c, <<>>) = [c EXCEPT !.errors = c.errors,
                                     !.saw_malformed = c.saw_malformed,
                                     !.saw_unsupported = c.saw_unsupported]
  <2>1. c.saw_malformed \in BOOLEAN /\ c.saw_unsupported \in BOOLEAN
    BY DEF BunParseContext
  <2>2. /\ (c.saw_malformed \/ Has(<<>>, BUN_MALFORMED)) = c.saw_malformed
        /\ (c.saw_unsupported \/ Has(<<>>, BUN_UNSUPPORTED)) = c.saw_unsupported
    BY <1>2, <2>1, Zenon
  <2>3. Capped(c.errors \o <<>>) = c.errors
    BY <1>1
  <2>4. QED BY <2>2, <2>3, Zenon DEF add_error
<1>4. QED BY <1>3 DEF BunParseContext

\* At the end of the table the loop has said what parse_assets says, and no
\* seek has ended it.
LEMMA AssetsDoneComposed ==
  ASSUME ParseInvariant, ExactInvariant, ComposedInvariant, AssetsDone
  PROVE  ComposedInvariant'
<1>1. /\ pc = "record" /\ pc' = "report" /\ i >= header.asset_count
      /\ result' = bun_context_result(ctx)
      /\ UNCHANGED <<disk, ctx, header, disturbed>>
  BY DEF AssetsDone, Return, Goto, NoFault
<1>2. InLoop
  BY <1>1 DEF InLoop
<1>3. /\ IsFile(disk) /\ header = disk.header /\ ~HeaderMalformed(disk)
      /\ i \in Nat /\ header.asset_count \in Nat
  BY <1>2, InTheLoop
<1>4. /\ ctx \in BunParseContext /\ Len(ctx.errors) <= MAX_ERRORS
      /\ i <= header.asset_count
  BY <1>1 DEF ParseInvariant, TypeOK, Counting
<1>5. i = header.asset_count
  BY <1>1, <1>3, <1>4
<1>6. Ahead = <<>>
  <2>1. Ahead = LoopFrom(disk, header, NoFailures, i).es
    BY <1>1 DEF Ahead
  <2>2. QED BY <1>3, <1>5, <2>1, FromEnd
<1>7. /\ HeaderAnswer.result = BUN_OK /\ header = HeaderAnswer.header
      /\ ~disturbed => add_error(ctx, <<>>) = AssetsAnswer.ctx
  BY <1>1, <1>2, <1>6 DEF ComposedInvariant
<1>8. ~disturbed => ctx = AssetsAnswer.ctx
  BY <1>4, <1>7, NothingSaid
<1>9. AssetsAnswer.result = bun_context_result(AssetsAnswer.ctx)
  <2>1. ~AssetLoop(disk, header, NoFailures).io
    <3>1. IsStops(NoFailures)
      BY DEF IsStops, NoFailures
    <3>2. QED BY <1>3, <3>1, LoopSays DEF Deserved
  <2>2. QED BY <1>7, <2>1 DEF AssetsAnswer, parse_assets
<1>10. ASSUME ~disturbed PROVE Composed'
  <2>1. /\ HeaderAnswer'.result = BUN_OK /\ header' = HeaderAnswer'.header
        /\ ctx' = AssetsAnswer'.ctx /\ result' = AssetsAnswer'.result
    BY <1>1, <1>7, <1>8, <1>9, <1>10, SameAnswers
  <2>2. QED BY <2>1 DEF Composed
<1>11. QED BY <1>1, <1>10, AnswerCounts

\* The rest of main does not touch the answer while it counts.
LEMMA OthersComposed ==
  ASSUME Usage \/ Report \/ BunClose
  PROVE  ComposedInvariant'
BY AnswerCounts DEF Usage, Report, BunClose, Goto

\* Nothing has been called at first.
LEMMA InitComposed == Init => ComposedInvariant
BY DEF Init, ComposedInvariant, Composed, InLoop, InBody

\* A step that changes nothing changes no answer.
LEMMA StutterComposed ==
  ASSUME ComposedInvariant, UNCHANGED vars
  PROVE  ComposedInvariant'
<1>1. /\ pc' = pc /\ ctx' = ctx /\ header' = header /\ i' = i /\ rec' = rec
      /\ result' = result /\ disturbed' = disturbed /\ disk' = disk
  BY DEF vars
<1>2. Ahead' = Ahead
  BY <1>1 DEF Ahead
<1>3. InLoop' <=> InLoop
  BY <1>1 DEF InLoop, InBody
<1>4. Composed'
  BY <1>1, SameAnswers DEF ComposedInvariant, Composed
<1>5. QED BY <1>1, <1>2, <1>3, <1>4, SameAnswers DEF ComposedInvariant

-----------------------------------------------------------------------------
\* ComposedInvariant is inductive, given the other two: at every point of the
\* loop over the shared stream (bun_parse.c 120-163), what is in the context
\* and what is still to come make what bun_parse_assets answers at once.
THEOREM ComposedInductive == Spec => []ComposedInvariant
<1>1. /\ ParseInvariant /\ ParseInvariant' /\ ExactInvariant /\ ExactInvariant'
      /\ ComposedInvariant /\ [Next]_vars
      => ComposedInvariant'
  <2> SUFFICES ASSUME ParseInvariant, ParseInvariant', ExactInvariant, ExactInvariant',
                      ComposedInvariant, [Next]_vars
               PROVE  ComposedInvariant'
    OBVIOUS
  <2>1. CASE Step
    BY <2>1, BunOpenComposed, BunParseHeaderComposed, SeekTableComposed,
       ReadRecordComposed, RecordUnreadableComposed, PrintersComposed,
       ValidateRecordComposed, ValidateNameComposed, ReseekComposed,
       AssetsDoneComposed, OthersComposed DEF Step
  <2>2. CASE Exited
    BY <2>2, StutterComposed DEF Exited
  <2>3. CASE UNCHANGED vars
    BY <2>3, StutterComposed
  <2>4. QED BY <2>1, <2>2, <2>3 DEF Next
<1>2. QED BY Inductive, ExactInductive, InitComposed, <1>1, PTL DEF Spec

\* Unless a stdio call fails, main ends with the messages, the flags, the
\* header and the result that bun_parse_header and bun_parse_assets make of the
\* file when nothing else uses the stream (bun_parse.c 81-164, main.c 68-76).
THEOREM ComposesCalls == Spec => []Composed
BY ComposedInductive, PTL DEF ComposedInvariant


-----------------------------------------------------------------------------
(* Rows of messages.                                                        *)

\* e is one of the messages of the row.
In(e, es) == \E k \in DOMAIN es : es[k] = e

\* What a row of two parts holds,
LEMMA InConcat ==
  ASSUME NEW S, NEW s \in Seq(S), NEW t \in Seq(S)
  PROVE  \A e : In(e, s \o t) <=> In(e, s) \/ In(e, t)
<1> DEFINE u == s \o t
<1>1. /\ Len(s) \in Nat /\ Len(t) \in Nat /\ Len(u) = Len(s) + Len(t)
      /\ DOMAIN s = 1 .. Len(s) /\ DOMAIN t = 1 .. Len(t) /\ DOMAIN u = 1 .. Len(u)
      /\ \A k \in 1 .. Len(u) : u[k] = IF k <= Len(s) THEN s[k] ELSE t[k - Len(s)]
  BY ConcatProperties, LenProperties
<1> HIDE DEF u
<1>2. ASSUME NEW e, In(e, u)
      PROVE  In(e, s) \/ In(e, t)
  <2>1. PICK k \in 1 .. Len(u) : u[k] = e
    BY <1>1, <1>2 DEF In
  <2>2. CASE k <= Len(s)
    BY <1>1, <2>1, <2>2 DEF In
  <2>3. CASE ~(k <= Len(s))
    <3>1. k - Len(s) \in 1 .. Len(t) /\ t[k - Len(s)] = e
      BY <1>1, <2>1, <2>3
    <3>2. QED BY <1>1, <3>1 DEF In
  <2>4. QED BY <2>2, <2>3
<1>3. ASSUME NEW e, In(e, s)
      PROVE  In(e, u)
  <2>1. PICK k \in 1 .. Len(s) : s[k] = e
    BY <1>1, <1>3 DEF In
  <2>2. k \in 1 .. Len(u) /\ u[k] = e
    BY <1>1, <2>1
  <2>3. QED BY <1>1, <2>2 DEF In
<1>4. ASSUME NEW e, In(e, t)
      PROVE  In(e, u)
  <2>1. PICK k \in 1 .. Len(t) : t[k] = e
    BY <1>1, <1>4 DEF In
  <2>2. k + Len(s) \in 1 .. Len(u) /\ ~(k + Len(s) <= Len(s)) /\ (k + Len(s)) - Len(s) = k
    BY <1>1, <2>1
  <2>3. u[k + Len(s)] = e
    BY <1>1, <2>1, <2>2
  <2>4. QED BY <1>1, <2>2, <2>3 DEF In
<1>5. QED BY <1>2, <1>3, <1>4 DEF u

\* what a single check says,
LEMMA InCheck ==
  ASSUME NEW bad, NEW code, NEW what, NEW at
  PROVE  \A e : In(e, Check(bad, code, what, at)) <=>
                  bad /\ e = [code |-> code, what |-> what, at |-> at]
<1> DEFINE m == [code |-> code, what |-> what, at |-> at]
           es == Check(bad, code, what, at)
<1>1. CASE bad
  <2>1. es = <<m>>
    BY <1>1 DEF Check
  <2> HIDE DEF m, es
  <2>2. DOMAIN es = {1} /\ es[1] = m
    BY <2>1
  <2>3. \A e : In(e, es) <=> e = m
    BY <2>2 DEF In
  <2>4. QED BY <1>1, <2>3 DEF m, es
<1>2. CASE ~bad
  <2>1. es = <<>>
    BY <1>2 DEF Check
  <2>2. DOMAIN es = {}
    BY <2>1
  <2>3. \A e : ~In(e, es)
    BY <2>2 DEF In
  <2>4. QED BY <1>2, <2>3
<1>3. QED BY <1>1, <1>2

\* and how much of it is left when the list is full.
LEMMA InCapped ==
  ASSUME NEW S, NEW s \in Seq(S)
  PROVE  /\ \A e : In(e, Capped(s)) => In(e, s)
         /\ Len(Capped(s)) < MAX_ERRORS => Capped(s) = s
<1>1. CASE Len(s) <= MAX_ERRORS
  BY <1>1 DEF Capped
<1>2. CASE ~(Len(s) <= MAX_ERRORS)
  <2>1. Capped(s) = SubSeq(s, 1, MAX_ERRORS) /\ MAX_ERRORS \in Nat /\ Len(s) \in Nat
    BY <1>2, WidthAssumption, LenProperties DEF Capped
  <2>2. /\ Len(Capped(s)) = MAX_ERRORS /\ DOMAIN Capped(s) = 1 .. MAX_ERRORS
        /\ \A k \in 1 .. MAX_ERRORS : Capped(s)[k] = s[k]
    <3>1. \A k \in 1 .. MAX_ERRORS : k \in 1 .. Len(s)
      BY <1>2, <2>1
    <3>2. MAX_ERRORS = 0 \/ (1 \in 1 .. Len(s) /\ MAX_ERRORS \in 1 .. Len(s))
      BY <1>2, <2>1
    <3>3. QED BY <1>2, <2>1, <3>1, <3>2
  <2>3. DOMAIN s = 1 .. Len(s)
    BY LenProperties
  <2>4. \A e : In(e, Capped(s)) => In(e, s)
    BY <1>2, <2>1, <2>2, <2>3 DEF In
  <2>5. QED BY <2>1, <2>2, <2>4
<1>3. QED BY <1>1, <1>2

\* So add_error adds what it is given, and drops only what has no room.
LEMMA AddErrorSays ==
  ASSUME NEW c \in BunParseContext, NEW es \in Seq(Error)
  PROVE  LET d == add_error(c, es) IN
         /\ \A e : In(e, d.errors) => In(e, c.errors) \/ In(e, es)
         /\ Len(d.errors) < MAX_ERRORS =>
              /\ \A e : In(e, c.errors) \/ In(e, es) => In(e, d.errors)
              /\ Len(c.errors) < MAX_ERRORS
<1> DEFINE d == add_error(c, es)
           all == c.errors \o es
<1>1. c.errors \in Seq(Error) /\ all \in Seq(Error)
  BY ConcatType DEF BunParseContext
<1>2. d.errors = Capped(all)
  BY DEF add_error, BunParseContext
<1>3. \A e : In(e, all) <=> In(e, c.errors) \/ In(e, es)
  BY <1>1, InConcat
<1>4. Len(all) = Len(c.errors) + Len(es) /\ Len(c.errors) \in Nat /\ Len(es) \in Nat
  BY <1>1, ConcatProperties, LenProperties
<1> HIDE DEF d, all
<1>5. \A e : In(e, d.errors) => In(e, all)
  BY <1>1, <1>2, InCapped
<1>6. Len(d.errors) < MAX_ERRORS => d.errors = all
  BY <1>1, <1>2, InCapped
<1>7. Len(d.errors) < MAX_ERRORS => Len(c.errors) < MAX_ERRORS
  BY <1>4, <1>6, WidthAssumption
<1>8. QED BY <1>3, <1>5, <1>6, <1>7 DEF d

-----------------------------------------------------------------------------
(* What is said of a header is true of it.                                   *)

\* The message is true of the file.
MessageTrue(e, f) ==
  IF e.what \in HeaderMessages
    THEN HeaderMessageTrue(e, f)
    ELSE RecordMessageTrue(e, f, Entry(f, e.at[1]))

\* Every message of the row is.
AllTrue(es, f) == \A e : In(e, es) => MessageTrue(e, f)

\* Rows of true messages make a row of true messages.
LEMMA TrueConcat ==
  ASSUME NEW f
  PROVE  \A s, t \in Seq(Error) :
           s \o t \in Seq(Error) /\ (AllTrue(s, f) /\ AllTrue(t, f) => AllTrue(s \o t, f))
BY InConcat, ConcatType DEF AllTrue

\* A check that says something true when it says anything.
LEMMA TrueCheck ==
  ASSUME NEW f, NEW bad, NEW code, NEW what, NEW at,
         bad => MessageTrue([code |-> code, what |-> what, at |-> at], f)
  PROVE  AllTrue(Check(bad, code, what, at), f)
<1>1. \A e : In(e, Check(bad, code, what, at)) <=>
               bad /\ e = [code |-> code, what |-> what, at |-> at]
  BY InCheck
<1>2. QED BY <1>1 DEF AllTrue

\* Magic and version.
LEMMA BasicTrue ==
  ASSUME NEW f, f.header \in BunHeader
  PROVE  AllTrue(validate_header_basic(f.header), f)
<1> DEFINE h == f.header
           a == Check(h.magic # BUN_MAGIC, BUN_MALFORMED, "magic", <<>>)
           b == Check(\/ h.version_major # BUN_VERSION_MAJOR
                      \/ h.version_minor # BUN_VERSION_MINOR,
                      BUN_UNSUPPORTED, "version", <<>>)
<1>1. \A c : MessageTrue([code |-> c, what |-> "magic", at |-> <<>>], f)
               <=> h.magic # BUN_MAGIC
  BY DEF MessageTrue, HeaderMessages, HeaderMessageTrue
<1>2. \A c : MessageTrue([code |-> c, what |-> "version", at |-> <<>>], f)
               <=> HeaderUnsupported(f)
  BY DEF MessageTrue, HeaderMessages, HeaderMessageTrue
<1>3. AllTrue(a, f)
  BY <1>1, TrueCheck, Zenon
<1>4. \/ h.version_major # BUN_VERSION_MAJOR
      \/ h.version_minor # BUN_VERSION_MINOR => HeaderUnsupported(f)
  BY DEF HeaderUnsupported, BUN_VERSION_MAJOR, BUN_VERSION_MINOR
<1>5. AllTrue(b, f)
  BY <1>2, <1>4, TrueCheck, Zenon DEF HeaderUnsupported, BUN_VERSION_MAJOR, BUN_VERSION_MINOR
<1>6. a \in Seq(Error) /\ b \in Seq(Error)
  BY CheckType, PlaceType DEF Complaint
<1>7. validate_header_basic(h) = a \o b
  BY DEF validate_header_basic
<1> HIDE DEF a, b
<1>8. QED BY <1>3, <1>5, <1>6, <1>7, TrueConcat

\* The section a message about an alignment points at.
LEMMA AlignTrue ==
  ASSUME NEW f, f.header \in BunHeader
  PROVE  LET h == f.header
             m(k) == [code |-> BUN_MALFORMED, what |-> "align", at |-> <<k>>]
         IN  /\ MessageTrue(m(1), f) <=> h.asset_table_offset % 4 # 0
             /\ MessageTrue(m(2), f) <=> h.string_table_offset % 4 # 0
             /\ MessageTrue(m(3), f) <=> h.string_table_size % 4 # 0
             /\ MessageTrue(m(4), f) <=> h.data_section_offset % 4 # 0
             /\ MessageTrue(m(5), f) <=> h.data_section_size % 4 # 0
<1> DEFINE h == f.header
           aligned == <<h.asset_table_offset, h.string_table_offset,
                        h.string_table_size, h.data_section_offset,
                        h.data_section_size>>
           m(k) == [code |-> BUN_MALFORMED, what |-> "align", at |-> <<k>>]
<1>1. \A k : m(k).what = "align" /\ m(k).at[1] = k
  OBVIOUS
<1>2. \A k : MessageTrue(m(k), f) <=> aligned[k] % 4 # 0
  <2> TAKE k
  <2>1. m(k).what = "align" /\ m(k).at[1] = k
    BY <1>1
  <2> HIDE DEF m
  <2>2. QED BY <2>1 DEF MessageTrue, HeaderMessages, HeaderMessageTrue
<1>3. QED BY <1>2

\* Alignment,
LEMMA AlignmentTrue ==
  ASSUME NEW f, f.header \in BunHeader
  PROVE  AllTrue(Alignment(f.header), f)
<1> DEFINE h == f.header
           c(n, k) == Check(~is_aligned4(n), BUN_MALFORMED, "align", <<k>>)
<1>1. \A n : \A k \in 1 .. 5 : c(n, k) \in Seq(Error)
  <2> TAKE n
  <2> TAKE k \in 1 .. 5
  <2>1. <<k>> \in Seq(Nat) /\ "align" \in Complaint
    BY PlaceType DEF Complaint
  <2>2. QED BY <2>1, CheckType
<1>2. /\ AllTrue(c(h.asset_table_offset, 1), f)
      /\ AllTrue(c(h.string_table_offset, 2), f)
      /\ AllTrue(c(h.string_table_size, 3), f)
      /\ AllTrue(c(h.data_section_offset, 4), f)
      /\ AllTrue(c(h.data_section_size, 5), f)
  BY AlignTrue, TrueCheck, Zenon DEF is_aligned4
<1>3. Alignment(h) = c(h.asset_table_offset, 1) \o c(h.string_table_offset, 2)
         \o c(h.string_table_size, 3) \o c(h.data_section_offset, 4)
         \o c(h.data_section_size, 5)
  BY DEF Alignment
<1> DEFINE c1 == c(h.asset_table_offset, 1)
           c2 == c(h.string_table_offset, 2)
           c3 == c(h.string_table_size, 3)
           c4 == c(h.data_section_offset, 4)
           c5 == c(h.data_section_size, 5)
<1>4. /\ c1 \in Seq(Error) /\ c2 \in Seq(Error) /\ c3 \in Seq(Error)
      /\ c4 \in Seq(Error) /\ c5 \in Seq(Error)
  BY <1>1
<1>5. /\ AllTrue(c1, f) /\ AllTrue(c2, f) /\ AllTrue(c3, f) /\ AllTrue(c4, f)
      /\ AllTrue(c5, f) /\ Alignment(h) = c1 \o c2 \o c3 \o c4 \o c5
  BY <1>2, <1>3
<1> HIDE DEF c1, c2, c3, c4, c5, c
<1>6. AllTrue(c1 \o c2, f) /\ c1 \o c2 \in Seq(Error)
  BY <1>4, <1>5, TrueConcat
<1>7. AllTrue(c1 \o c2 \o c3, f) /\ c1 \o c2 \o c3 \in Seq(Error)
  BY <1>4, <1>5, <1>6, TrueConcat
<1>8. AllTrue(c1 \o c2 \o c3 \o c4, f) /\ c1 \o c2 \o c3 \o c4 \in Seq(Error)
  BY <1>4, <1>5, <1>7, TrueConcat
<1>9. QED BY <1>4, <1>5, <1>8, TrueConcat

\* The sections of the code are those of the format.
LEMMA SameSections ==
  ASSUME NEW h \in BunHeader
  PROVE  \A k \in 1 .. 4 :
           /\ sections(h)[k] \in SectionType
           /\ HeaderSections(h)[k].lo = sections(h)[k].offset
           /\ HeaderSections(h)[k].len = sections(h)[k].size
           /\ HeaderSections(h)[k]
                = [lo |-> sections(h)[k].offset, len |-> sections(h)[k].size]
<1>1. /\ HeaderSections(h)[1] = [lo |-> 0, len |-> BUN_HEADER_SIZE]
      /\ HeaderSections(h)[2] = [lo |-> h.asset_table_offset,
                                 len |-> h.asset_count * BUN_ASSET_RECORD_SIZE]
      /\ HeaderSections(h)[3] = [lo |-> h.string_table_offset, len |-> h.string_table_size]
      /\ HeaderSections(h)[4] = [lo |-> h.data_section_offset, len |-> h.data_section_size]
  BY DEF HeaderSections
<1>2. TableSize(h).out = h.asset_count * BUN_ASSET_RECORD_SIZE
  BY TableSizeExact
<1> DEFINE Same(k) ==
      /\ sections(h)[k] \in SectionType
      /\ HeaderSections(h)[k].lo = sections(h)[k].offset
      /\ HeaderSections(h)[k].len = sections(h)[k].size
      /\ HeaderSections(h)[k]
           = [lo |-> sections(h)[k].offset, len |-> sections(h)[k].size]
<1>3. /\ sections(h)[1] = [offset |-> 0, size |-> BUN_HEADER_SIZE]
      /\ sections(h)[2] = [offset |-> h.asset_table_offset,
                           size |-> h.asset_count * BUN_ASSET_RECORD_SIZE]
      /\ sections(h)[3] = [offset |-> h.string_table_offset, size |-> h.string_table_size]
      /\ sections(h)[4] = [offset |-> h.data_section_offset, size |-> h.data_section_size]
  BY <1>2, SectionsType DEF Section
<1>4. \A k \in 1 .. 4 : sections(h)[k] \in SectionType
  BY SectionsType
<1>5. Same(1)
  BY <1>1, <1>3, <1>4
<1>6. Same(2)
  BY <1>1, <1>3, <1>4
<1>7. Same(3)
  BY <1>1, <1>3, <1>4
<1>8. Same(4)
  BY <1>1, <1>3, <1>4
<1> HIDE DEF Same
<1>9. \A k \in 1 .. 4 : Same(k)
  BY <1>5, <1>6, <1>7, <1>8
<1>10. QED BY <1>9 DEF Same

\* Bounds,
LEMMA BoundsTrue ==
  ASSUME NEW f, f.header \in BunHeader, f.size \in offset_t, NEW k \in 1 .. 4
  PROVE  AllTrue(Bounds(sections(f.header)[k], k, f.size), f)
<1> DEFINE s == sections(f.header)[k]
           t == HeaderSections(f.header)[k]
           over == [code |-> BUN_MALFORMED, what |-> "end overflow", at |-> <<k>>]
           beyond == [code |-> BUN_MALFORMED, what |-> "outside file", at |-> <<k>>]
           past == section_end(s).ok /\ ~check_range_within_file(s.offset, s.size, f.size)
           a == Check(~section_end(s).ok, BUN_MALFORMED, "end overflow", <<k>>)
           b == Check(past, BUN_MALFORMED, "outside file", <<k>>)
<1>1. s \in SectionType /\ t.lo = s.offset /\ t.len = s.size
  BY SameSections
<1>2. /\ section_end(s).ok <=> s.offset + s.size <= UINT64_MAX
      /\ section_end(s).ok => section_end(s).out = s.offset + s.size
  BY <1>1, EndExact
<1>3. s.offset \in Nat /\ s.size \in Nat /\ f.size \in Nat
  BY <1>1, WidthAssumption DEF SectionType, u64, offset_t
<1>4. past <=> s.offset + s.size <= UINT64_MAX /\ ~(s.offset + s.size <= f.size)
  BY <1>2, <1>3 DEF check_range_within_file, EndsBy, section_end
<1>5. MessageTrue(over, f) <=> DeclaredEnd(t) > UINT64_MAX
  <2>1. over.what = "end overflow" /\ over.at[1] = k
    OBVIOUS
  <2> HIDE DEF over
  <2>2. QED BY <2>1 DEF MessageTrue, HeaderMessages, HeaderMessageTrue
<1>6. MessageTrue(beyond, f) <=> ~Inside(t, f) /\ DeclaredEnd(t) <= UINT64_MAX
  <2>1. beyond.what = "outside file" /\ beyond.at[1] = k
    OBVIOUS
  <2> HIDE DEF beyond
  <2>2. QED BY <2>1 DEF MessageTrue, HeaderMessages, HeaderMessageTrue
<1>7. DeclaredEnd(t) = s.offset + s.size /\ (Inside(t, f) <=> s.offset + s.size <= f.size)
  BY <1>1 DEF DeclaredEnd, Inside
<1>8. ~section_end(s).ok => MessageTrue(over, f)
  <2>1. ~(s.offset + s.size <= UINT64_MAX) => s.offset + s.size > UINT64_MAX
    BY <1>3, WidthAssumption
  <2> HIDE DEF s, t, over
  <2>2. QED BY <2>1, <1>2, <1>5, <1>7
<1>9. past => MessageTrue(beyond, f)
  BY <1>3, <1>4, <1>6, <1>7
<1>10. AllTrue(a, f)
  BY <1>8, TrueCheck
<1>11. AllTrue(b, f)
  BY <1>9, TrueCheck
<1>12. a \in Seq(Error) /\ b \in Seq(Error)
  <2>1. <<k>> \in Seq(Nat) /\ {"end overflow", "outside file"} \subseteq Complaint
    BY PlaceType DEF Complaint
  <2>2. QED BY <2>1, CheckType
<1>13. Bounds(s, k, f.size) = a \o b
  BY DEF Bounds
<1> HIDE DEF a, b, s
<1>14. AllTrue(Bounds(s, k, f.size), f)
  BY <1>10, <1>11, <1>12, <1>13, TrueConcat
<1>15. QED BY <1>14 DEF s

\* and overlaps: two sections collide, or the end of one is not a number the
\* code has.
LEMMA OverlapTrue ==
  ASSUME NEW f, f.header \in BunHeader, NEW j \in 1 .. 4, NEW k \in 1 .. 4
  PROVE  AllTrue(Overlap(sections(f.header), j, k), f)
<1> DEFINE ss == sections(f.header)
           ts == HeaderSections(f.header)
           m == [code |-> BUN_MALFORMED, what |-> "overlap", at |-> <<j, k>>]
<1>1. /\ ss[j] \in SectionType /\ ts[j].lo = ss[j].offset /\ ts[j].len = ss[j].size
      /\ ts[j] = [lo |-> ss[j].offset, len |-> ss[j].size]
  BY SameSections
<1>2. /\ ss[k] \in SectionType /\ ts[k].lo = ss[k].offset /\ ts[k].len = ss[k].size
      /\ ts[k] = [lo |-> ss[k].offset, len |-> ss[k].size]
  BY SameSections
<1>3. MessageTrue(m, f) <=>
        \/ Collide(ts[j], ts[k])
        \/ DeclaredEnd(ts[j]) > UINT64_MAX
        \/ DeclaredEnd(ts[k]) > UINT64_MAX
  <2>1. m.what = "overlap" /\ m.at[1] = j /\ m.at[2] = k
    OBVIOUS
  <2> HIDE DEF m
  <2>2. QED BY <2>1 DEF MessageTrue, HeaderMessages, HeaderMessageTrue
<1>4. /\ DeclaredEnd(ts[j]) = ss[j].offset + ss[j].size /\ DeclaredEnd(ts[j]) \in Nat
      /\ DeclaredEnd(ts[k]) = ss[k].offset + ss[k].size /\ DeclaredEnd(ts[k]) \in Nat
  BY <1>1, <1>2, WidthAssumption DEF DeclaredEnd, SectionType, u64
<1> HIDE DEF ss, ts
<1>5. sections_overlap(ss[j], ss[k]) => MessageTrue(m, f)
  <2> SUFFICES ASSUME sections_overlap(ss[j], ss[k]),
                      ~(DeclaredEnd(ts[j]) > UINT64_MAX),
                      ~(DeclaredEnd(ts[k]) > UINT64_MAX)
               PROVE  Collide(ts[j], ts[k])
    BY <1>3
  <2>1. Has(Overlap(ss, j, k), BUN_MALFORMED)
    BY OverlapHas
  <2>2. ss[j].offset + ss[j].size <= UINT64_MAX /\ ss[k].offset + ss[k].size <= UINT64_MAX
    BY <1>4, WidthAssumption
  <2>3. Collide([lo |-> ss[j].offset, len |-> ss[j].size],
                [lo |-> ss[k].offset, len |-> ss[k].size])
    BY <1>1, <1>2, <2>1, <2>2, OverlapComplete
  <2>4. QED BY <1>1, <1>2, <2>3
<1>6. AllTrue(Overlap(ss, j, k), f)
  BY <1>5, TrueCheck DEF Overlap
<1>7. QED BY <1>6 DEF ss

\* So everything validate_header_offsets says is true,
LEMMA OffsetsTrue ==
  ASSUME NEW f, f.header \in BunHeader, f.size \in offset_t
  PROVE  AllTrue(validate_header_offsets(f.header, f.size), f)
<1> DEFINE h == f.header
           ss == sections(h)
           a == Alignment(h)
           b == Check(~TableSize(h).ok, BUN_MALFORMED, "table overflow", <<>>)
           d1 == Bounds(ss[1], 1, f.size)
           d2 == Bounds(ss[2], 2, f.size)
           d3 == Bounds(ss[3], 3, f.size)
           d4 == Bounds(ss[4], 4, f.size)
           o1 == Overlap(ss, 1, 2)
           o2 == Overlap(ss, 1, 3)
           o3 == Overlap(ss, 1, 4)
           o4 == Overlap(ss, 2, 3)
           o5 == Overlap(ss, 2, 4)
           o6 == Overlap(ss, 3, 4)
           Good(es) == es \in Seq(Error) /\ AllTrue(es, f)
<1>1. Good(a)
  BY AlignmentType, AlignmentTrue
<1>2. Good(b)
  <2>1. TableSize(h).ok
    BY TableSizeExact
  <2>2. AllTrue(b, f)
    BY <2>1, TrueCheck
  <2>3. QED BY <2>2, CheckType, PlaceType DEF Complaint
<1>3. \A k \in 1 .. 4 : Good(Bounds(ss[k], k, f.size))
  BY SectionsType, BoundsType, BoundsTrue
<1>4. \A j, k \in 1 .. 4 : Good(Overlap(ss, j, k))
  BY OverlapType, OverlapTrue
<1>5. Good(d1) /\ Good(d2) /\ Good(d3) /\ Good(d4)
  BY <1>3
<1>6. Good(o1) /\ Good(o2) /\ Good(o3) /\ Good(o4) /\ Good(o5) /\ Good(o6)
  BY <1>4
<1>7. \A s, t : Good(s) /\ Good(t) => Good(s \o t)
  BY TrueConcat
<1>8. validate_header_offsets(h, f.size)
        = a \o b \o (d1 \o d2 \o d3 \o d4) \o (o1 \o o2 \o o3 \o o4 \o o5 \o o6)
  BY Zenon DEF validate_header_offsets
<1> HIDE DEF a, b, d1, d2, d3, d4, o1, o2, o3, o4, o5, o6, Good
<1>9. Good(d1 \o d2 \o d3 \o d4)
  BY <1>5, <1>7
<1>10. Good(o1 \o o2 \o o3)
  BY <1>6, <1>7
<1>11. Good(o1 \o o2 \o o3 \o o4 \o o5 \o o6)
  BY <1>6, <1>7, <1>10
<1>12. Good(a \o b)
  BY <1>1, <1>2, <1>7
<1>13. Good(a \o b \o (d1 \o d2 \o d3 \o d4) \o (o1 \o o2 \o o3 \o o4 \o o5 \o o6))
  BY <1>7, <1>9, <1>11, <1>12
<1>14. QED BY <1>8, <1>13 DEF Good

\* and so is everything bun_parse_header says.
LEMMA HeaderTrue ==
  ASSUME NEW f, f.header \in BunHeader, f.size \in offset_t
  PROVE  AllTrue(validate_header_basic(f.header)
                   \o validate_header_offsets(f.header, f.size), f)
BY HeaderBasicType, HeaderOffsetsType, BasicTrue, OffsetsTrue, TrueConcat

-----------------------------------------------------------------------------
(* What is said of a record is true of it.                                   *)

\* What the RLE check of n bytes found when it answered v.
RleFound(v, f, from, n, left, declared) ==
  \/ /\ v.what = "rle zero count"
     /\ \E p \in Nat :
          /\ v.pos = 2 * p /\ 2 * p < n /\ ByteAt(f, from + 2 * p) = 0
          /\ \A q \in 0 .. p - 1 : ByteAt(f, from + 2 * q) # 0
  \/ /\ v.what = "rle expanded overflow"
     /\ \E q \in 0 .. n \div 2 : Counts(f, from, q) > UINT64_MAX
  \/ v.what = "rle read failed" /\ left < n
  \/ v.what = "rle size" /\ Counts(f, from, n \div 2) # declared
  \/ v.what = "ok"

\* It says what it found.
LEMMA RleSays ==
  ASSUME NEW f, NEW from \in Nat, NEW n \in Nat, NEW left \in Nat, NEW declared
  PROVE  RleFound(RleVerdict(f, from, n, left, declared), f, from, n, left, declared)
<1> DEFINE read == WholeChunks(n, left)
           stops == StoppingPairs(f, from, read)
           first == FirstOf(stops)
           v == RleVerdict(f, from, n, left, declared)
<1>1. left % BUFFER_SIZE \in Nat /\ left % BUFFER_SIZE <= left
  BY BufferAssumption
<1>2. read \in Nat /\ read <= n /\ (read < n => left < n)
  <2>1. CASE n <= left
    BY <2>1 DEF WholeChunks
  <2>2. CASE ~(n <= left)
    BY <1>1, <2>2 DEF WholeChunks
  <2>3. QED BY <2>1, <2>2
<1>3. v = IF stops # {}
            THEN IF ByteAt(f, from + 2 * first) = 0
                   THEN [what |-> "rle zero count", pos |-> 2 * first]
                   ELSE [what |-> "rle expanded overflow", pos |-> 2 * first]
          ELSE IF read < n THEN [what |-> "rle read failed", pos |-> read]
          ELSE IF Counts(f, from, n \div 2) # declared
                 THEN [what |-> "rle size", pos |-> n]
                 ELSE [what |-> "ok", pos |-> n]
  BY DEF RleVerdict
<1> HIDE DEF read
<1>4. /\ stops \in SUBSET Nat
      /\ \A p \in Nat : p \in stops <=>
           /\ p <= (read \div 2) - 1
           /\ ByteAt(f, from + 2 * p) = 0 \/ Counts(f, from, p + 1) > UINT64_MAX
  BY <1>2 DEF StoppingPairs
<1>5. stops # {} => first \in stops /\ first \in Nat /\ \A q \in stops : first <= q
  <2> SUFFICES ASSUME stops # {}
               PROVE  first \in stops /\ \A q \in stops : first <= q
    BY <1>4
  <2>1. \E p \in stops : \A q \in stops : p <= q
    BY <1>4, LeastMember
  <2>2. QED BY <2>1 DEF FirstOf
<1> HIDE DEF stops, first, v
<1>6. CASE stops # {} /\ ByteAt(f, from + 2 * first) = 0
  <2>1. v = [what |-> "rle zero count", pos |-> 2 * first]
    BY <1>3, <1>6
  <2>2. first \in Nat /\ first <= (read \div 2) - 1 /\ 2 * first < n
    BY <1>2, <1>4, <1>5, <1>6
  <2>3. \A q \in 0 .. first - 1 : ByteAt(f, from + 2 * q) # 0
    <3> SUFFICES ASSUME NEW q \in 0 .. first - 1, ByteAt(f, from + 2 * q) = 0
                 PROVE  FALSE
      OBVIOUS
    <3>1. q \in Nat /\ q < first /\ q <= (read \div 2) - 1
      BY <2>2, <1>2
    <3>2. q \in stops
      BY <1>4, <3>1
    <3>3. QED BY <1>5, <1>6, <3>1, <3>2
  <2>4. v.what = "rle zero count" /\ v.pos = 2 * first
    BY <2>1
  <2>5. QED BY <1>6, <2>2, <2>3, <2>4 DEF v, RleFound
<1>7. CASE stops # {} /\ ByteAt(f, from + 2 * first) # 0
  <2>1. v = [what |-> "rle expanded overflow", pos |-> 2 * first]
    BY <1>3, <1>7
  <2>2. v.what = "rle expanded overflow"
    BY <2>1
  <2>3. Counts(f, from, first + 1) > UINT64_MAX /\ first \in Nat
    BY <1>4, <1>5, <1>7
  <2>4. first + 1 \in 0 .. n \div 2
    <3>1. first <= (read \div 2) - 1
      BY <1>4, <1>5, <1>7
    <3>2. read \div 2 <= n \div 2 /\ read \div 2 \in Nat /\ n \div 2 \in Nat
      BY <1>2
    <3>3. QED BY <3>1, <3>2, <2>3
  <2>5. QED BY <2>2, <2>3, <2>4 DEF v, RleFound
<1>8. CASE stops = {} /\ read < n
  <2>1. v = [what |-> "rle read failed", pos |-> read]
    BY <1>3, <1>8
  <2>2. v.what = "rle read failed"
    BY <2>1
  <2>3. QED BY <1>2, <1>8, <2>2 DEF v, RleFound
<1>9. CASE stops = {} /\ ~(read < n) /\ Counts(f, from, n \div 2) # declared
  <2>1. v = [what |-> "rle size", pos |-> n]
    BY <1>3, <1>9
  <2>2. v.what = "rle size"
    BY <2>1
  <2>3. QED BY <1>9, <2>2 DEF v, RleFound
<1>10. CASE stops = {} /\ ~(read < n) /\ ~(Counts(f, from, n \div 2) # declared)
  <2>1. v = [what |-> "ok", pos |-> n]
    BY <1>3, <1>10
  <2>2. v.what = "ok"
    BY <2>1
  <2>3. QED BY <2>2 DEF v, RleFound
<1>11. QED BY <1>6, <1>7, <1>8, <1>9, <1>10

\* A message that is not about the header is about the record it names first.
LEMMA OfRecord ==
  ASSUME NEW f, NEW j, NEW m, m.what \notin HeaderMessages, m.at[1] = j
  PROVE  MessageTrue(m, f) <=> RecordMessageTrue(m, f, Entry(f, j))
BY DEF MessageTrue

\* A check that names record j and nothing else.
LEMMA RecordCheckTrue ==
  ASSUME NEW f, NEW j, NEW bad, NEW c, NEW what, what \notin HeaderMessages,
         bad => \A m : m.what = what => RecordMessageTrue(m, f, Entry(f, j))
  PROVE  AllTrue(Check(bad, c, what, <<j>>), f)
<1> DEFINE m == [code |-> c, what |-> what, at |-> <<j>>]
<1>1. m.what = what /\ m.at[1] = j
  OBVIOUS
<1> HIDE DEF m
<1>2. bad => MessageTrue(m, f)
  BY <1>1, OfRecord
<1>3. QED BY <1>2, TrueCheck DEF m

\* The RLE check, when everything there is of the payload is delivered.
LEMMA RleTrue ==
  ASSUME NEW f, IsFile(f), NEW r \in BunAssetRecord, NEW j \in Nat, r = Entry(f, j),
         ScansPayload(f.header, r), NEW from, from = DataStart(f.header, r).out,
         NEW left, left = AtMost(r.data_size, Available(f, from))
  PROVE  AllTrue(RleErrors(f, from, r.data_size, left, r.uncompressed_size, j), f)
<1> DEFINE n == r.data_size
           v == RleVerdict(f, from, n, left, r.uncompressed_size)
           at == IF v.what = "rle zero count" THEN <<j, v.pos>> ELSE <<j>>
           m == [code |-> BUN_MALFORMED, what |-> v.what, at |-> at]
<1>1. /\ r.compression = BUN_COMPRESSION_RLE /\ n % 2 = 0
      /\ DataStart(f.header, r).ok /\ n \in Nat /\ r.data_offset \in Nat
      /\ f.header.data_section_offset \in Nat
  BY FieldTypes DEF ScansPayload, IsFile
<1>2. from = f.header.data_section_offset + r.data_offset /\ from \in Nat
  BY <1>1, StartTypes DEF IsFile
<1>3. left \in Nat /\ (left < n => from + n > f.size)
  <2>1. f.size \in Nat
    BY WidthAssumption DEF IsFile, offset_t
  <2>2. QED BY <1>1, <1>2, <2>1 DEF AtMost, Available
<1>4. m.what = v.what /\ m.at = at
  OBVIOUS
<1>5. m.what = "rle zero count" => m.at[1] = j /\ m.at[2] = v.pos
  BY <1>4
<1>6. m.what # "rle zero count" => m.at[1] = j
  BY <1>4
<1> HIDE DEF m, at
<1>7. v.what # "ok" => MessageTrue(m, f)
  <2>1. m.what \notin HeaderMessages /\ m.at[1] = j
    <3>1. v.what \in {"rle zero count", "rle expanded overflow", "rle read failed",
                      "rle size", "ok"}
      BY <1>2, <1>1, <1>3, RleVerdictFacts
    <3>2. QED BY <3>1, <1>4, <1>5, <1>6 DEF HeaderMessages
  <2>2. MessageTrue(m, f) <=> RecordMessageTrue(m, f, r)
    BY <2>1, OfRecord
  <2>3. RleFound(v, f, from, n, left, r.uncompressed_size)
    BY <1>1, <1>2, <1>3, RleSays
  <2> HIDE DEF v
  <2>4. CASE v.what = "rle zero count"
    <3>1. PICK p \in Nat :
            /\ v.pos = 2 * p /\ 2 * p < n /\ ByteAt(f, from + 2 * p) = 0
            /\ \A q \in 0 .. p - 1 : ByteAt(f, from + 2 * q) # 0
      BY <2>3, <2>4 DEF RleFound
    <3>2. /\ m.at[2] = 2 * p /\ m.at[2] % 2 = 0 /\ m.at[2] \div 2 = p
          /\ m.at[2] < n
      <4>1. m.at[2] = 2 * p /\ 2 * p < n
        BY <1>4, <1>5, <2>4, <3>1
      <4>2. (2 * p) % 2 = 0 /\ (2 * p) \div 2 = p
        BY <3>1
      <4>3. QED BY <4>1, <4>2, Zenon
    <3>3. RecordMessageTrue(m, f, r) <=>
            /\ r.compression = BUN_COMPRESSION_RLE
            /\ m.at[2] % 2 = 0 /\ m.at[2] < n
            /\ ByteAt(f, from + 2 * (m.at[2] \div 2)) = 0
            /\ \A q \in 0 .. (m.at[2] \div 2) - 1 : ByteAt(f, from + 2 * q) # 0
      BY <1>2, <1>4, <2>4 DEF RecordMessageTrue
    <3>4. RecordMessageTrue(m, f, r)
      BY <1>1, <3>1, <3>2, <3>3
    <3>5. QED BY <2>2, <3>4
  <2>5. CASE v.what = "rle expanded overflow"
    BY <1>1, <1>2, <1>4, <2>2, <2>3, <2>5 DEF RecordMessageTrue, RleFound
  <2>6. CASE v.what = "rle read failed"
    BY <1>1, <1>2, <1>3, <1>4, <2>2, <2>3, <2>6 DEF RecordMessageTrue, RleFound
  <2>7. CASE v.what = "rle size"
    BY <1>1, <1>2, <1>4, <2>2, <2>3, <2>7 DEF RecordMessageTrue, RleFound
  <2>8. QED BY <2>3, <2>4, <2>5, <2>6, <2>7 DEF RleFound
<1>8. RleErrors(f, from, n, left, r.uncompressed_size, j)
        = Check(v.what # "ok", BUN_MALFORMED, v.what, at)
  BY Zenon DEF RleErrors, at
<1>9. AllTrue(Check(v.what # "ok", BUN_MALFORMED, v.what, at), f)
  <2> HIDE DEF v
  <2>1. QED BY <1>7, TrueCheck DEF m
<1>10. QED BY <1>8, <1>9

\* validate_compression, with everything delivered,
LEMMA CompressionTrue ==
  ASSUME NEW f, IsFile(f), ~HeaderMalformed(f), NEW r \in BunAssetRecord,
         NEW j \in Nat, r = Entry(f, j), NEW seeks \in BOOLEAN, NEW left \in Nat,
         ScansPayload(f.header, r) =>
           seeks /\ left = AtMost(r.data_size, Available(f, DataStart(f.header, r).out))
  PROVE  AllTrue(validate_compression(f, f.header, r, j, seeks, left), f)
<1> DEFINE es == validate_compression(f, f.header, r, j, seeks, left)
           One(bad, c, what) == Check(bad, c, what, <<j>>)
<1>1. /\ r.compression \in Nat
      /\ BUN_COMPRESSION_NONE = 0 /\ BUN_COMPRESSION_RLE = 1
      /\ BUN_COMPRESSION_ZLIB = 2
      /\ BUN_COMPRESSION_NONE # BUN_COMPRESSION_RLE
      /\ BUN_COMPRESSION_NONE # BUN_COMPRESSION_ZLIB
      /\ BUN_COMPRESSION_RLE # BUN_COMPRESSION_ZLIB
  BY FieldTypes DEF IsFile, BUN_COMPRESSION_NONE, BUN_COMPRESSION_RLE, BUN_COMPRESSION_ZLIB
<1>2. ASSUME NEW bad, NEW c, NEW what, what \notin HeaderMessages,
             bad => \A m : m.what = what => RecordMessageTrue(m, f, r)
      PROVE  AllTrue(One(bad, c, what), f)
  BY <1>2, RecordCheckTrue
<1>3. CASE r.compression = BUN_COMPRESSION_NONE
  <2>1. es = One(r.uncompressed_size # 0, BUN_MALFORMED, "uncompressed size")
    BY <1>1, <1>3 DEF validate_compression
  <2>2. r.uncompressed_size # 0 =>
          \A m : m.what = "uncompressed size" => RecordMessageTrue(m, f, r)
    BY <1>3 DEF RecordMessageTrue
  <2>3. QED BY <1>2, <2>1, <2>2 DEF HeaderMessages
<1>4. CASE r.compression = BUN_COMPRESSION_ZLIB
  <2>1. es = One(TRUE, BUN_UNSUPPORTED, "zlib")
    BY <1>1, <1>4 DEF validate_compression
  <2>2. \A m : m.what = "zlib" => RecordMessageTrue(m, f, r)
    BY <1>4 DEF RecordMessageTrue
  <2>3. QED BY <1>2, <2>1, <2>2 DEF HeaderMessages
<1>5. CASE r.compression > BUN_COMPRESSION_ZLIB
  <2>1. es = One(TRUE, BUN_UNSUPPORTED, "unknown compression")
    <3>1. /\ r.compression # BUN_COMPRESSION_NONE /\ r.compression # BUN_COMPRESSION_RLE
          /\ r.compression # BUN_COMPRESSION_ZLIB
      BY <1>1, <1>5
    <3>2. QED BY <3>1 DEF validate_compression
  <2>2. \A m : m.what = "unknown compression" => RecordMessageTrue(m, f, r)
    BY <1>5 DEF RecordMessageTrue
  <2>3. QED BY <1>2, <2>1, <2>2 DEF HeaderMessages
<1>6. CASE r.compression = BUN_COMPRESSION_RLE
  <2>1. CASE r.data_size % 2 # 0
    <3>1. es = One(TRUE, BUN_MALFORMED, "rle odd")
      BY <1>1, <1>6, <2>1 DEF validate_compression
    <3>2. \A m : m.what = "rle odd" => RecordMessageTrue(m, f, r)
      BY <1>6, <2>1 DEF RecordMessageTrue
    <3>3. QED BY <1>2, <3>1, <3>2 DEF HeaderMessages
  <2>2. CASE ~(r.data_size % 2 # 0) /\ ~DataStart(f.header, r).ok
    <3>1. es = One(TRUE, BUN_MALFORMED, "data offset overflow")
      BY <1>1, <1>6, <2>2 DEF validate_compression
    <3>2. ~DataInside(f.header, r)
      BY <2>2, DataReach
    <3>3. \A m : m.what = "data offset overflow" => RecordMessageTrue(m, f, r)
      BY <1>6, <3>2 DEF RecordMessageTrue
    <3>4. QED BY <1>2, <3>1, <3>3 DEF HeaderMessages
  <2>3. CASE /\ ~(r.data_size % 2 # 0) /\ DataStart(f.header, r).ok
             /\ ~Seekable(DataStart(f.header, r).out)
    <3>1. es = One(TRUE, BUN_MALFORMED, "rle seek failed")
      BY <1>1, <1>6, <2>3 DEF validate_compression
    <3>2. ~DataInside(f.header, r)
      BY <2>3, DataReach
    <3>3. \A m : m.what = "rle seek failed" => RecordMessageTrue(m, f, r)
      BY <1>6, <3>2 DEF RecordMessageTrue
    <3>4. QED BY <1>2, <3>1, <3>3 DEF HeaderMessages
  <2>4. CASE /\ ~(r.data_size % 2 # 0) /\ DataStart(f.header, r).ok
             /\ Seekable(DataStart(f.header, r).out)
    <3>1. ScansPayload(f.header, r)
      BY <1>6, <2>4 DEF ScansPayload
    <3>2. seeks
      BY <3>1
    <3>3. es = RleErrors(f, DataStart(f.header, r).out, r.data_size, left,
                         r.uncompressed_size, j)
      BY <1>6, <2>4, <3>2, SchemesDiffer DEF validate_compression
    <3>4. QED BY <3>1, <3>3, RleTrue
  <2>5. QED BY <2>1, <2>2, <2>3, <2>4
<1>7. QED BY <1>1, <1>3, <1>4, <1>5, <1>6

\* validate_asset_record,
LEMMA RecordTrue ==
  ASSUME NEW f, IsFile(f), ~HeaderMalformed(f), NEW r \in BunAssetRecord,
         NEW j \in Nat, r = Entry(f, j), NEW seeks \in BOOLEAN, NEW left \in Nat,
         ScansPayload(f.header, r) =>
           seeks /\ left = AtMost(r.data_size, Available(f, DataStart(f.header, r).out))
  PROVE  AllTrue(validate_asset_record(f, f.header, r, j, seeks, left), f)
<1> DEFINE h == f.header
           ends == EndsBy(r.name_offset, r.name_length, h.string_table_size)
           c1 == Check(r.name_length = 0, BUN_MALFORMED, "empty name", <<j>>)
           c2 == Check(r.name_length # 0 /\ ~ends, BUN_MALFORMED, "name range", <<j>>)
           c3 == Check(~data_range_safe(h, r), BUN_MALFORMED, "data range", <<j>>)
           c4 == Check(r.flags > BUN_ALLOWED_FLAGS, BUN_UNSUPPORTED, "flags", <<j>>)
           c5 == Check(r.checksum # 0, BUN_UNSUPPORTED, "checksum", <<j>>)
           c6 == validate_compression(f, h, r, j, seeks, left)
           Good(es) == es \in Seq(Error) /\ AllTrue(es, f)
<1>1. h \in BunHeader /\ r.name_length \in Nat
  BY FieldTypes DEF IsFile
<1>2. /\ c1 \in Seq(Error) /\ c2 \in Seq(Error) /\ c3 \in Seq(Error)
      /\ c4 \in Seq(Error) /\ c5 \in Seq(Error)
  <2>1. <<j>> \in Seq(Nat)
    BY PlaceType
  <2>2. {"empty name", "name range", "data range", "flags", "checksum"} \subseteq Complaint
    BY DEF Complaint
  <2>3. c1 \in Seq(Error) /\ c2 \in Seq(Error)
    BY <2>1, <2>2, CheckType
  <2>4. c3 \in Seq(Error)
    BY <2>1, <2>2, CheckType
  <2>5. c4 \in Seq(Error) /\ c5 \in Seq(Error)
    BY <2>1, <2>2, CheckType
  <2>6. QED BY <2>3, <2>4, <2>5
<1>3. Good(c1)
  <2>1. r.name_length = 0 => \A m : m.what = "empty name" => RecordMessageTrue(m, f, r)
    BY DEF RecordMessageTrue
  <2>2. QED BY <1>2, <2>1, RecordCheckTrue DEF HeaderMessages
<1>4. Good(c2)
  <2>1. r.name_length # 0 /\ ~ends => r.name_length > 0 /\ ~NameInside(h, r)
    BY <1>1, RangesExact DEF name_range_safe
  <2>2. r.name_length # 0 /\ ~ends =>
          \A m : m.what = "name range" => RecordMessageTrue(m, f, r)
    BY <2>1 DEF RecordMessageTrue
  <2>3. QED BY <1>2, <2>2, RecordCheckTrue DEF HeaderMessages
<1>5. Good(c3)
  <2>1. ~data_range_safe(h, r) => ~DataInside(h, r)
    BY <1>1, RangesExact
  <2>2. ~data_range_safe(h, r) =>
          \A m : m.what = "data range" => RecordMessageTrue(m, f, r)
    BY <2>1 DEF RecordMessageTrue
  <2>3. QED BY <1>2, <2>2, RecordCheckTrue DEF HeaderMessages
<1>6. Good(c4)
  <2>1. r.flags > BUN_ALLOWED_FLAGS =>
          \A m : m.what = "flags" => RecordMessageTrue(m, f, r)
    BY DEF RecordMessageTrue
  <2>2. QED BY <1>2, <2>1, RecordCheckTrue DEF HeaderMessages
<1>7. Good(c5)
  <2>1. r.checksum # 0 => \A m : m.what = "checksum" => RecordMessageTrue(m, f, r)
    BY DEF RecordMessageTrue
  <2>2. QED BY <1>2, <2>1, RecordCheckTrue DEF HeaderMessages
<1>8. Good(c6)
  BY <1>1, CompressionType, CompressionTrue
<1>9. \A s, t : Good(s) /\ Good(t) => Good(s \o t)
  BY TrueConcat
<1>10. validate_asset_record(f, h, r, j, seeks, left) = c1 \o c2 \o c3 \o c4 \o c5 \o c6
  BY Zenon DEF validate_asset_record
<1> HIDE DEF c1, c2, c3, c4, c5, c6, Good
<1>11. Good(c1 \o c2 \o c3)
  BY <1>3, <1>4, <1>5, <1>9
<1>12. Good(c1 \o c2 \o c3 \o c4 \o c5 \o c6)
  BY <1>6, <1>7, <1>8, <1>9, <1>11
<1>13. QED BY <1>10, <1>12 DEF Good

\* and validate_asset_name, of a name that lies in its section.
LEMMA NameTrue ==
  ASSUME NEW f, IsFile(f), ~HeaderMalformed(f), NEW r \in BunAssetRecord,
         NEW j \in Nat, r = Entry(f, j), NameInside(f.header, r),
         NEW left, left = AtMost(r.name_length, Available(f, NameStart(f.header, r).out))
  PROVE  AllTrue(validate_asset_name(f, f.header, r, j, TRUE, left), f)
<1> DEFINE h == f.header
           from == NameStart(h, r).out
           n == r.name_length
           bad == BadChars(f, from, n, left)
           k == FirstOf(bad)
           m == [code |-> BUN_MALFORMED, what |-> "name byte", at |-> <<j, k>>]
<1>1. /\ NameStart(h, r).ok /\ Seekable(from) /\ from = h.string_table_offset + r.name_offset
      /\ from + n <= f.size
  BY NameReach
<1>2. /\ n \in Nat /\ n > 0 /\ f.size \in Nat /\ from \in Nat
      /\ h.string_table_offset \in Nat /\ r.name_offset \in Nat
  <2>1. h \in BunHeader
    BY DEF IsFile
  <2>2. /\ n \in Nat /\ h.string_table_offset \in Nat /\ r.name_offset \in Nat
        /\ from \in Nat
    BY <2>1, FieldTypes, StartTypes
  <2>3. QED BY <2>2, WidthAssumption DEF NameInside, IsFile, offset_t
<1>3. left = n
  BY <1>1, <1>2 DEF AtMost, Available
<1>4. bad \in SUBSET Nat /\ \A q \in Nat : q \in bad <=> q < n /\ ByteAt(f, from + q) \notin 32 .. 126
  BY <1>2, <1>3 DEF BadChars, Printable
<1>5. validate_asset_name(f, h, r, j, TRUE, left) =
        IF bad # {} THEN Check(TRUE, BUN_MALFORMED, "name byte", <<j, k>>)
        ELSE Check(left < n, BUN_MALFORMED, "name read failed", <<j>>)
  <2>1. n # 0
    BY <1>2
  <2>2. QED BY <1>1, <2>1 DEF validate_asset_name
<1> HIDE DEF from, bad
<1>6. CASE bad # {}
  <2>1. k \in bad /\ k \in Nat /\ \A q \in bad : k <= q
    <3>1. \E p \in bad : \A q \in bad : p <= q
      BY <1>4, <1>6, LeastMember
    <3>2. k \in bad /\ \A q \in bad : k <= q
      BY <3>1 DEF FirstOf
    <3>3. QED BY <1>4, <3>2
  <2> HIDE DEF k
  <2>2. m.what = "name byte" /\ m.at[1] = j /\ m.at[2] = k
    OBVIOUS
  <2> HIDE DEF m
  <2>3. MessageTrue(m, f) <=> RecordMessageTrue(m, f, r)
    BY <2>2, OfRecord DEF HeaderMessages
  <2>4. RecordMessageTrue(m, f, r) <=>
          /\ NameInside(h, r) /\ k < n
          /\ FALSE <=> ByteAt(f, from + k) \in 32 .. 126
          /\ \A q \in 0 .. k - 1 : TRUE <=> ByteAt(f, from + q) \in 32 .. 126
    BY <1>1, <2>2 DEF RecordMessageTrue, NameByteIs
  <2>5. k < n /\ ByteAt(f, from + k) \notin 32 .. 126
    BY <1>4, <2>1
  <2>6. \A q \in 0 .. k - 1 : ByteAt(f, from + q) \in 32 .. 126
    <3> SUFFICES ASSUME NEW q \in 0 .. k - 1, ByteAt(f, from + q) \notin 32 .. 126
                 PROVE  FALSE
      OBVIOUS
    <3>1. q \in Nat /\ q < k /\ q < n
      BY <1>2, <2>1, <2>5
    <3>2. q \in bad
      BY <1>4, <3>1
    <3>3. QED BY <2>1, <3>1, <3>2
  <2>7. MessageTrue(m, f)
    BY <2>3, <2>4, <2>5, <2>6
  <2>8. AllTrue(Check(TRUE, BUN_MALFORMED, "name byte", <<j, k>>), f)
    BY <2>7, TrueCheck DEF m
  <2>9. QED BY <1>5, <1>6, <2>8 DEF k
<1>7. CASE bad = {}
  <2>1. validate_asset_name(f, h, r, j, TRUE, left)
          = Check(left < n, BUN_MALFORMED, "name read failed", <<j>>)
    BY <1>5, <1>7
  <2>2. ~(left < n)
    BY <1>2, <1>3
  <2>3. AllTrue(Check(left < n, BUN_MALFORMED, "name read failed", <<j>>), f)
    BY <2>2, TrueCheck
  <2>4. QED BY <2>1, <2>3
<1>8. QED BY <1>6, <1>7

-----------------------------------------------------------------------------
(* What is wrong with a record is said of it.                                *)

\* A message of the row makes this complaint about record j.
Says(es, what, j) == \E e : In(e, es) /\ e.what = what /\ e.at[1] = j

\* A check that finds something says so.
LEMMA CheckSays ==
  ASSUME NEW bad, bad, NEW c, NEW what, NEW j
  PROVE  Says(Check(bad, c, what, <<j>>), what, j)
<1> DEFINE m == [code |-> c, what |-> what, at |-> <<j>>]
<1>1. m.what = what /\ m.at[1] = j
  OBVIOUS
<1>2. In(m, Check(bad, c, what, <<j>>))
  BY InCheck
<1> HIDE DEF m
<1>3. QED BY <1>1, <1>2 DEF Says

\* A longer row says no less.
LEMMA SaysConcat ==
  ASSUME NEW what, NEW j
  PROVE  \A s, t \in Seq(Error) :
           Says(s, what, j) \/ Says(t, what, j) => Says(s \o t, what, j)
BY InConcat DEF Says

\* What answer the RLE check of n bytes owes.
RleOwes(what, f, from, n, declared) ==
  LET sum == Counts(f, from, n \div 2)
      zero == \E p \in 0 .. (n \div 2) - 1 :
                ByteAt(f, from + 2 * p) = 0 /\ Counts(f, from, p) <= UINT64_MAX
  IN  /\ zero => what = "rle zero count"
      /\ ~zero /\ sum > UINT64_MAX => what = "rle expanded overflow"
      /\ ~zero /\ sum <= UINT64_MAX /\ sum # declared => what = "rle size"

\* It gives that answer when the payload is all there.
LEMMA RleAnswers ==
  ASSUME NEW f, IsFile(f), NEW from \in Nat, NEW n \in Nat, NEW left \in Nat, n <= left,
         NEW declared
  PROVE  RleOwes(RleVerdict(f, from, n, left, declared).what, f, from, n, declared)
<1> DEFINE pairs == n \div 2
           C(k) == Counts(f, from, k)
           Z(p) == ByteAt(f, from + 2 * p) = 0
           zero == \E p \in 0 .. pairs - 1 : Z(p) /\ C(p) <= UINT64_MAX
           stops == StoppingPairs(f, from, n)
           first == FirstOf(stops)
           v == RleVerdict(f, from, n, left, declared)
<1>1. WholeChunks(n, left) = n /\ ~(n < n) /\ pairs \in Nat /\ UINT64_MAX \in Nat
  BY WidthAssumption DEF WholeChunks
<1>2. v = IF stops # {}
            THEN IF Z(first)
                   THEN [what |-> "rle zero count", pos |-> 2 * first]
                   ELSE [what |-> "rle expanded overflow", pos |-> 2 * first]
          ELSE IF C(pairs) # declared
                 THEN [what |-> "rle size", pos |-> n]
                 ELSE [what |-> "ok", pos |-> n]
  BY <1>1 DEF RleVerdict
<1>3. \A p \in Nat : p \in stops <=> p <= pairs - 1 /\ (Z(p) \/ C(p + 1) > UINT64_MAX)
  BY <1>1 DEF StoppingPairs
<1>4. stops \in SUBSET Nat
  BY DEF StoppingPairs
<1>5. stops # {} => first \in stops /\ first \in Nat /\ \A q \in stops : first <= q
  <2> SUFFICES ASSUME stops # {}
               PROVE  first \in stops /\ \A q \in stops : first <= q
    BY <1>4
  <2>1. \E p \in stops : \A q \in stops : p <= q
    BY <1>4, LeastMember
  <2>2. QED BY <2>1 DEF FirstOf
<1>6. \A k \in Nat : C(k) \in Nat
  BY CountsSteps
<1>7. \A j, k \in Nat : j <= k => C(j) <= C(k)
  BY CountsMonotone
<1>8. C(0) = 0
  BY CountsSteps
<1> HIDE DEF C, Z, stops, first, v, pairs
<1>9. ASSUME zero
      PROVE  v.what = "rle zero count"
  <2>1. PICK p \in Nat : p <= pairs - 1 /\ Z(p) /\ C(p) <= UINT64_MAX
    BY <1>1, <1>9
  <2>2. p \in stops
    BY <1>3, <2>1
  <2>3. first \in stops /\ first \in Nat /\ first <= p
    BY <1>5, <2>2
  <2>4. Z(first)
    <3>1. CASE first = p
      BY <2>1, <3>1
    <3>2. CASE first # p
      <4>1. first + 1 \in Nat /\ first + 1 <= p
        BY <2>3, <3>2
      <4>2. C(first + 1) <= C(p) /\ C(first + 1) \in Nat /\ C(p) \in Nat
        BY <1>6, <1>7, <4>1
      <4>3. ~(C(first + 1) > UINT64_MAX)
        BY <1>1, <2>1, <4>2
      <4>4. QED BY <1>3, <2>3, <4>3
    <3>3. QED BY <3>1, <3>2
  <2>5. v = [what |-> "rle zero count", pos |-> 2 * first]
    BY <1>2, <2>2, <2>4
  <2>6. QED BY <2>5
<1>10. ASSUME ~zero, C(pairs) > UINT64_MAX
       PROVE  v.what = "rle expanded overflow"
  <2>1. pairs # 0
    BY <1>1, <1>8, <1>10
  <2>2. pairs - 1 \in Nat /\ (pairs - 1) + 1 = pairs
    BY <1>1, <2>1
  <2>3. pairs - 1 \in stops
    BY <1>3, <1>10, <2>2
  <2>4. first \in stops /\ first \in Nat /\ first <= pairs - 1
    BY <1>3, <1>5, <2>3
  <2>5. ~Z(first)
    <3> SUFFICES ASSUME Z(first) PROVE FALSE
      OBVIOUS
    <3>1. C(first) > UINT64_MAX
      <4>1. first \in 0 .. pairs - 1
        BY <1>1, <2>4
      <4>2. ~(C(first) <= UINT64_MAX)
        BY <1>10, <4>1
      <4>3. QED BY <1>1, <1>6, <2>4, <4>2
    <3>2. first # 0
      BY <1>1, <1>8, <3>1
    <3>3. first - 1 \in Nat /\ (first - 1) + 1 = first /\ first - 1 <= pairs - 1
      BY <1>1, <2>4, <3>2
    <3>4. first - 1 \in stops
      BY <1>3, <3>1, <3>3
    <3>5. QED BY <1>5, <2>4, <3>3, <3>4
  <2>6. v = [what |-> "rle expanded overflow", pos |-> 2 * first]
    BY <1>2, <2>3, <2>5
  <2>7. QED BY <2>6
<1>11. ASSUME ~zero, C(pairs) <= UINT64_MAX, C(pairs) # declared
       PROVE  v.what = "rle size"
  <2>1. \A p \in Nat : p \notin stops
    <3> SUFFICES ASSUME NEW p \in Nat, p \in stops PROVE FALSE
      OBVIOUS
    <3>1. p <= pairs - 1 /\ p + 1 \in Nat /\ p + 1 <= pairs /\ p <= pairs
          /\ p \in 0 .. pairs - 1
      BY <1>1, <1>3
    <3>2. C(p) <= C(pairs) /\ C(p + 1) <= C(pairs)
      BY <1>1, <1>7, <3>1
    <3>3. C(p) <= UINT64_MAX /\ ~(C(p + 1) > UINT64_MAX)
      BY <1>1, <1>6, <1>11, <3>1, <3>2
    <3>4. QED BY <1>3, <1>11, <3>1, <3>3
  <2>2. stops = {}
    BY <1>4, <2>1
  <2>3. v = [what |-> "rle size", pos |-> n]
    BY <1>2, <1>11, <2>2
  <2>4. QED BY <2>3
<1>12. QED BY <1>9, <1>10, <1>11 DEF RleOwes, C, Z, v, pairs

\* So what is wrong with a payload in its section is said of it.
LEMMA RleComplains ==
  ASSUME NEW f, IsFile(f), ~HeaderMalformed(f), NEW r \in BunAssetRecord,
         NEW j \in Nat, r.compression = BUN_COMPRESSION_RLE, r.data_size % 2 = 0,
         DataInside(f.header, r), NEW seeks, NEW left \in Nat,
         ScansPayload(f.header, r) =>
           seeks /\ left = AtMost(r.data_size, Available(f, DataStart(f.header, r).out)),
         NEW what \in RleComplaints(f, r)
  PROVE  Says(validate_compression(f, f.header, r, j, seeks, left), what, j)
<1> DEFINE h == f.header
           from == h.data_section_offset + r.data_offset
           n == r.data_size
           v == RleVerdict(f, from, n, left, r.uncompressed_size)
           at == IF v.what = "rle zero count" THEN <<j, v.pos>> ELSE <<j>>
           m == [code |-> BUN_MALFORMED, what |-> v.what, at |-> at]
<1>1. /\ DataStart(h, r).ok /\ Seekable(DataStart(h, r).out) /\ DataStart(h, r).out = from
      /\ from + n <= f.size
  BY DataReach
<1>2. n \in Nat /\ from \in Nat /\ f.size \in Nat
  <2>1. h \in BunHeader
    BY DEF IsFile
  <2>2. n \in Nat /\ DataStart(h, r).out \in Nat
    BY <2>1, FieldTypes, StartTypes
  <2>3. QED BY <1>1, <2>2, WidthAssumption DEF IsFile, offset_t
<1>3. ScansPayload(h, r)
  BY <1>1 DEF ScansPayload
<1>4. seeks /\ left = n
  <2>1. left = AtMost(n, Available(f, from)) /\ seeks
    BY <1>1, <1>3
  <2>2. QED BY <1>1, <1>2, <2>1 DEF AtMost, Available
<1>5. validate_compression(f, h, r, j, seeks, left)
        = RleErrors(f, from, n, left, r.uncompressed_size, j)
  BY <1>1, <1>4, SchemesDiffer DEF validate_compression
<1>6. what = v.what /\ v.what # "ok"
  <2> DEFINE sum == Counts(f, from, n \div 2)
             zero == \E p \in 0 .. (n \div 2) - 1 :
                       ByteAt(f, from + 2 * p) = 0 /\ Counts(f, from, p) <= UINT64_MAX
  <2>1. RleOwes(v.what, f, from, n, r.uncompressed_size)
    <3>1. n <= left
      BY <1>2, <1>4
    <3> HIDE DEF from, n
    <3>2. QED BY <1>2, <3>1, RleAnswers
  <2>2. what \in Complain(zero, "rle zero count")
          \cup Complain(~zero /\ sum > UINT64_MAX, "rle expanded overflow")
          \cup Complain(~zero /\ sum <= UINT64_MAX /\ sum # r.uncompressed_size, "rle size")
    BY Zenon DEF RleComplaints
  <2> HIDE DEF sum, zero, v
  <2>3. \/ zero /\ what = "rle zero count"
        \/ ~zero /\ sum > UINT64_MAX /\ what = "rle expanded overflow"
        \/ ~zero /\ sum <= UINT64_MAX /\ sum # r.uncompressed_size /\ what = "rle size"
    BY <2>2 DEF Complain
  <2>4. /\ zero => v.what = "rle zero count"
        /\ ~zero /\ sum > UINT64_MAX => v.what = "rle expanded overflow"
        /\ ~zero /\ sum <= UINT64_MAX /\ sum # r.uncompressed_size => v.what = "rle size"
    BY <2>1, Zenon DEF RleOwes, sum, zero
  <2>5. QED BY <2>3, <2>4
<1> HIDE DEF v
<1>7. RleErrors(f, from, n, left, r.uncompressed_size, j)
        = Check(v.what # "ok", BUN_MALFORMED, v.what, at)
  BY Zenon DEF RleErrors, at, v
<1>8. In(m, Check(v.what # "ok", BUN_MALFORMED, v.what, at))
  BY <1>6, InCheck
<1>9. m.what = v.what /\ m.at = at
  OBVIOUS
<1>10. at[1] = j
  OBVIOUS
<1> HIDE DEF m, at
<1>11. QED BY <1>5, <1>6, <1>7, <1>8, <1>9, <1>10 DEF Says

\* The complaints BunProperties expects, one by one.
LEMMA Complaints ==
  ASSUME NEW f, NEW r, NEW what \in RecordComplaints(f, r)
  PROVE  \/ what = "empty name" /\ r.name_length = 0
         \/ what = "name range" /\ r.name_length > 0 /\ ~NameInside(f.header, r)
         \/ what = "name byte" /\ NameInside(f.header, r) /\ ~NamePrintable(f, r)
         \/ what = "data range" /\ ~DataInside(f.header, r)
         \/ what = "flags" /\ r.flags > BUN_ALLOWED_FLAGS
         \/ what = "checksum" /\ r.checksum # 0
         \/ /\ what = "uncompressed size"
            /\ r.compression = BUN_COMPRESSION_NONE /\ r.uncompressed_size # 0
         \/ what = "zlib" /\ r.compression = BUN_COMPRESSION_ZLIB
         \/ what = "unknown compression" /\ r.compression > BUN_COMPRESSION_ZLIB
         \/ what = "rle odd" /\ r.compression = BUN_COMPRESSION_RLE /\ r.data_size % 2 # 0
         \/ /\ r.compression = BUN_COMPRESSION_RLE /\ r.data_size % 2 = 0
            /\ DataInside(f.header, r) /\ what \in RleComplaints(f, r)
<1> DEFINE h == f.header
           rle == r.compression = BUN_COMPRESSION_RLE
           even == r.data_size % 2 = 0
           more == IF rle /\ even /\ DataInside(h, r) THEN RleComplaints(f, r) ELSE {}
<1>1. \/ what \in Complain(r.name_length = 0, "empty name")
      \/ what \in Complain(r.name_length > 0 /\ ~NameInside(h, r), "name range")
      \/ what \in Complain(NameInside(h, r) /\ ~NamePrintable(f, r), "name byte")
      \/ what \in Complain(~DataInside(h, r), "data range")
      \/ what \in Complain(r.flags > BUN_ALLOWED_FLAGS, "flags")
      \/ what \in Complain(r.checksum # 0, "checksum")
      \/ what \in Complain(r.compression = BUN_COMPRESSION_NONE /\ r.uncompressed_size # 0,
                          "uncompressed size")
      \/ what \in Complain(r.compression = BUN_COMPRESSION_ZLIB, "zlib")
      \/ what \in Complain(r.compression > BUN_COMPRESSION_ZLIB, "unknown compression")
      \/ what \in Complain(rle /\ ~even, "rle odd")
      \/ what \in more
  BY Zenon DEF RecordComplaints
<1>2. \A broken, w : what \in Complain(broken, w) => broken /\ what = w
  BY DEF Complain
<1>3. what \in more => rle /\ even /\ DataInside(h, r) /\ what \in RleComplaints(f, r)
  OBVIOUS
<1> HIDE DEF more
<1> DEFINE Goal ==
  \/ what = "empty name" /\ r.name_length = 0
  \/ what = "name range" /\ r.name_length > 0 /\ ~NameInside(h, r)
  \/ what = "name byte" /\ NameInside(h, r) /\ ~NamePrintable(f, r)
  \/ what = "data range" /\ ~DataInside(h, r)
  \/ what = "flags" /\ r.flags > BUN_ALLOWED_FLAGS
  \/ what = "checksum" /\ r.checksum # 0
  \/ /\ what = "uncompressed size"
     /\ r.compression = BUN_COMPRESSION_NONE /\ r.uncompressed_size # 0
  \/ what = "zlib" /\ r.compression = BUN_COMPRESSION_ZLIB
  \/ what = "unknown compression" /\ r.compression > BUN_COMPRESSION_ZLIB
  \/ what = "rle odd" /\ rle /\ ~even
  \/ rle /\ even /\ DataInside(h, r) /\ what \in RleComplaints(f, r)
<1>4. what \in Complain(r.name_length = 0, "empty name") => Goal
  BY Zenon DEF Complain
<1>5. what \in Complain(r.name_length > 0 /\ ~NameInside(h, r), "name range") => Goal
  BY Zenon DEF Complain
<1>6. what \in Complain(NameInside(h, r) /\ ~NamePrintable(f, r), "name byte") => Goal
  BY Zenon DEF Complain
<1>7. what \in Complain(~DataInside(h, r), "data range") => Goal
  BY Zenon DEF Complain
<1>8. what \in Complain(r.flags > BUN_ALLOWED_FLAGS, "flags") => Goal
  BY Zenon DEF Complain
<1>9. what \in Complain(r.checksum # 0, "checksum") => Goal
  BY Zenon DEF Complain
<1>10. what \in Complain(r.compression = BUN_COMPRESSION_NONE /\ r.uncompressed_size # 0,
                     "uncompressed size") => Goal
  BY Zenon DEF Complain
<1>11. what \in Complain(r.compression = BUN_COMPRESSION_ZLIB, "zlib") => Goal
  BY Zenon DEF Complain
<1>12. what \in Complain(r.compression > BUN_COMPRESSION_ZLIB, "unknown compression") => Goal
  BY Zenon DEF Complain
<1>13. what \in Complain(rle /\ ~even, "rle odd") => Goal
  BY Zenon DEF Complain
<1>14. what \in more => Goal
  BY <1>3, Zenon
<1> HIDE DEF Goal
<1>15. Goal
  BY <1>1, <1>4, <1>5, <1>6, <1>7, <1>8, <1>9, <1>10, <1>11, <1>12, <1>13, <1>14, Zenon
<1>16. QED BY <1>15, Zenon DEF Goal

\* The one about a name's bytes.
LEMMA NameByteComplaint ==
  ASSUME NEW f, NEW r
  PROVE  "name byte" \in RecordComplaints(f, r) <=> NameInside(f.header, r) /\ ~NamePrintable(f, r)
<1>1. ASSUME "name byte" \in RecordComplaints(f, r)
      PROVE  NameInside(f.header, r) /\ ~NamePrintable(f, r)
  <2>1. "name byte" \notin RleComplaints(f, r)
    BY DEF RleComplaints, Complain
  <2>2. QED BY <1>1, <2>1, Complaints
<1>2. ASSUME NameInside(f.header, r), ~NamePrintable(f, r)
      PROVE  "name byte" \in RecordComplaints(f, r)
  <2>1. "name byte" \in Complain(NameInside(f.header, r) /\ ~NamePrintable(f, r), "name byte")
    BY <1>2 DEF Complain
  <2>2. QED BY <2>1, Zenon DEF RecordComplaints
<1>3. QED BY <1>1, <1>2

\* A scheme beyond the last is none of the three.
LEMMA UnknownScheme ==
  ASSUME NEW c \in Nat, c > BUN_COMPRESSION_ZLIB
  PROVE  c # BUN_COMPRESSION_NONE /\ c # BUN_COMPRESSION_RLE /\ c # BUN_COMPRESSION_ZLIB
BY DEF BUN_COMPRESSION_NONE, BUN_COMPRESSION_RLE, BUN_COMPRESSION_ZLIB

\* validate_compression says what is wrong with the compression.
LEMMA CompressionSays ==
  ASSUME NEW f, IsFile(f), ~HeaderMalformed(f), NEW r \in BunAssetRecord,
         NEW j \in Nat, NEW seeks, NEW left \in Nat,
         ScansPayload(f.header, r) =>
           seeks /\ left = AtMost(r.data_size, Available(f, DataStart(f.header, r).out)),
         NEW what,
         \/ /\ what = "uncompressed size"
            /\ r.compression = BUN_COMPRESSION_NONE /\ r.uncompressed_size # 0
         \/ what = "zlib" /\ r.compression = BUN_COMPRESSION_ZLIB
         \/ what = "unknown compression" /\ r.compression > BUN_COMPRESSION_ZLIB
         \/ what = "rle odd" /\ r.compression = BUN_COMPRESSION_RLE /\ r.data_size % 2 # 0
         \/ /\ r.compression = BUN_COMPRESSION_RLE /\ r.data_size % 2 = 0
            /\ DataInside(f.header, r) /\ what \in RleComplaints(f, r)
  PROVE  Says(validate_compression(f, f.header, r, j, seeks, left), what, j)
<1> DEFINE es == validate_compression(f, f.header, r, j, seeks, left)
<1>1. CASE /\ what = "uncompressed size"
           /\ r.compression = BUN_COMPRESSION_NONE /\ r.uncompressed_size # 0
  <2>1. es = Check(r.uncompressed_size # 0, BUN_MALFORMED, "uncompressed size", <<j>>)
    BY <1>1, SchemesDiffer DEF validate_compression
  <2>2. QED BY <1>1, <2>1, CheckSays
<1>2. CASE what = "zlib" /\ r.compression = BUN_COMPRESSION_ZLIB
  <2>1. es = Check(TRUE, BUN_UNSUPPORTED, "zlib", <<j>>)
    BY <1>2, SchemesDiffer DEF validate_compression
  <2>2. QED BY <1>2, <2>1, CheckSays
<1>3. CASE what = "unknown compression" /\ r.compression > BUN_COMPRESSION_ZLIB
  <2>1. /\ r.compression # BUN_COMPRESSION_NONE /\ r.compression # BUN_COMPRESSION_RLE
        /\ r.compression # BUN_COMPRESSION_ZLIB
    <3>1. r.compression \in Nat
      BY FieldTypes DEF IsFile
    <3>2. r.compression > BUN_COMPRESSION_ZLIB
      BY <1>3
    <3>3. QED BY <3>1, <3>2, UnknownScheme
  <2>2. es = Check(TRUE, BUN_UNSUPPORTED, "unknown compression", <<j>>)
    BY <2>1 DEF validate_compression
  <2>3. QED BY <1>3, <2>2, CheckSays
<1>4. CASE what = "rle odd" /\ r.compression = BUN_COMPRESSION_RLE /\ r.data_size % 2 # 0
  <2>1. es = Check(TRUE, BUN_MALFORMED, "rle odd", <<j>>)
    BY <1>4, SchemesDiffer DEF validate_compression
  <2>2. QED BY <1>4, <2>1, CheckSays
<1>5. CASE /\ r.compression = BUN_COMPRESSION_RLE /\ r.data_size % 2 = 0
           /\ DataInside(f.header, r) /\ what \in RleComplaints(f, r)
  BY <1>5, RleComplains
<1>6. QED BY <1>1, <1>2, <1>3, <1>4, <1>5

\* validate_asset_record says everything but what is wrong with the name's
\* bytes, when no read of the payload fails.
LEMMA RecordSays ==
  ASSUME NEW f, IsFile(f), ~HeaderMalformed(f), NEW r \in BunAssetRecord,
         NEW j \in Nat, NEW seeks, NEW left \in Nat,
         ScansPayload(f.header, r) =>
           seeks /\ left = AtMost(r.data_size, Available(f, DataStart(f.header, r).out))
  PROVE  \A what \in RecordComplaints(f, r) \ {"name byte"} :
           Says(validate_asset_record(f, f.header, r, j, seeks, left), what, j)
<1> DEFINE h == f.header
           ends == EndsBy(r.name_offset, r.name_length, h.string_table_size)
           c1 == Check(r.name_length = 0, BUN_MALFORMED, "empty name", <<j>>)
           c2 == Check(r.name_length # 0 /\ ~ends, BUN_MALFORMED, "name range", <<j>>)
           c3 == Check(~data_range_safe(h, r), BUN_MALFORMED, "data range", <<j>>)
           c4 == Check(r.flags > BUN_ALLOWED_FLAGS, BUN_UNSUPPORTED, "flags", <<j>>)
           c5 == Check(r.checksum # 0, BUN_UNSUPPORTED, "checksum", <<j>>)
           c6 == validate_compression(f, h, r, j, seeks, left)
<1>1. h \in BunHeader /\ r.name_length \in Nat 
  BY FieldTypes DEF IsFile
<1>2. /\ c1 \in Seq(Error) /\ c2 \in Seq(Error) /\ c3 \in Seq(Error)
      /\ c4 \in Seq(Error) /\ c5 \in Seq(Error)
  <2>1. <<j>> \in Seq(Nat)
    BY PlaceType
  <2>2. {"empty name", "name range", "data range", "flags", "checksum"} \subseteq Complaint
    BY DEF Complaint
  <2>3. c1 \in Seq(Error) /\ c2 \in Seq(Error)
    BY <2>1, <2>2, CheckType
  <2>4. c3 \in Seq(Error)
    BY <2>1, <2>2, CheckType
  <2>5. c4 \in Seq(Error) /\ c5 \in Seq(Error)
    BY <2>1, <2>2, CheckType
  <2>6. QED BY <2>3, <2>4, <2>5
<1>3. c6 \in Seq(Error)
  BY <1>1, CompressionType
<1> DEFINE wrong == r.name_length > 0 /\ ~NameInside(h, r)
<1>4. wrong => r.name_length # 0 /\ ~ends
  BY <1>1, RangesExact DEF name_range_safe
<1> HIDE DEF ends
<1> TAKE what \in RecordComplaints(f, r) \ {"name byte"}
<1> DEFINE S(es) == Says(es, what, j)
<1>5. S(c1) \/ S(c2) \/ S(c3) \/ S(c4) \/ S(c5) \/ S(c6)
  <2>1. CASE what = "empty name" /\ r.name_length = 0
    BY <2>1, CheckSays
  <2>2. CASE what = "name range" /\ r.name_length > 0 /\ ~NameInside(h, r)
    BY <1>4, <2>2, CheckSays
  <2>3. CASE what = "data range" /\ ~DataInside(h, r)
    <3>1. ~data_range_safe(h, r)
      BY <1>1, <2>3, RangesExact
    <3>2. QED BY <2>3, <3>1, CheckSays
  <2>4. CASE what = "flags" /\ r.flags > BUN_ALLOWED_FLAGS
    BY <2>4, CheckSays
  <2>5. CASE what = "checksum" /\ r.checksum # 0
    BY <2>5, CheckSays
  <2>6. ASSUME \/ /\ what = "uncompressed size"
                  /\ r.compression = BUN_COMPRESSION_NONE /\ r.uncompressed_size # 0
               \/ what = "zlib" /\ r.compression = BUN_COMPRESSION_ZLIB
               \/ what = "unknown compression" /\ r.compression > BUN_COMPRESSION_ZLIB
               \/ what = "rle odd" /\ r.compression = BUN_COMPRESSION_RLE /\ r.data_size % 2 # 0
               \/ /\ r.compression = BUN_COMPRESSION_RLE /\ r.data_size % 2 = 0
                  /\ DataInside(f.header, r) /\ what \in RleComplaints(f, r)
        PROVE  S(c6)
    BY <2>6, CompressionSays
  <2>7. QED BY <2>1, <2>2, <2>3, <2>4, <2>5, <2>6, Complaints
<1>6. \A s, t \in Seq(Error) : s \o t \in Seq(Error) /\ (S(s) \/ S(t) => S(s \o t))
  BY SaysConcat, ConcatType
<1>7. validate_asset_record(f, h, r, j, seeks, left) = c1 \o c2 \o c3 \o c4 \o c5 \o c6
  BY Zenon DEF validate_asset_record, ends
<1> HIDE DEF c1, c2, c3, c4, c5, c6, S
<1>8. /\ c1 \o c2 \o c3 \in Seq(Error)
      /\ S(c1) \/ S(c2) \/ S(c3) => S(c1 \o c2 \o c3)
  BY <1>2, <1>6
<1>9. /\ c1 \o c2 \o c3 \o c4 \o c5 \in Seq(Error)
      /\ S(c1 \o c2 \o c3) \/ S(c4) \/ S(c5) => S(c1 \o c2 \o c3 \o c4 \o c5)
  BY <1>2, <1>6, <1>8
<1>10. S(c1 \o c2 \o c3 \o c4 \o c5) \/ S(c6) => S(c1 \o c2 \o c3 \o c4 \o c5 \o c6)
  BY <1>3, <1>6, <1>9
<1>11. QED BY <1>5, <1>7, <1>8, <1>9, <1>10 DEF S

\* validate_asset_name says that.
LEMMA NameSays ==
  ASSUME NEW f, IsFile(f), ~HeaderMalformed(f), NEW r \in BunAssetRecord,
         NEW j \in Nat, NameInside(f.header, r), ~NamePrintable(f, r),
         NEW left, left = AtMost(r.name_length, Available(f, NameStart(f.header, r).out))
  PROVE  Says(validate_asset_name(f, f.header, r, j, TRUE, left), "name byte", j)
<1> DEFINE h == f.header
           from == NameStart(h, r).out
           n == r.name_length
           bad == BadChars(f, from, n, left)
           m == [code |-> BUN_MALFORMED, what |-> "name byte", at |-> <<j, FirstOf(bad)>>]
<1>1. /\ NameStart(h, r).ok /\ Seekable(from) /\ from = h.string_table_offset + r.name_offset
      /\ from + n <= f.size
  BY NameReach
<1>2. n \in Nat /\ n > 0 /\ f.size \in Nat /\ from \in Nat
  <2>1. h \in BunHeader
    BY DEF IsFile
  <2>2. n \in Nat /\ from \in Nat
    BY <2>1, FieldTypes, StartTypes
  <2>3. QED BY <2>2, WidthAssumption DEF NameInside, IsFile, offset_t
<1>3. left = n
  BY <1>1, <1>2 DEF AtMost, Available
<1>4. bad # {}
  <2>1. PICK k \in 0 .. n - 1 :
          ByteAt(f, h.string_table_offset + r.name_offset + k) \notin 32 .. 126
    BY DEF NamePrintable
  <2>2. k < left /\ ByteAt(f, from + k) \notin 32 .. 126
    BY <1>1, <1>2, <1>3, <2>1
  <2>3. k \in bad
    BY <2>1, <2>2 DEF BadChars, Printable
  <2>4. QED BY <2>3
<1>5. validate_asset_name(f, h, r, j, TRUE, left)
        = Check(TRUE, BUN_MALFORMED, "name byte", <<j, FirstOf(bad)>>)
  <2>1. n # 0
    BY <1>2
  <2>2. QED BY <1>1, <1>4, <2>1 DEF validate_asset_name
<1>6. In(m, Check(TRUE, BUN_MALFORMED, "name byte", <<j, FirstOf(bad)>>))
  BY InCheck
<1>7. m.what = "name byte" /\ m.at[1] = j
  OBVIOUS
<1> HIDE DEF m
<1>8. QED BY <1>5, <1>6, <1>7 DEF Says

-----------------------------------------------------------------------------
(* What is wrong with a header is said of it.                                *)

\* A message of the row makes the complaint c, at its place.
Tells(es, c) == \E e : In(e, es) /\ e.what = c.what /\ e.at = c.at

HeaderSaid(es, f) == \A c \in HeaderComplaints(f) : Tells(es, c)

\* A longer row tells no less,
LEMMA TellsConcat ==
  ASSUME NEW c
  PROVE  \A s, t \in Seq(Error) : Tells(s, c) \/ Tells(t, c) => Tells(s \o t, c)
BY InConcat DEF Tells

\* and a check that finds something tells it.
LEMMA CheckTells ==
  ASSUME NEW bad, bad, NEW code, NEW c
  PROVE  Tells(Check(bad, code, c.what, c.at), c)
<1> DEFINE m == [code |-> code, what |-> c.what, at |-> c.at]
<1>1. m.what = c.what /\ m.at = c.at
  OBVIOUS
<1>2. In(m, Check(bad, code, c.what, c.at))
  BY InCheck
<1> HIDE DEF m
<1>3. QED BY <1>1, <1>2 DEF Tells

\* The places there are.
LEMMA Places ==
  ASSUME NEW c \in HeaderPlaces
  PROVE  \/ c.what = "magic" /\ c.at = <<>>
         \/ c.what = "version" /\ c.at = <<>>
         \/ \E k \in 1 .. 5 : c.what = "align" /\ c.at = <<k>>
         \/ \E k \in 1 .. 4 : c.what = "end overflow" /\ c.at = <<k>>
         \/ \E k \in 1 .. 4 : c.what = "outside file" /\ c.at = <<k>>
         \/ \E j, k \in 1 .. 4 : j < k /\ c.what = "overlap" /\ c.at = <<j, k>>
<1>1. CASE c \in [what : {"magic", "version"}, at : {<<>>}]
  <2>1. c.what \in {"magic", "version"} /\ c.at \in {<<>>}
    BY <1>1
  <2>2. QED BY <2>1
<1>2. CASE c \in [what : {"align"}, at : {<<k>> : k \in 1 .. 5}]
  <2>1. c.what \in {"align"} /\ c.at \in {<<k>> : k \in 1 .. 5}
    BY <1>2
  <2>2. QED BY <2>1
<1>3. CASE c \in [what : {"end overflow", "outside file"}, at : {<<k>> : k \in 1 .. 4}]
  <2>1. /\ c.what \in {"end overflow", "outside file"}
        /\ c.at \in {<<k>> : k \in 1 .. 4}
    BY <1>3
  <2>2. QED BY <2>1
<1>4. CASE c \in [what : {"overlap"}, at : {p \in (1 .. 4) \X (1 .. 4) : p[1] < p[2]}]
  <2>1. /\ c.what \in {"overlap"}
        /\ c.at \in {p \in (1 .. 4) \X (1 .. 4) : p[1] < p[2]}
    BY <1>4
  <2>2. c.at = <<c.at[1], c.at[2]>> /\ c.at[1] \in 1 .. 4 /\ c.at[2] \in 1 .. 4
    BY <2>1
  <2>3. QED BY <2>1, <2>2
<1>5. QED BY <1>1, <1>2, <1>3, <1>4, Zenon DEF HeaderPlaces

\* The magic number and the version,
LEMMA BasicTells ==
  ASSUME NEW f, f.header \in BunHeader, NEW c, HeaderMessageTrue(c, f), c.at = <<>>,
         c.what \in {"magic", "version"}
  PROVE  Tells(validate_header_basic(f.header), c)
<1> DEFINE h == f.header
           old == \/ h.version_major # BUN_VERSION_MAJOR
                  \/ h.version_minor # BUN_VERSION_MINOR
           a == Check(h.magic # BUN_MAGIC, BUN_MALFORMED, "magic", <<>>)
           b == Check(old, BUN_UNSUPPORTED, "version", <<>>)
<1>1. c.what = "magic" => h.magic # BUN_MAGIC
  BY DEF HeaderMessageTrue
<1>2. c.what = "version" => old
  BY DEF HeaderMessageTrue, HeaderUnsupported, BUN_VERSION_MAJOR, BUN_VERSION_MINOR
<1> HIDE DEF old
<1>3. Tells(a, c) \/ Tells(b, c)
  <2>1. CASE c.what = "magic"
    BY <1>1, <2>1, CheckTells
  <2>2. CASE c.what = "version"
    BY <1>2, <2>2, CheckTells
  <2>3. QED BY <2>1, <2>2
<1>4. a \in Seq(Error) /\ b \in Seq(Error)
  BY CheckType, PlaceType DEF Complaint
<1>5. validate_header_basic(h) = a \o b
  BY DEF validate_header_basic, old
<1> HIDE DEF a, b
<1>6. QED BY <1>3, <1>4, <1>5, TellsConcat

\* alignment,
LEMMA AlignmentTells ==
  ASSUME NEW f, f.header \in BunHeader, NEW k \in 1 .. 5, NEW c, c.what = "align",
         c.at = <<k>>, HeaderMessageTrue(c, f)
  PROVE  Tells(Alignment(f.header), c)
<1> DEFINE h == f.header
           aligned == <<h.asset_table_offset, h.string_table_offset,
                        h.string_table_size, h.data_section_offset,
                        h.data_section_size>>
           row(n, l) == Check(~is_aligned4(n), BUN_MALFORMED, "align", <<l>>)
           c1 == row(h.asset_table_offset, 1)
           c2 == row(h.string_table_offset, 2)
           c3 == row(h.string_table_size, 3)
           c4 == row(h.data_section_offset, 4)
           c5 == row(h.data_section_size, 5)
<1>1. ~is_aligned4(aligned[k])
  <2>1. c.at[1] = k
    OBVIOUS
  <2>2. QED BY <2>1 DEF HeaderMessageTrue, is_aligned4
<1>2. Tells(row(aligned[k], k), c)
  BY <1>1, CheckTells
<1>3. \A n : \A l \in 1 .. 5 : row(n, l) \in Seq(Error)
  <2> TAKE n
  <2> TAKE l \in 1 .. 5
  <2>1. <<l>> \in Seq(Nat) /\ "align" \in Complaint
    BY PlaceType DEF Complaint
  <2>2. QED BY <2>1, CheckType
<1>4. /\ c1 \in Seq(Error) /\ c2 \in Seq(Error) /\ c3 \in Seq(Error)
      /\ c4 \in Seq(Error) /\ c5 \in Seq(Error)
  BY <1>3
<1>5. Tells(c1, c) \/ Tells(c2, c) \/ Tells(c3, c) \/ Tells(c4, c) \/ Tells(c5, c)
  <2> HIDE DEF row
  <2>1. QED BY <1>2
<1>6. Alignment(h) = c1 \o c2 \o c3 \o c4 \o c5
  BY DEF Alignment
<1>7. \A s, t \in Seq(Error) :
        s \o t \in Seq(Error) /\ (Tells(s, c) \/ Tells(t, c) => Tells(s \o t, c))
  BY TellsConcat, ConcatType
<1> HIDE DEF c1, c2, c3, c4, c5
<1>8. /\ c1 \o c2 \o c3 \in Seq(Error)
      /\ Tells(c1, c) \/ Tells(c2, c) \/ Tells(c3, c) => Tells(c1 \o c2 \o c3, c)
  BY <1>4, <1>7
<1>9. /\ c1 \o c2 \o c3 \o c4 \in Seq(Error)
      /\ Tells(c1 \o c2 \o c3, c) \/ Tells(c4, c) => Tells(c1 \o c2 \o c3 \o c4, c)
  BY <1>4, <1>7, <1>8
<1>10. QED BY <1>4, <1>5, <1>6, <1>7, <1>8, <1>9

\* bounds: what the checks of a section come to,
LEMMA BoundsOwe ==
  ASSUME NEW f, f.header \in BunHeader, f.size \in offset_t, NEW k \in 1 .. 4
  PROVE  LET s == sections(f.header)[k]
             t == HeaderSections(f.header)[k]
         IN  /\ DeclaredEnd(t) > UINT64_MAX => ~section_end(s).ok
             /\ DeclaredEnd(t) <= UINT64_MAX /\ ~Inside(t, f)
                => section_end(s).ok /\ ~check_range_within_file(s.offset, s.size, f.size)
             /\ <<k>> \in Seq(Nat)
             /\ {"end overflow", "outside file"} \subseteq Complaint
<1> DEFINE s == sections(f.header)[k]
           t == HeaderSections(f.header)[k]
           past == section_end(s).ok /\ ~check_range_within_file(s.offset, s.size, f.size)
<1>1. s \in SectionType /\ t.lo = s.offset /\ t.len = s.size
  BY SameSections
<1>2. /\ section_end(s).ok <=> s.offset + s.size <= UINT64_MAX
      /\ section_end(s).ok => section_end(s).out = s.offset + s.size
  BY <1>1, EndExact
<1>3. s.offset \in Nat /\ s.size \in Nat /\ f.size \in Nat
  BY <1>1, WidthAssumption DEF SectionType, u64, offset_t
<1>4. past <=> s.offset + s.size <= UINT64_MAX /\ ~(s.offset + s.size <= f.size)
  BY <1>2, <1>3 DEF check_range_within_file, EndsBy, section_end
<1>5. DeclaredEnd(t) = s.offset + s.size /\ (Inside(t, f) <=> s.offset + s.size <= f.size)
  BY <1>1 DEF DeclaredEnd, Inside
<1>6. <<k>> \in Seq(Nat) /\ {"end overflow", "outside file"} \subseteq Complaint
  BY PlaceType DEF Complaint
<1>7. s.offset + s.size > UINT64_MAX => ~(s.offset + s.size <= UINT64_MAX)
  BY <1>3, WidthAssumption
<1>8. QED
  <2> HIDE DEF s, t, past
  <2>1. DeclaredEnd(t) > UINT64_MAX => ~section_end(s).ok
    BY <1>2, <1>5, <1>7
  <2>2. DeclaredEnd(t) <= UINT64_MAX /\ ~Inside(t, f) => past
    BY <1>4, <1>5
  <2>3. QED BY <1>6, <2>1, <2>2 DEF s, t, past

\* where they are,
LEMMA OnePlace ==
  ASSUME NEW c, NEW k, c.at = <<k>>
  PROVE  c.at[1] = k
OBVIOUS

\* and that they are told.
LEMMA BoundsTells ==
  ASSUME NEW f, f.header \in BunHeader, f.size \in offset_t, NEW k \in 1 .. 4,
         NEW c, c.what = "end overflow" \/ c.what = "outside file",
         c.at = <<k>>, c.at[1] = k, HeaderMessageTrue(c, f)
  PROVE  Tells(Bounds(sections(f.header)[k], k, f.size), c)
<1> DEFINE s == sections(f.header)[k]
           t == HeaderSections(f.header)[k]
           past == section_end(s).ok /\ ~check_range_within_file(s.offset, s.size, f.size)
           a == Check(~section_end(s).ok, BUN_MALFORMED, "end overflow", <<k>>)
           b == Check(past, BUN_MALFORMED, "outside file", <<k>>)
<1>1. /\ DeclaredEnd(t) > UINT64_MAX => ~section_end(s).ok
      /\ DeclaredEnd(t) <= UINT64_MAX /\ ~Inside(t, f) => past
      /\ <<k>> \in Seq(Nat)
      /\ {"end overflow", "outside file"} \subseteq Complaint
  BY BoundsOwe, Zenon
<1>2. a \in Seq(Error) /\ b \in Seq(Error)
  BY <1>1, CheckType
<1>3. c.what = "end overflow" => DeclaredEnd(t) > UINT64_MAX
  BY DEF HeaderMessageTrue
<1>4. c.what = "outside file" => DeclaredEnd(t) <= UINT64_MAX /\ ~Inside(t, f)
  BY DEF HeaderMessageTrue
<1> HIDE DEF s, t, past
<1>5. Tells(a, c) \/ Tells(b, c)
  <2>1. CASE c.what = "end overflow"
    <3>1. ~section_end(s).ok
      BY <1>1, <1>3, <2>1, Zenon
    <3>2. Tells(Check(~section_end(s).ok, BUN_MALFORMED, c.what, c.at), c)
      BY <3>1, CheckTells
    <3>3. QED BY <2>1, <3>2
  <2>2. CASE c.what = "outside file"
    <3>1. past
      BY <1>1, <1>4, <2>2, Zenon
    <3>2. Tells(Check(past, BUN_MALFORMED, c.what, c.at), c)
      BY <3>1, CheckTells
    <3>3. QED BY <2>2, <3>2
  <2>3. QED BY <2>1, <2>2
<1>6. Bounds(s, k, f.size) = a \o b
  BY DEF Bounds, past
<1> HIDE DEF a, b
<1>7. Tells(Bounds(s, k, f.size), c)
  BY <1>2, <1>5, <1>6, TellsConcat
<1>8. QED BY <1>7 DEF s

\* and overlaps.
LEMMA OverlapTells ==
  ASSUME NEW f, f.header \in BunHeader, NEW j \in 1 .. 4, NEW k \in 1 .. 4,
         NEW c, c.what = "overlap", c.at = <<j, k>>, HeaderMessageTrue(c, f)
  PROVE  Tells(Overlap(sections(f.header), j, k), c)
<1> DEFINE ss == sections(f.header)
           ts == HeaderSections(f.header)
<1>1. /\ ss[j] \in SectionType /\ ts[j].lo = ss[j].offset /\ ts[j].len = ss[j].size
      /\ ts[j] = [lo |-> ss[j].offset, len |-> ss[j].size]
  BY SameSections
<1>2. /\ ss[k] \in SectionType /\ ts[k].lo = ss[k].offset /\ ts[k].len = ss[k].size
      /\ ts[k] = [lo |-> ss[k].offset, len |-> ss[k].size]
  BY SameSections
<1>3. c.at[1] = j /\ c.at[2] = k
  OBVIOUS
<1>4. \/ Collide(ts[j], ts[k])
      \/ DeclaredEnd(ts[j]) > UINT64_MAX
      \/ DeclaredEnd(ts[k]) > UINT64_MAX
  BY <1>3 DEF HeaderMessageTrue
<1>5. /\ DeclaredEnd(ts[j]) = ss[j].offset + ss[j].size /\ DeclaredEnd(ts[j]) \in Nat
      /\ DeclaredEnd(ts[k]) = ss[k].offset + ss[k].size /\ DeclaredEnd(ts[k]) \in Nat
  BY <1>1, <1>2, WidthAssumption DEF DeclaredEnd, SectionType, u64
<1> HIDE DEF ss, ts
<1>6. sections_overlap(ss[j], ss[k])
  <2>1. CASE Collide(ts[j], ts[k])
    <3>1. Has(Overlap(ss, j, k), BUN_MALFORMED)
      BY <1>1, <1>2, <2>1, OverlapSound
    <3>2. QED BY <3>1, OverlapHas
  <2>2. CASE DeclaredEnd(ts[j]) > UINT64_MAX
    <3>1. ~section_end(ss[j]).ok
      BY <1>1, <1>5, <2>2, EndExact, WidthAssumption
    <3>2. QED BY <3>1 DEF sections_overlap
  <2>3. CASE DeclaredEnd(ts[k]) > UINT64_MAX
    <3>1. ~section_end(ss[k]).ok
      BY <1>2, <1>5, <2>3, EndExact, WidthAssumption
    <3>2. QED BY <3>1 DEF sections_overlap
  <2>4. QED BY <1>4, <2>1, <2>2, <2>3
<1>7. Tells(Check(sections_overlap(ss[j], ss[k]), BUN_MALFORMED, c.what, c.at), c)
  BY <1>6, CheckTells
<1>8. Tells(Overlap(ss, j, k), c)
  BY <1>7 DEF Overlap
<1>9. QED BY <1>8 DEF ss

\* So validate_header_offsets tells all about the sections,
LEMMA OffsetsTell ==
  ASSUME NEW f, f.header \in BunHeader, f.size \in offset_t,
         NEW c \in HeaderPlaces, HeaderMessageTrue(c, f), c.what \notin {"magic", "version"}
  PROVE  Tells(validate_header_offsets(f.header, f.size), c)
<1> DEFINE h == f.header
           ss == sections(h)
           a == Alignment(h)
           b == Check(~TableSize(h).ok, BUN_MALFORMED, "table overflow", <<>>)
           d1 == Bounds(ss[1], 1, f.size)
           d2 == Bounds(ss[2], 2, f.size)
           d3 == Bounds(ss[3], 3, f.size)
           d4 == Bounds(ss[4], 4, f.size)
           o1 == Overlap(ss, 1, 2)
           o2 == Overlap(ss, 1, 3)
           o3 == Overlap(ss, 1, 4)
           o4 == Overlap(ss, 2, 3)
           o5 == Overlap(ss, 2, 4)
           o6 == Overlap(ss, 3, 4)
           T(es) == Tells(es, c)
<1>1. a \in Seq(Error) /\ b \in Seq(Error)
  <2>1. b \in Seq(Error)
    BY CheckType, PlaceType DEF Complaint
  <2>2. QED BY <2>1, AlignmentType
<1>2. \A k \in 1 .. 4 : Bounds(ss[k], k, f.size) \in Seq(Error)
  BY SectionsType, BoundsType
<1>3. \A j, k \in 1 .. 4 : Overlap(ss, j, k) \in Seq(Error)
  BY OverlapType
<1>4. d1 \in Seq(Error) /\ d2 \in Seq(Error) /\ d3 \in Seq(Error) /\ d4 \in Seq(Error)
  BY <1>2
<1>5. /\ o1 \in Seq(Error) /\ o2 \in Seq(Error) /\ o3 \in Seq(Error)
      /\ o4 \in Seq(Error) /\ o5 \in Seq(Error) /\ o6 \in Seq(Error)
  BY <1>3
<1>6. \/ T(a)
      \/ \E k \in 1 .. 4 : T(Bounds(ss[k], k, f.size))
      \/ \E j, k \in 1 .. 4 : j < k /\ T(Overlap(ss, j, k))
  <2> DEFINE bounds(k) == Bounds(ss[k], k, f.size)
             overlap(j, k) == Overlap(ss, j, k)
  <2>1. ASSUME NEW k \in 1 .. 5, c.what = "align", c.at = <<k>>
        PROVE  T(a)
    BY <2>1, AlignmentTells
  <2>2. ASSUME NEW k \in 1 .. 4, c.what = "end overflow" \/ c.what = "outside file",
               c.at = <<k>>
        PROVE  T(bounds(k))
    <3>1. c.at[1] = k
      BY <2>2, OnePlace
    <3>2. QED BY <2>2, <3>1, BoundsTells
  <2>3. ASSUME NEW j \in 1 .. 4, NEW k \in 1 .. 4, c.what = "overlap", c.at = <<j, k>>
        PROVE  T(overlap(j, k))
    BY <2>3, OverlapTells
  <2> HIDE DEF T, a, bounds, overlap
  <2>4. \/ \E k \in 1 .. 5 : c.what = "align" /\ c.at = <<k>>
        \/ \E k \in 1 .. 4 : c.what = "end overflow" /\ c.at = <<k>>
        \/ \E k \in 1 .. 4 : c.what = "outside file" /\ c.at = <<k>>
        \/ \E j, k \in 1 .. 4 : j < k /\ c.what = "overlap" /\ c.at = <<j, k>>
    <3>1. c.what # "magic" /\ c.what # "version"
      OBVIOUS
    <3>2. QED BY <3>1, Places, Zenon
  <2>5. T(a) \/ (\E k \in 1 .. 4 : T(bounds(k))) \/ (\E j, k \in 1 .. 4 : j < k /\ T(overlap(j, k)))
    BY <2>1, <2>2, <2>3, <2>4, Zenon
  <2>6. QED BY <2>5 DEF bounds, overlap
<1> HIDE DEF T
<1>7. (\E k \in 1 .. 4 : T(Bounds(ss[k], k, f.size))) => T(d1) \/ T(d2) \/ T(d3) \/ T(d4)
  <2> SUFFICES ASSUME NEW k \in 1 .. 4, T(Bounds(ss[k], k, f.size))
               PROVE  T(d1) \/ T(d2) \/ T(d3) \/ T(d4)
    OBVIOUS
  <2>1. k = 1 \/ k = 2 \/ k = 3 \/ k = 4
    OBVIOUS
  <2>2. QED BY <2>1
<1>8. (\E j, k \in 1 .. 4 : j < k /\ T(Overlap(ss, j, k)))
        => T(o1) \/ T(o2) \/ T(o3) \/ T(o4) \/ T(o5) \/ T(o6)
  <2> SUFFICES ASSUME NEW j \in 1 .. 4, NEW k \in 1 .. 4, j < k, T(Overlap(ss, j, k))
               PROVE  T(o1) \/ T(o2) \/ T(o3) \/ T(o4) \/ T(o5) \/ T(o6)
    OBVIOUS
  <2>1. \/ j = 1 /\ (k = 2 \/ k = 3 \/ k = 4)
        \/ j = 2 /\ (k = 3 \/ k = 4)
        \/ j = 3 /\ k = 4
    OBVIOUS
  <2>2. QED BY <2>1
<1>9. \A s, t \in Seq(Error) : s \o t \in Seq(Error) /\ (T(s) \/ T(t) => T(s \o t))
  BY TellsConcat, ConcatType DEF T
<1>10. validate_header_offsets(h, f.size)
        = a \o b \o (d1 \o d2 \o d3 \o d4) \o (o1 \o o2 \o o3 \o o4 \o o5 \o o6)
  BY Zenon DEF validate_header_offsets
<1> HIDE DEF a, b, d1, d2, d3, d4, o1, o2, o3, o4, o5, o6
<1>11. /\ d1 \o d2 \o d3 \o d4 \in Seq(Error)
       /\ T(d1) \/ T(d2) \/ T(d3) \/ T(d4) => T(d1 \o d2 \o d3 \o d4)
  BY <1>4, <1>9
<1>12. /\ o1 \o o2 \o o3 \in Seq(Error)
       /\ T(o1) \/ T(o2) \/ T(o3) => T(o1 \o o2 \o o3)
  BY <1>5, <1>9
<1>13. /\ o1 \o o2 \o o3 \o o4 \o o5 \o o6 \in Seq(Error)
       /\ T(o1) \/ T(o2) \/ T(o3) \/ T(o4) \/ T(o5) \/ T(o6)
          => T(o1 \o o2 \o o3 \o o4 \o o5 \o o6)
  BY <1>5, <1>9, <1>12
<1>14. a \o b \in Seq(Error) /\ (T(a) => T(a \o b))
  BY <1>1, <1>9
<1> DEFINE d == d1 \o d2 \o d3 \o d4
           o == o1 \o o2 \o o3 \o o4 \o o5 \o o6
<1>15. T(a) \/ T(d) \/ T(o)
  BY <1>6, <1>7, <1>8, <1>11, <1>13
<1>16. d \in Seq(Error) /\ o \in Seq(Error) /\ validate_header_offsets(h, f.size) = a \o b \o d \o o
  BY <1>10, <1>11, <1>13
<1> HIDE DEF d, o
<1>17. a \o b \o d \in Seq(Error) /\ (T(a) \/ T(d) => T(a \o b \o d))
  BY <1>9, <1>14, <1>16
<1>18. T(a) \/ T(d) \/ T(o) => T(a \o b \o d \o o)
  BY <1>9, <1>16, <1>17
<1>19. QED BY <1>15, <1>16, <1>18 DEF T

\* and bun_parse_header all about a header that could be read.
LEMMA HeaderTells ==
  ASSUME NEW f, f.header \in BunHeader, f.size \in offset_t, f.size >= BUN_HEADER_SIZE
  PROVE  HeaderSaid(validate_header_basic(f.header)
                      \o validate_header_offsets(f.header, f.size), f)
<1> DEFINE b == validate_header_basic(f.header)
           o == validate_header_offsets(f.header, f.size)
<1>1. b \in Seq(Error) /\ o \in Seq(Error)
  BY HeaderBasicType, HeaderOffsetsType
<1>2. ASSUME NEW c \in HeaderComplaints(f)
      PROVE  Tells(b \o o, c)
  <2>1. c \in HeaderPlaces /\ HeaderMessageTrue(c, f)
    <3>1. ~(f.size < BUN_HEADER_SIZE)
      BY WidthAssumption DEF offset_t
    <3>2. QED BY <3>1 DEF HeaderComplaints
  <2>2. CASE c.what \in {"magic", "version"}
    <3>1. c.at = <<>>
      BY <2>1, <2>2, Places
    <3>2. Tells(b, c)
      BY <2>1, <2>2, <3>1, BasicTells
    <3> HIDE DEF b, o
    <3>3. QED BY <1>1, <3>2, TellsConcat
  <2>3. CASE c.what \notin {"magic", "version"}
    <3>1. Tells(o, c)
      BY <2>1, <2>3, OffsetsTell
    <3> HIDE DEF b, o
    <3>2. QED BY <1>1, <3>1, TellsConcat
  <2>4. QED BY <2>2, <2>3
<1>3. QED BY <1>2 DEF HeaderSaid

-----------------------------------------------------------------------------
(* The invariant, without the positions in the list.                         *)

\* NoFalseAlarm is about the messages there are,
LEMMA Alarms ==
  ASSUME NEW es, NEW f
  PROVE  AllTrue(es, f) <=>
           \A k \in DOMAIN es :
             LET e == es[k] IN
             IF e.what \in HeaderMessages THEN HeaderMessageTrue(e, f)
             ELSE RecordMessageTrue(e, f, Entry(f, e.at[1]))
BY DEF AllTrue, In, MessageTrue

\* which is to say about all of them, in this state
LEMMA AlarmNow == NoFalseAlarm <=> (~disturbed => AllTrue(ctx.errors, disk))
BY Alarms, Zenon DEF NoFalseAlarm

\* and in the next;
LEMMA AlarmNext == NoFalseAlarm' <=> (~disturbed' => AllTrue(ctx'.errors, disk'))
BY Alarms, Zenon DEF NoFalseAlarm

\* Filed is about those the first n records should have led to, record k's
\* name being still to be looked at.
FiledIn(es, f, n, k) ==
  \A j \in 0 .. n - 1 :
    \A what \in RecordComplaints(f, Entry(f, j)) :
      (j = k /\ what = "name byte") \/ Says(es, what, j)

NameOpen == IF pc = "chars" THEN i ELSE -1

\* For the list as it is, that is what MessageInvariant asks,
LEMMA FiledNow ==
  /\ Filed(Examined) <=> FiledIn(ctx.errors, disk, Examined, NameOpen)
  /\ Filed(disk.header.asset_count)
       <=> FiledIn(ctx.errors, disk, disk.header.asset_count, NameOpen)
<1>1. \A what, j : Says(ctx.errors, what, j) <=>
        \E k \in DOMAIN ctx.errors :
          ctx.errors[k].what = what /\ ctx.errors[k].at[1] = j
  BY DEF Says, In
<1>2. \A n : \A j \in 0 .. n - 1 : pc = "chars" /\ j = i <=> j = NameOpen
  <2> TAKE n
  <2> TAKE j \in 0 .. n - 1
  <2>1. j # -1
    OBVIOUS
  <2>2. QED BY <2>1 DEF NameOpen
<1>3. \A n : \A j \in 0 .. n - 1 : \A what :
        what \in Due(j) <=> /\ what \in RecordComplaints(disk, Entry(disk, j))
                           /\ ~(j = NameOpen /\ what = "name byte")
  BY <1>2 DEF Due
<1>4. \A n : Filed(n) <=>
        \A j \in 0 .. n - 1 : \A what \in Due(j) : Says(ctx.errors, what, j)
  <2> TAKE n
  <2>1. ASSUME Filed(n), NEW j \in 0 .. n - 1, NEW what \in Due(j)
        PROVE  Says(ctx.errors, what, j)
    BY <1>1, <2>1, Zenon DEF Filed, RecordReported
  <2>2. ASSUME \A j \in 0 .. n - 1 : \A what \in Due(j) : Says(ctx.errors, what, j)
        PROVE  Filed(n)
    <3> SUFFICES ASSUME NEW j \in 0 .. n - 1, NEW what \in Due(j)
                 PROVE  \E k \in DOMAIN ctx.errors :
                          ctx.errors[k].what = what /\ ctx.errors[k].at[1] = j
      BY Zenon DEF Filed, RecordReported
    <3>1. Says(ctx.errors, what, j)
      BY <2>2, Zenon
    <3>2. QED BY <3>1 DEF Says, In
  <2>3. QED BY <2>1, <2>2, Zenon
<1>5. \A n : Filed(n) <=> FiledIn(ctx.errors, disk, n, NameOpen)
  BY <1>3, <1>4, Zenon DEF FiledIn
<1>6. QED BY <1>5, Zenon

\* and in the next state too.
LEMMA FiledNext ==
  /\ Filed(Examined)' <=> FiledIn(ctx'.errors, disk', Examined', NameOpen')
  /\ Filed(disk.header.asset_count)'
       <=> FiledIn(ctx'.errors, disk', disk'.header.asset_count, NameOpen')
<1>1. (/\ Filed(Examined) <=> FiledIn(ctx.errors, disk, Examined, NameOpen)
       /\ Filed(disk.header.asset_count)
            <=> FiledIn(ctx.errors, disk, disk.header.asset_count, NameOpen))'
  BY FiledNow, PTL
<1>2. QED BY <1>1

\* HeaderReported is about what the list says of the header, in this state
LEMMA HeaderNow == HeaderReported <=> HeaderSaid(ctx.errors, disk)
<1>1. \A c : Tells(ctx.errors, c) <=>
        \E k \in DOMAIN ctx.errors : ctx.errors[k].what = c.what /\ ctx.errors[k].at = c.at
  BY DEF Tells, In
<1>2. QED BY <1>1, Zenon DEF HeaderReported, HeaderSaid

\* and in the next.
LEMMA HeaderNext == HeaderReported' <=> HeaderSaid(ctx'.errors, disk')
<1>1. (HeaderReported <=> HeaderSaid(ctx.errors, disk))'
  BY HeaderNow, PTL
<1>2. QED BY <1>1

\* What has been said stays said.
LEMMA FiledGrows ==
  ASSUME NEW es, NEW more, \A e : In(e, es) => In(e, more), NEW f, NEW n, NEW k, NEW l,
         \A j \in 0 .. n - 1 : j = k => j = l,
         FiledIn(es, f, n, k)
  PROVE  FiledIn(more, f, n, l)
<1>1. \A what, j : Says(es, what, j) => Says(more, what, j)
  BY DEF Says
<1>2. QED BY <1>1, Zenon DEF FiledIn

\* Of the header too.
LEMMA HeaderGrows ==
  ASSUME NEW es, NEW more, \A e : In(e, es) => In(e, more), NEW f, HeaderSaid(es, f)
  PROVE  HeaderSaid(more, f)
BY DEF HeaderSaid, Tells

-----------------------------------------------------------------------------
(* One lemma per action.                                                     *)

\* The run is over the records of a good header.
Ending ==
  /\ pc \in {"report", "close", "done"} /\ args = 2
  /\ ~HeaderMalformed(disk) /\ ~HeaderUnsupported(disk)

\* Nothing is missing from a list with room.
Complete ==
  ~disturbed /\ Len(ctx.errors) < MAX_ERRORS =>
    /\ pc \notin {"start", "header"} /\ args = 2 => HeaderSaid(ctx.errors, disk)
    /\ InLoop => FiledIn(ctx.errors, disk, Examined, NameOpen)
    /\ Ending => /\ out.records = disk.header.asset_count
                 /\ FiledIn(ctx.errors, disk, disk.header.asset_count, NameOpen)

\* That and no false alarm are the invariant, in this state
LEMMA InvariantNow ==
  MessageInvariant <=>
    (~disturbed => AllTrue(ctx.errors, disk)) /\ Complete
<1>1. Ending <=> /\ pc \in {"report", "close", "done"} /\ args = 2
                 /\ ~HeaderMalformed(disk) /\ ~HeaderUnsupported(disk)
  BY DEF Ending
<1>2. QED BY <1>1, AlarmNow, FiledNow, HeaderNow, Zenon DEF MessageInvariant, Complete

\* and in the next.
LEMMA InvariantNext ==
  MessageInvariant' <=>
    (~disturbed' => AllTrue(ctx'.errors, disk')) /\ Complete'
<1>1. (MessageInvariant <=>
         (~disturbed => AllTrue(ctx.errors, disk)) /\ Complete)'
  BY InvariantNow, PTL
<1>2. QED BY <1>1

\* A step that says nothing makes no false alarm,
LEMMA QuietIsTrue ==
  ASSUME MessageInvariant, disk' = disk, ctx'.errors = ctx.errors, disturbed => disturbed'
  PROVE  ~disturbed' => AllTrue(ctx'.errors, disk')
BY InvariantNow, Zenon

\* and one that makes no other does not either.
LEMMA SpeaksTrue ==
  ASSUME MessageInvariant, disk' = disk, disturbed => disturbed',
         NEW c \in BunParseContext, c.errors = ctx.errors,
         NEW es \in Seq(Error), ctx' = add_error(c, es), ~disturbed' => AllTrue(es, disk)
  PROVE  ~disturbed' => AllTrue(ctx'.errors, disk')
<1>1. \A e : In(e, ctx'.errors) => In(e, ctx.errors) \/ In(e, es)
  BY AddErrorSays, Zenon
<1>2. QED BY <1>1, InvariantNow, Zenon DEF AllTrue

\* Outside the loop, when the header's messages are there and no record was
\* owed, nothing can be missing.
LEMMA NothingShown ==
  ASSUME ~InLoop', ~Ending',
         \/ pc' \in {"start", "header"} \/ args' # 2
         \/ ~disturbed' /\ Len(ctx'.errors) < MAX_ERRORS => HeaderSaid(ctx'.errors, disk')
  PROVE  Complete'
BY DEF Complete

\* Once a call has failed nothing is promised of the list.
LEMMA FailureSpeaks ==
  ASSUME disturbed'
  PROVE  MessageInvariant'
BY InvariantNext DEF Complete

\* Initially nothing was said.
LEMMA InitSpeaks == Init => MessageInvariant
<1> SUFFICES ASSUME Init PROVE MessageInvariant
  OBVIOUS
<1>1. ctx.errors = <<>> /\ pc = "start"
  BY DEF Init, ZeroContext
<1>2. \A e : ~In(e, <<>>)
  BY DEF In
<1>3. AllTrue(ctx.errors, disk)
  BY <1>1, <1>2, Zenon DEF AllTrue
<1>4. Complete
  BY <1>1 DEF Complete, InLoop, InBody, Ending
<1>5. QED BY <1>3, <1>4, InvariantNow

\* Usage and bun_open: the list is empty.
LEMMA OpenSpeaks ==
  ASSUME ParseInvariant, ExactInvariant, MessageInvariant, Usage \/ BunOpen
  PROVE  MessageInvariant'
<1>1. pc = "start" /\ ctx = ZeroContext /\ out.records = 0
  BY DEF Usage, BunOpen, ParseInvariant, Fresh, ExactInvariant, Showing
<1>2. ctx'.errors = <<>>
  <2>1. ZeroContext.errors = <<>>
    BY DEF ZeroContext
  <2>2. [ZeroContext EXCEPT !.file = "open", !.file_size = disk.size].errors = <<>>
    BY DEF ZeroContext
  <2>3. CASE Usage
    BY <1>1, <2>1, <2>3 DEF Usage
  <2>4. CASE BunOpen
    <3>1. ctx' = ZeroContext \/ ctx' = [ZeroContext EXCEPT !.file = "open", !.file_size = disk.size]
      BY <2>4 DEF BunOpen, Opened, NotOpened
    <3>2. CASE ctx' = ZeroContext
      BY <2>1, <3>2
    <3>3. CASE ctx' = [ZeroContext EXCEPT !.file = "open", !.file_size = disk.size]
      BY <2>2, <3>3
    <3>4. QED BY <3>1, <3>2, <3>3
  <2>5. QED BY <2>3, <2>4
<1>3. \A e : ~In(e, <<>>)
  BY DEF In
<1>4. AllTrue(ctx'.errors, disk')
  BY <1>2, <1>3, Zenon DEF AllTrue
<1>5. CASE Usage \/ Opened
  <2>1. pc' = "header" \/ (pc' = "done" /\ args' # 2)
    BY <1>5 DEF Usage, Opened, Goto
  <2>2. ~InLoop' /\ ~Ending'
    BY <2>1 DEF InLoop, InBody, Ending
  <2>3. QED BY <1>4, <2>1, <2>2, NothingShown, InvariantNext
<1>6. CASE NotOpened
  <2>1. disturbed'
    BY <1>6 DEF NotOpened, Fault
  <2>2. QED BY <2>1, FailureSpeaks
<1>7. QED BY <1>5, <1>6 DEF BunOpen

\* A header that was read and refused is a bad one.
LEMMA Refused ==
  ASSUME ParseInvariant, BunParseHeader, HeaderRead, pc' = "report"
  PROVE  HeaderMalformed(disk) \/ HeaderUnsupported(disk)
<1> DEFINE c == [ctx EXCEPT !.header_loaded = TRUE]
           es == validate_header_basic(disk.header)
                   \o validate_header_offsets(disk.header, disk.size)
<1>1. /\ IsFile(disk) /\ ctx \in BunParseContext /\ ctx.file_size = disk.size
      /\ ~ctx.saw_malformed /\ ~ctx.saw_unsupported /\ disk.size >= BUN_HEADER_SIZE
  BY DEF BunParseHeader, HeaderRead, ParseInvariant, TypeOK, Fresh
<1>2. /\ es \in Seq(Error)
      /\ Has(es, BUN_MALFORMED) <=> HeaderMalformed(disk)
      /\ Has(es, BUN_UNSUPPORTED) <=> HeaderUnsupported(disk)
  BY <1>1, HeaderExact DEF IsFile
<1>3. c \in BunParseContext /\ ~c.saw_malformed /\ ~c.saw_unsupported
  BY <1>1 DEF BunParseContext
<1>4. ctx' = add_error(c, es) /\ result' = bun_context_result(ctx') /\ result' # BUN_OK
  BY <1>1 DEF HeaderRead, BunParseHeader, Goto
<1> HIDE DEF c, es
<1>5. /\ ctx'.saw_malformed <=> Has(es, BUN_MALFORMED)
      /\ ctx'.saw_unsupported <=> Has(es, BUN_UNSUPPORTED)
  BY <1>2, <1>3, <1>4, AddErrorContext
<1>6. ctx'.saw_malformed \/ ctx'.saw_unsupported
  BY <1>4 DEF bun_context_result
<1>7. QED BY <1>2, <1>5, <1>6

\* bun_parse_header: its checks say what is true of the header, and all of it.
LEMMA HeaderSpeaks ==
  ASSUME ParseInvariant, MessageInvariant, BunParseHeader
  PROVE  MessageInvariant'
<1>1. /\ IsFile(disk) /\ disk' = disk /\ pc = "header" /\ ctx \in BunParseContext
      /\ ctx.file_size = disk.size /\ pc' \in {"table", "report"}
  BY DEF BunParseHeader, Goto, ParseInvariant, TypeOK, Fresh
<1>2. ~InLoop'
  BY <1>1 DEF InLoop, InBody
<1>3. disk.header \in BunHeader /\ disk.size \in offset_t
  BY <1>1 DEF IsFile
<1>4. disturbed => disturbed'
  BY StaysDisturbed DEF Step
<1>5. CASE TooSmall
  <2> DEFINE es == Check(TRUE, BUN_MALFORMED, "file too small", <<>>)
             m == [code |-> BUN_MALFORMED, what |-> "file too small", at |-> <<>>]
             c == [what |-> "file too small", at |-> <<>>]
  <2>1. disk.size < BUN_HEADER_SIZE /\ ctx' = add_error(ctx, es)
    BY <1>1, <1>5 DEF TooSmall
  <2>2. m.what = "file too small"
    OBVIOUS
  <2>3. Tells(es, c) /\ HeaderComplaints(disk) = {c}
    <3>1. c.what = "file too small" /\ c.at = <<>>
      OBVIOUS
    <3>2. HeaderComplaints(disk) = {c}
      BY <2>1 DEF HeaderComplaints
    <3> HIDE DEF c
    <3>3. Tells(Check(TRUE, BUN_MALFORMED, c.what, c.at), c)
      BY CheckTells
    <3>4. QED BY <3>1, <3>2, <3>3
  <2> HIDE DEF m
  <2>4. MessageTrue(m, disk)
    BY <2>1, <2>2 DEF MessageTrue, HeaderMessages, HeaderMessageTrue
  <2>5. AllTrue(es, disk)
    BY <2>4, TrueCheck DEF m
  <2>6. HeaderSaid(es, disk)
    BY <2>3, Zenon DEF HeaderSaid
  <2>7. es \in Seq(Error)
    BY CheckType, PlaceType DEF Complaint
  <2> HIDE DEF es
  <2>8. Len(ctx'.errors) < MAX_ERRORS => HeaderSaid(ctx'.errors, disk)
    BY <1>1, <2>1, <2>6, <2>7, AddErrorSays, HeaderGrows
  <2>9. HeaderMalformed(disk)
    BY <2>1 DEF HeaderMalformed
  <2>10. Complete'
    BY <1>1, <1>2, <2>8, <2>9, NothingShown DEF Ending
  <2>11. QED BY <1>1, <1>4, <2>1, <2>5, <2>7, <2>10, SpeaksTrue, InvariantNext
<1>6. CASE HeaderUnreadable
  <2>1. disturbed'
    <3>1. Available(disk, 0) >= BUN_HEADER_SIZE
      BY <1>1, <1>3, <1>6, WidthAssumption DEF HeaderUnreadable, Available, offset_t
    <3>2. BUN_HEADER_SIZE \in Nat /\ Available(disk, 0) \in Nat
      BY <1>3, WidthAssumption DEF Available, offset_t
    <3>3. QED BY <1>6, <3>1, <3>2 DEF HeaderUnreadable, ShortRead, Fault
  <2>2. QED BY <2>1, FailureSpeaks
<1>7. CASE HeaderRead
  <2> DEFINE c == [ctx EXCEPT !.header_loaded = TRUE]
             es == validate_header_basic(disk.header)
                     \o validate_header_offsets(disk.header, disk.size)
  <2>1. ctx' = add_error(c, es) /\ disk.size >= BUN_HEADER_SIZE
    BY <1>1, <1>7 DEF HeaderRead
  <2>2. c \in BunParseContext /\ c.errors = ctx.errors
    BY <1>1 DEF BunParseContext
  <2>3. AllTrue(es, disk) /\ HeaderSaid(es, disk)
    BY <1>3, <2>1, HeaderTrue, HeaderTells
  <2>4. es \in Seq(Error)
    BY <1>3, HeaderBasicType, HeaderOffsetsType, ConcatType
  <2> HIDE DEF c, es
  <2>5. Len(ctx'.errors) < MAX_ERRORS => HeaderSaid(ctx'.errors, disk)
    BY <2>1, <2>2, <2>3, <2>4, AddErrorSays, HeaderGrows
  <2>6. ~Ending'
    BY <1>1, <1>7, Refused DEF Ending
  <2>7. Complete'
    BY <1>1, <1>2, <2>5, <2>6, NothingShown
  <2>8. QED BY <1>1, <1>4, <2>1, <2>2, <2>3, <2>4, <2>7, SpeaksTrue, InvariantNext
<1>8. QED BY <1>5, <1>6, <1>7 DEF BunParseHeader

\* The seek to the table: no record was asked for yet.
LEMMA SeekTableSpeaks ==
  ASSUME ParseInvariant, ParseInvariant', ExactInvariant', MessageInvariant, SeekTable
  PROVE  MessageInvariant'
<1>1. disk' = disk /\ ctx' = ctx /\ args' = args /\ pc = "table" /\ i' = 0
  BY DEF SeekTable
<1>2. disturbed => disturbed'
  BY StaysDisturbed DEF Step
<1>3. (pc' = "report" /\ result' = BUN_ERR_IO) \/ pc' = "record"
  BY DEF SeekTable, Goto, Return
<1>4. CASE pc' = "report" /\ result' = BUN_ERR_IO
  BY <1>4, FailedCall, FailureSpeaks
<1>5. CASE pc' = "record"
  <2>1. Examined' = 0
    BY <1>1, <1>5 DEF Examined
  <2>2. \A es, f, k : FiledIn(es, f, 0, k)
    <3>1. 0 .. 0 - 1 = {}
      OBVIOUS
    <3>2. QED BY <3>1, Zenon DEF FiledIn
  <2>3. FiledIn(ctx'.errors, disk', Examined', NameOpen')
    BY <2>1, <2>2, Zenon
  <2>4. ~Ending'
    BY <1>5 DEF Ending
  <2>5. Complete
    BY InvariantNow
  <2>6. pc \notin {"start", "header"}
    BY <1>1
  <2>7. Complete'
    BY <1>1, <1>2, <2>3, <2>4, <2>5, <2>6, Zenon DEF Complete
  <2>8. QED BY <1>1, <1>2, <2>7, QuietIsTrue, InvariantNext
<1>6. QED BY <1>3, <1>4, <1>5

\* A step of the loop that says nothing and takes no record further.
LEMMA QuietSpeaks ==
  ASSUME MessageInvariant, InLoop, InLoop', UNCHANGED <<args, disk, ctx>>,
         disturbed => disturbed', Examined' = Examined, NameOpen = -1, NameOpen' = -1
  PROVE  MessageInvariant'
<1>1. ~Ending' /\ pc \notin {"start", "header"}
  BY DEF InLoop, InBody, Ending
<1>2. Complete
  BY InvariantNow
<1>3. Complete'
  BY <1>1, <1>2, Zenon DEF Complete
<1>4. QED BY <1>3, QuietIsTrue, InvariantNext

\* Reading a record, showing its name and its payload, and the seek to the
\* next one.
LEMMA LoopSpeaks ==
  ASSUME ParseInvariant, MessageInvariant, ReadRecord \/ PrintName \/ PrintPayload
  PROVE  MessageInvariant'
<1>1. UNCHANGED <<args, disk, ctx, i>>
  BY DEF ReadRecord, PrintName, PrintPayload
<1>2. /\ pc \in {"record", "name", "payload"}
      /\ pc' \in {"name", "payload", "validate"}
  BY DEF ReadRecord, PrintName, PrintPayload, Goto
<1>3. disturbed => disturbed'
  BY StaysDisturbed DEF Step
<1>4. InLoop /\ InLoop' /\ Examined' = Examined /\ NameOpen = -1 /\ NameOpen' = -1
  BY <1>1, <1>2 DEF InLoop, InBody, Examined, NameOpen
<1>5. QED BY <1>1, <1>3, <1>4, QuietSpeaks

\* After the last seek the record is done with.
LEMMA ReseekSpeaks ==
  ASSUME ParseInvariant, ParseInvariant', ExactInvariant', MessageInvariant, Reseek
  PROVE  MessageInvariant'
<1>1. UNCHANGED <<args, disk, ctx>> /\ pc = "reseek"
  BY DEF Reseek
<1>2. disturbed => disturbed'
  BY StaysDisturbed DEF Step
<1>3. CASE pc' = "record" /\ i' = i + 1
  <2>1. InLoop /\ InLoop' /\ Examined' = Examined /\ NameOpen = -1 /\ NameOpen' = -1
    BY <1>1, <1>3 DEF InLoop, InBody, Examined, NameOpen
  <2>2. QED BY <1>1, <1>2, <2>1, QuietSpeaks
<1>4. CASE pc' = "report" /\ result' = BUN_ERR_IO
  BY <1>4, FailedCall, FailureSpeaks
<1>5. QED BY <1>3, <1>4 DEF Reseek, Goto, Return

\* validate_asset_record says what is true, and everything it should.
LEMMA ValidateRecordSpeaks ==
  ASSUME ParseInvariant, ExactInvariant, MessageInvariant, ValidateRecord
  PROVE  MessageInvariant'
<1> DEFINE from == DataStart(header, rec).out
           n == rec.data_size
           row(seeks, left) == validate_asset_record(disk, header, rec, i, seeks, left)
<1>1. /\ pc = "validate" /\ pc' = "chars" /\ UNCHANGED <<args, disk, header, i, rec>>
  BY DEF ValidateRecord, Goto
<1>2. InBody /\ InLoop /\ InLoop'
  BY <1>1 DEF InLoop, InBody
<1>3. disturbed => disturbed'
  BY StaysDisturbed DEF Step
<1>4. /\ IsFile(disk) /\ header = disk.header /\ ~HeaderMalformed(disk)
      /\ header \in BunHeader /\ rec \in BunAssetRecord /\ rec = Entry(disk, i)
      /\ ctx \in BunParseContext /\ i \in Nat /\ disk.size \in Nat
  BY <1>2, InHand, WidthAssumption DEF IsFile, offset_t
<1>5. n \in Nat /\ from \in Nat /\ Available(disk, from) \in Nat
  <2>1. n \in Nat /\ from \in Nat
    BY <1>4, FieldTypes, StartTypes
  <2>2. QED BY <1>4, <2>1 DEF Available
<1>6. ASSUME ~disturbed'
      PROVE  \E seeks \in BOOLEAN, left \in Nat :
               /\ ctx' = add_error(ctx, row(seeks, left))
               /\ ScansPayload(header, rec) =>
                    seeks /\ left = AtMost(n, Available(disk, from))
  <2>1. CASE ScanPayload(from)
    <3>1. PICK left \in Deliverable(disk, from, n, "fread" \in Faults) :
            Delivers(from, n, left) /\ ctx' = add_error(ctx, row(TRUE, left))
      BY <2>1 DEF ScanPayload
    <3>2. left = AtMost(n, Available(disk, from))
      BY <1>4, <1>5, <1>6, <3>1, DeliversAll
    <3>3. left \in Nat
      BY <1>5, <3>2 DEF AtMost
    <3> HIDE DEF row
    <3>4. QED BY <3>1, <3>2, <3>3
  <2>2. CASE ~ScansPayload(header, rec) /\ ctx' = add_error(ctx, row(FALSE, 0))
    BY <2>2
  <2>3. QED BY <1>6, <2>1, <2>2 DEF ValidateRecord, Fault
<1>7. CASE disturbed'
  BY <1>7, FailureSpeaks
<1>8. CASE ~disturbed'
  <2>1. PICK seeks \in BOOLEAN, left \in Nat :
          /\ ctx' = add_error(ctx, row(seeks, left))
          /\ ScansPayload(header, rec) => seeks /\ left = AtMost(n, Available(disk, from))
    BY <1>6, <1>8
  <2> DEFINE es == row(seeks, left)
  <2>2. es \in Seq(Error)
    BY <1>4, RecordChecks
  <2>3. AllTrue(es, disk)
    BY <1>4, <2>1, RecordTrue
  <2>4. \A what \in RecordComplaints(disk, rec) \ {"name byte"} : Says(es, what, i)
    BY <1>4, <2>1, RecordSays
  <2>5. ctx' = add_error(ctx, es)
    BY <2>1
  <2> HIDE DEF es
  <2>6. ~disturbed' => AllTrue(ctx'.errors, disk')
    BY <1>1, <1>3, <1>4, <2>2, <2>3, <2>5, SpeaksTrue
  <2>7. Complete'
    <3> SUFFICES ASSUME Len(ctx'.errors) < MAX_ERRORS
                 PROVE  /\ FiledIn(ctx'.errors, disk, i + 1, i)
                        /\ args = 2 => HeaderSaid(ctx'.errors, disk)
      BY <1>1 DEF Complete, Examined, NameOpen, Ending
    <3>1. /\ \A e : In(e, ctx.errors) \/ In(e, es) => In(e, ctx'.errors)
          /\ Len(ctx.errors) < MAX_ERRORS
      BY <1>4, <2>2, <2>5, AddErrorSays
    <3>2. FiledIn(ctx.errors, disk, i, -1)
      BY <1>1, <1>2, <1>3, <1>8, <3>1, InvariantNow DEF Complete, Examined, NameOpen
    <3>3. \A what : /\ Says(es, what, i) => Says(ctx'.errors, what, i)
                    /\ \A j : Says(ctx.errors, what, j) => Says(ctx'.errors, what, j)
      BY <3>1, Zenon DEF Says
    <3>4. ASSUME NEW j \in 0 .. i, NEW what \in RecordComplaints(disk, Entry(disk, j)),
                 ~(j = i /\ what = "name byte")
          PROVE  Says(ctx'.errors, what, j)
      <4>1. CASE j = i
        BY <1>4, <2>4, <3>3, <3>4, <4>1
      <4>2. CASE j # i
        <5>1. j \in 0 .. i - 1 /\ j # -1
          BY <1>4, <4>2
        <5>2. Says(ctx.errors, what, j)
          BY <3>2, <5>1 DEF FiledIn
        <5>3. QED BY <3>3, <5>2
      <4>3. QED BY <4>1, <4>2
    <3>5. 0 .. (i + 1) - 1 = 0 .. i
      BY <1>4
    <3>6. FiledIn(ctx'.errors, disk, i + 1, i)
      BY <3>4, <3>5, Zenon DEF FiledIn
    <3>7. args = 2 => HeaderSaid(ctx.errors, disk)
      BY <1>1, <1>3, <1>8, <3>1, InvariantNow DEF Complete
    <3>8. QED BY <3>1, <3>6, <3>7, HeaderGrows
  <2>8. QED BY <2>6, <2>7, InvariantNext
<1>9. QED BY <1>7, <1>8

\* validate_asset_name says what was still to be said.
LEMMA ValidateNameSpeaks ==
  ASSUME ParseInvariant, ExactInvariant, MessageInvariant, ValidateName
  PROVE  MessageInvariant'
<1> DEFINE from == NameStart(header, rec).out
           n == rec.name_length
           row(left) == validate_asset_name(disk, header, rec, i, TRUE, left)
<1>1. /\ pc = "chars" /\ pc' = "reseek" /\ UNCHANGED <<args, disk, header, i, rec>>
  BY DEF ValidateName, Goto
<1>2. InBody /\ InLoop /\ InLoop'
  BY <1>1 DEF InLoop, InBody
<1>3. disturbed => disturbed'
  BY StaysDisturbed DEF Step
<1>4. /\ IsFile(disk) /\ header = disk.header /\ ~HeaderMalformed(disk)
      /\ header \in BunHeader /\ rec \in BunAssetRecord /\ rec = Entry(disk, i)
      /\ ctx \in BunParseContext /\ i \in Nat /\ disk.size \in Nat
  BY <1>2, InHand, WidthAssumption DEF IsFile, offset_t
<1>5. n \in Nat /\ from \in Nat /\ Available(disk, from) \in Nat
  <2>1. n \in Nat /\ from \in Nat
    BY <1>4, FieldTypes, StartTypes
  <2>2. QED BY <1>4, <2>1 DEF Available
<1>6. NameInside(header, rec) <=> name_range_safe(header, rec)
  BY <1>4, RangesExact
<1>7. NameInside(header, rec) => NameReachable
  BY <1>4, NameReach DEF NameReachable
<1>8. Complete
  BY InvariantNow
\* It is enough that the name's bytes are spoken of when they should be.
<1>9. ASSUME ~disturbed', \A e : In(e, ctx.errors) => In(e, ctx'.errors),
             Len(ctx.errors) < MAX_ERRORS,
             "name byte" \in RecordComplaints(disk, rec) =>
               Says(ctx'.errors, "name byte", i)
      PROVE  Complete'
  <2>1. FiledIn(ctx.errors, disk, i + 1, i)
    BY <1>1, <1>2, <1>3, <1>8, <1>9 DEF Complete, Examined, NameOpen
  <2>2. \A what, j : Says(ctx.errors, what, j) => Says(ctx'.errors, what, j)
    BY <1>9, Zenon DEF Says
  <2>3. FiledIn(ctx'.errors, disk, i + 1, -1)
    <3> SUFFICES ASSUME NEW j \in 0 .. (i + 1) - 1,
                        NEW what \in RecordComplaints(disk, Entry(disk, j))
                 PROVE  Says(ctx'.errors, what, j)
      BY Zenon DEF FiledIn
    <3>1. (j = i /\ what = "name byte") \/ Says(ctx.errors, what, j)
      BY <2>1, Zenon DEF FiledIn
    <3>2. QED BY <1>4, <1>9, <2>2, <3>1, Zenon
  <2>4. Examined' = i + 1 /\ NameOpen' = -1 /\ ~Ending'
    BY <1>1 DEF Examined, NameOpen, Ending
  <2>5. args = 2 => HeaderSaid(ctx'.errors, disk)
    <3>1. args = 2 => HeaderSaid(ctx.errors, disk)
      BY <1>1, <1>3, <1>8, <1>9 DEF Complete
    <3>2. QED BY <1>9, <3>1, HeaderGrows
  <2>6. QED BY <1>1, <2>3, <2>4, <2>5 DEF Complete
<1>10. CASE disturbed'
  BY <1>10, FailureSpeaks
<1>11. CASE ~disturbed' /\ ~name_range_safe(header, rec)
  <2>1. ctx' = ctx
    BY <1>11 DEF ValidateName
  <2>2. "name byte" \notin RecordComplaints(disk, rec)
    BY <1>4, <1>6, <1>11, NameByteComplaint
  <2>3. Complete'
    <3>1. CASE Len(ctx.errors) < MAX_ERRORS
      BY <1>9, <1>11, <2>1, <2>2, <3>1
    <3>2. CASE ~(Len(ctx.errors) < MAX_ERRORS)
      BY <2>1, <3>2 DEF Complete
    <3>3. QED BY <3>1, <3>2
  <2>4. QED BY <1>1, <1>3, <2>1, <2>3, QuietIsTrue, InvariantNext
<1>12. CASE ~disturbed' /\ name_range_safe(header, rec)
  <2>1. ScanName(from)
    BY <1>6, <1>7, <1>12 DEF ValidateName, Fault
  <2>2. PICK left \in Deliverable(disk, from, n, "fread" \in Faults) :
          Delivers(from, n, left) /\ ctx' = add_error(ctx, row(left))
    BY <2>1 DEF ScanName
  <2>3. left = AtMost(n, Available(disk, from))
    BY <1>4, <1>5, <1>12, <2>2, DeliversAll
  <2> DEFINE es == row(left)
  <2>4. left \in Nat
    BY <1>5, <2>3 DEF AtMost
  <2>5. es \in Seq(Error)
    BY <1>4, <2>4, NameChecks
  <2>6. AllTrue(es, disk)
    BY <1>4, <1>6, <1>12, <2>3, NameTrue
  <2>7. "name byte" \in RecordComplaints(disk, rec) => Says(es, "name byte", i)
    <3>1. "name byte" \in RecordComplaints(disk, rec) => ~NamePrintable(disk, rec)
      BY NameByteComplaint
    <3>2. QED BY <1>4, <1>6, <1>12, <2>3, <3>1, NameSays
  <2>8. ctx' = add_error(ctx, es)
    BY <2>2
  <2> HIDE DEF es
  <2>9. ~disturbed' => AllTrue(ctx'.errors, disk')
    BY <1>1, <1>3, <1>4, <2>5, <2>6, <2>8, SpeaksTrue
  <2>10. Complete'
    <3>1. CASE Len(ctx'.errors) < MAX_ERRORS
      <4>1. /\ \A e : In(e, ctx.errors) \/ In(e, es) => In(e, ctx'.errors)
            /\ Len(ctx.errors) < MAX_ERRORS
        BY <1>4, <2>5, <2>8, <3>1, AddErrorSays
      <4>2. Says(es, "name byte", i) => Says(ctx'.errors, "name byte", i)
        BY <4>1, Zenon DEF Says
      <4>3. QED BY <1>9, <1>12, <2>7, <4>1, <4>2
    <3>2. CASE ~(Len(ctx'.errors) < MAX_ERRORS)
      BY <3>2 DEF Complete
    <3>3. QED BY <3>1, <3>2
  <2>11. QED BY <2>9, <2>10, InvariantNext
<1>13. QED BY <1>10, <1>11, <1>12

\* The end of the table: the records shown are all there are.
LEMMA AssetsDoneSpeaks ==
  ASSUME ParseInvariant, ExactInvariant, MessageInvariant, AssetsDone
  PROVE  MessageInvariant'
<1>1. /\ UNCHANGED <<args, disk, ctx, i, out>> /\ disturbed' = disturbed
      /\ pc = "record" /\ pc' = "report" /\ InLoop
      /\ i >= header.asset_count /\ i <= header.asset_count
      /\ header = disk.header /\ out.records = i
  BY DEF AssetsDone, Return, Goto, NoFault, InLoop, ParseInvariant, Counting,
         HeaderKnown, ExactInvariant, Showing
<1>2. i = disk.header.asset_count
  <2>1. i \in Nat /\ header.asset_count \in Nat
    BY <1>1, InTheLoop
  <2>2. QED BY <1>1, <2>1
<1>3. Complete
  BY InvariantNow
<1>4. NameOpen = -1 /\ NameOpen' = -1 /\ Examined = i
  BY <1>1 DEF NameOpen, Examined
<1>5. ~disturbed /\ Len(ctx.errors) < MAX_ERRORS => FiledIn(ctx.errors, disk, i, -1)
  BY <1>1, <1>3, <1>4, Zenon DEF Complete
<1>6. ~InLoop' /\ pc \notin {"start", "header"} /\ out'.records = disk'.header.asset_count
  BY <1>1, <1>2 DEF InLoop, InBody
<1>7. Complete'
  BY <1>1, <1>2, <1>3, <1>4, <1>5, <1>6, Zenon DEF Complete
<1>8. QED BY <1>1, <1>7, QuietIsTrue, InvariantNext

\* The report and bun_close leave the list alone.
LEMMA ClosingSpeaks ==
  ASSUME ParseInvariant, MessageInvariant, Report \/ BunClose
  PROVE  MessageInvariant'
<1>1. disk' = disk /\ args' = args /\ pc \in {"report", "close"} /\ pc' \in {"close", "done"}
  BY DEF Report, BunClose, Goto
<1>2. ctx \in BunParseContext /\ out \in Output
  BY DEF ParseInvariant, TypeOK
<1>3. ctx'.errors = ctx.errors /\ out'.records = out.records
  BY <1>2 DEF Report, BunClose, BunParseContext, Output
<1>4. disturbed => disturbed'
  BY StaysDisturbed DEF Step
<1>5. Complete
  BY InvariantNow
<1>6. NameOpen = -1 /\ NameOpen' = -1 /\ ~InLoop'
  BY <1>1 DEF NameOpen, InLoop, InBody
<1>7. (Ending' <=> Ending) /\ pc \notin {"start", "header"}
  BY <1>1 DEF Ending
<1>8. Complete'
  BY <1>1, <1>3, <1>4, <1>5, <1>6, <1>7, Zenon DEF Complete
<1>9. QED BY <1>1, <1>3, <1>4, <1>8, QuietIsTrue, InvariantNext

\* A record that cannot be read was lost to a failed call.
LEMMA RecordUnreadableSpeaks ==
  ASSUME ParseInvariant, ExactInvariant, RecordUnreadable
  PROVE  MessageInvariant'
BY UnreadableIsFault, FailureSpeaks

\* Nothing happens.
LEMMA StutterSpeaks ==
  ASSUME MessageInvariant, UNCHANGED vars
  PROVE  MessageInvariant'
<1>1. /\ UNCHANGED <<pc, args, disk, ctx, i, out, disturbed>>
      /\ (InLoop' <=> InLoop) /\ (Ending' <=> Ending)
      /\ Examined' = Examined /\ NameOpen' = NameOpen
  BY DEF vars, InLoop, InBody, Ending, Examined, NameOpen
<1>2. Complete /\ (~disturbed => AllTrue(ctx.errors, disk))
  BY InvariantNow
<1>3. Complete'
  BY <1>1, <1>2, Zenon DEF Complete
<1>4. QED BY <1>1, <1>2, <1>3, InvariantNext, Zenon

\* The list is true and complete at every point of the program.
THEOREM MessagesInductive == Spec => []MessageInvariant
<1>1. /\ ParseInvariant /\ ParseInvariant' /\ ExactInvariant /\ ExactInvariant'
      /\ MessageInvariant /\ [Next]_vars
      => MessageInvariant'
  <2> SUFFICES ASSUME ParseInvariant, ParseInvariant', ExactInvariant, ExactInvariant',
                      MessageInvariant, [Next]_vars
               PROVE  MessageInvariant'
    OBVIOUS
  <2>1. CASE Step
    BY <2>1, OpenSpeaks, HeaderSpeaks, SeekTableSpeaks, LoopSpeaks,
       RecordUnreadableSpeaks, ValidateRecordSpeaks, ValidateNameSpeaks,
       ReseekSpeaks, AssetsDoneSpeaks, ClosingSpeaks DEF Step
  <2>2. CASE Exited
    BY <2>2, StutterSpeaks DEF Exited
  <2>3. CASE UNCHANGED vars
    BY <2>3, StutterSpeaks
  <2>4. QED BY <2>1, <2>2, <2>3 DEF Next
<1>2. QED BY Inductive, ExactInductive, InitSpeaks, <1>1, PTL DEF Spec

\* Without a stdio failure every message is true of the file, at the section,
\* record or byte it names (bun_validate.c).
THEOREM TellsTheTruth == Spec => []NoFalseAlarm
BY MessagesInductive, PTL DEF MessageInvariant

\* A run that met no failure and filled no list has named every rule the file
\* breaks: of the header at each section, and under a good header of every
\* record, RLE payloads included (the validators go on after a failed check).
THEOREM TellsAll == Spec => []AllReported
<1>1. ParseInvariant /\ MessageInvariant => AllReported
  <2> SUFFICES ASSUME ParseInvariant, MessageInvariant, exit # NotExited, args = 2,
                      ~disturbed, Len(ctx.errors) < MAX_ERRORS
               PROVE  /\ HeaderReported
                      /\ ~HeaderMalformed(disk) /\ ~HeaderUnsupported(disk) =>
                           /\ out.records = disk.header.asset_count
                           /\ \A j \in 0 .. disk.header.asset_count - 1 :
                                RecordReported(j, RecordComplaints(disk, Entry(disk, j)))
    BY Zenon DEF AllReported
  <2>1. pc = "done"
    BY DEF ParseInvariant, Fresh
  <2>2. HeaderReported
    BY <2>1 DEF MessageInvariant
  <2>3. ~HeaderMalformed(disk) /\ ~HeaderUnsupported(disk) =>
          out.records = disk.header.asset_count /\ Filed(disk.header.asset_count)
    BY <2>1 DEF MessageInvariant
  <2>4. \A j : Due(j) = RecordComplaints(disk, Entry(disk, j))
    BY <2>1 DEF Due
  <2>5. QED BY <2>2, <2>3, <2>4, Zenon DEF Filed
<1>2. QED BY <1>1, Inductive, MessagesInductive, PTL


=============================================================================
