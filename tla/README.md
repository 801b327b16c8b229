# A verification of `bun_parser`

TLA+ models of the BUN file parser in `src/src/`, checked with TLC on small
instances and proved with TLAPS for all values of the parameters.
`PROJECT.json` maps every definition to the lines it models and lists runs,
mutants, hazards, findings and theorems. Paths below are relative to
`src/src/`.

## The system

`bun_parser FILE` reads one BUN container (a header, a table of asset records,
a string table, a data section), prints what it holds, and exits with a verdict:
0 `BUN_OK`, 1 `BUN_MALFORMED`, 2 `BUN_UNSUPPORTED`, 3 usage, 4 I/O error,
5 internal error. It is one sequential process; what makes it hard is that

- the file decides every offset, count and size the program computes with;
- one stdio stream is shared by the record loop, two printers and two
  validators, all of which seek and read;
- any stdio call can fail at any point, and the file can shrink after its
  size was taken;
- verdicts are accumulated in a context with a bounded error list.

| Component | State | Operations | Talks to |
|---|---|---|---|
| `main.c` | `result`, exit code | argument check, the calls in order, report, exit | everything below |
| `bun_parse.c` | loop variable, current record | `bun_open`, `bun_parse_header`, `bun_parse_assets`, `bun_close`, `bun_context_result` | stream, context, validators, printers |
| `bun_validate.c` | locals of the RLE loop | header checks, record checks, name check, compression check | stream (name and RLE payload), context |
| `bun_output.c` | none | header/record printers, name and payload snippets, error list | stream (snippets), stdout, stderr |
| `bun_utils.c` | none | overflow-safe add and multiply, range checks, `add_error`, `seek_u64`, little-endian reads, RLE prefix | context, stream |
| `bun.h` | `BunParseContext`: stream, file size, error list, two flags | types and limits | |
| `bunfile_generator.py`, `tests/make_fixtures.py` | two cursors | lay out and write example files | the parser, through the files |
| `tests/`, scripts | | test, package | not the program |

What makes each correct:

- *parser*: record i is read at slot i although everything in the loop body
  moves the stream; the loop ends; the stream is closed on every path; a
  failure is never mistaken for acceptance.
- *validators*: a message appears exactly when the rule it names is broken, at
  the place it names; a failed check hides no other; the overlap and range
  tests are exact at empty sections, touching sections and integer limits;
  the chunked RLE loop computes what an unchunked one would.
- *context*: flags are set even when the list is full; nothing recorded is
  taken back; malformed outranks unsupported.
- *printers*: a snippet shows the beginning of the name or payload and nothing
  else, whatever the counts of an RLE payload and however a size is cut.
- *public functions*: called in another order than `main`'s they lose no FILE,
  use none that was closed, and accept nothing they should not.
- *writers and fixtures*: what the Python side writes is what the C side reads,
  field by field, and gets the promised exit code.
- *driver*: the exit code is the class of the file; an accepted file was shown
  whole; assets are looked at only under a good header.

## Modules

| Module | Models | Notes |
|---|---|---|
| `BunUtils` | `bun.h`, `bun_utils.c`, `bun_context_result` | result codes, records, context, saturating arithmetic, `add_error` |
| `BunFile` | the file as stdio delivers it | header, records by position, bytes by position |
| `BunValidate` | `bun_validate.c` | a validator is the row of `add_error` calls it makes |
| `BunRle` | the 4096-byte chunk loop of `validate_compression` | one `fread` and one pair at a time |
| `BunParse` | `main.c`, `bun_parse.c`, the stream use of `bun_output.c` | the state machine |
| `BunSnippet` | the snippet printers of `bun_output.c`, `rle_decode_prefix` | bytes into text and dumps, one decoded byte at a time |
| `BunCalls` | `bun_parse_header`, `bun_parse_assets` as functions | from arguments and failures of stdio to result and context |
| `BunApi` | the public functions of `bun.h` under any client | composes `BunCalls` |
| `BunCodec` | little-endian reads, field offsets, labels printed; `struct.pack` and the two write functions | bytes and structures |
| `BunWriter` | `bunfile_generator.py`, `tests/make_fixtures.py` | from assets to the bytes of a file |
| `BunComposed` | `BunParse` with `BunCalls` | the loop against the functions, at its end (`Composed`) and at every point (`ComposedInvariant`) |
| `BunWritten` | `BunParse` with `BunWriter` | from the writer's arguments to the exit code, and what these arguments deserve (`RightAnswer`) |
| `BunFormat` | reference | what class a file has: unbounded integers, sets of positions |
| `BunVerdict` | abstract specification | what a run promises its caller |
| `BunProperties` | properties of `BunParse` | judged against the two above |
| `BunInvariant` | the first inductive invariant of `BunParse` | what the code has concluded is true |
| `BunExact` | the second | a conclusion is blamed on what deserves it; reads and output in place |
| `BunMessages` | the third | the error list is true, and complete while it has room |
| `MCBunParse`, `MCBunRle`, `MCBunSnippet`, `MCBunApi`, `MCBunWriter` | instances for TLC | files to run on |
| `Bun*_proofs` | theorems and lemmas | |

### Correspondence to the code

An action of `BunParse` is a function, or the stretch of the body of
`bun_parse_assets`'s loop between two uses of the stream; `pc` names where
control is:

    start -BunOpen-> header -BunParseHeader-> table -SeekTable-> record
      -ReadRecord-> name -PrintName-> payload -PrintPayload-> validate
      -ValidateRecord-> chars -ValidateName-> reseek -Reseek-> record ...
      -AssetsDone-> report -Report-> close -BunClose-> done

`stream`, `ctx`, `header`, `i`, `rec`, `result` and `exit` are the program's
variables (`exit` is the value `main` returns). `out` is what has been printed:
whether the header was, how many records, whether a snippet was replaced by a
placeholder, what stderr got. `touched` is the last range read and `disturbed`
whether a stdio call has failed; both are history variables that no guard reads.

`BunApi` has one action per public function and way of ending: `OpenNull`,
`OpenFile`, `OpenFails`, `Refused` (the NULL guards), `ParseHeader`,
`ParseHeaderFails`, `ParseAssets`, `Close`, `CloseNothing`. The client's context
and header are uninitialised at first, so the functions other than `bun_open`
are called only after it: what they would do on a wild pointer is undefined.
`source`, `obeyed` and `lost` are history variables that no guard reads. In
`BunCalls` a failing stdio call of `bun_parse_assets` is named by the record and
the use it is for, with the bytes it delivers before it fails. The printers'
own reads are not among them: their failures leave no trace in the context.

`BunSnippet` follows the C functions down to their stack buffers, whose bytes
are `Junk` until they are written. `BunWriter` says of each script what it
writes, one byte string after the other, since nothing there seeks; a failed
`assert n >= 0` is a byte no file has.

Abstractions:

- *Messages.* An error is its code, what it complains of, and the section or
  asset (and byte) it names; wording is left out.
- *Rows of `add_error`.* A validator is the sequence of calls it makes, applied
  at once. `add_error_composes` proves that this is what consecutive calls do,
  also when the array fills up in the middle.
- *Decoding.* In `BunParse` a file is given by the header and the records it
  decodes to and by the bytes of its strings and payloads. `BunCodec!FileOf` is
  the way from bytes to such a file, and `HeaderRoundTrip` and `RecordRoundTrip`
  prove that every header and record is the decoding of some bytes (those that
  the scripts write for it), so that the files BunParse runs on exist. `reserved` and
  `type` are printed and never tested; only `BunCodec` has them.
- *Printing.* `BunCodec` has labels and values, `BunSnippet` characters and lines
  of a dump; number formats and columns are left out, and so is the `.` for a
  byte in the right column of a dump.
- *Widths.* `UINT32_MAX`, `UINT64_MAX` and `LONG_MAX` are constants, so that a
  run can reach overflow; `bun_u64_add` and `bun_u64_mul` saturate as in the
  code. `version_major` and `version_minor` range over `u32`, a superset.
- *The RLE loop* is one step in `BunParse`. `BunRle!OneStep` checks that the
  loop computes that step's outcome and leaves the stream where it says.
- *stdio.* A call may fail when its name is in `Faults`. A read under faults
  delivers any number of the bytes there are, which covers a device error and a
  file truncated after `bun_open`. After a short `fread` the position is not
  used before the next seek. `"fread"` in `Faults` includes `fgetc`.

In `BunParse`, the NULL checks at the head of the public functions (they are in
`BunApi`), the asset-table-size
overflow (a u32 times 48 fits a u64), and the overflow of the name's absolute
offset (its range was checked) cannot be reached from `main`; the last two are
modelled all the same.

## Runs

| Run | Instance | Shows |
|---|---|---|
| `layout` | 3510 files: four sections touching, nested, empty, misaligned, outside the file, ending beyond `LONG_MAX` or `UINT64_MAX`; odd headers; files from 0 to 511 bytes | `VerdictExact`, `NoFalseAlarm`, `AllReported` |
| `assets` | ordered pairs of 23 records (good, or breaking one or more rules; a bad name, range, flag or checksum over each compression rule) over 2 texts and 3 payloads, in two section orders | `RecordSlot`, `AllReported`, `MessageInvariant`, `ExactInvariant`, `ComposedInvariant`, `Termination` |
| `faults` | 54 files, `argc` 1 to 3, every stdio call may fail, an error list of 2 | `TypeOK`, `ParseInvariant`, `ExactInvariant`, `VerdictSound`, `ReadsContained`, `StreamDiscipline`, `AcceptedShown`, `ShownInOrder`, `Sticky`, `PromiseKept` |
| `rle` | every payload of 5 pairs over counts 0, 1, 200, 7 sizes, every short read, chunks of 4 bytes, u64 cut to 204 | `PairInBuffer`, `Accounting`, `OneStep`, `FirstZero`, `RleInvariant`, `Termination` |
| `snippet` | names and payloads around snippets of 3 and 5 bytes, dump lines of 2, RLE payloads of 6 pairs over counts 0, 1, 3 with a u8 of 0..3, odd sizes, files that end early | `Faithful`, `DecodedSoFar`, `TextClean`, `SnippetInvariant`, `Termination` |
| `api` | any sequence of calls with up to two FILEs, 10 files, 4 patterns of failing reads and seeks | `NoDangling`, `OnlyReopenLeaks`, `AcceptMeansValid`, `ObedientExact`, `ApiInvariant`, `NeverBetter` |
| `fixtures` | the 31 fixtures of `make_fixtures.py` with the codes of `expectations.tsv`, both scripts' layouts over 106 other lengths and runs | `Expected`, `AsWritten`, `OwnBytes`, `FromDisk` |
| `doc_*` | see Findings | violated, as expected |

The bounds are small where the code is uniform and real where it is not: the
header and record sizes are 60 and 48; two records are enough for one asset to
hide, outrank or displace another; a chunk of 4 bytes and 5 pairs gives two
whole chunks and a partial one, and a size beyond the file a failed read; an
error list of 2 fills up within one record, and before the second. The lists of 30 in
`layout` and of 12 in `assets` never fill up (a header makes at most 17
messages, two records 10), so that there every message is seen.

`snippet` keeps the order of the real numbers: the largest u8 is below the room
for decoded bytes, the input buffer is twice that room, and the sniff is as long
as the snippet. In `api` two FILEs and an unbounded number of calls are enough
for a context to be reopened over an open, a closed and a failed one; the error
list holds one message and so is full for most calls. `fixtures` uses the real
sizes, buffers and lengths of names and payloads; the magic has three bytes and the largest integers are
2^24-1 and 2^30-1, because TLC counts with 32 bits. Texts that no check
distinguishes are replaced by other letters.

`out.records` saturates at `UINT32_MAX`, a bound no run of the code reaches:
the loop prints each of at most `UINT32_MAX` records once.

Fairness is `WF_vars(Step)`: the program is one thread and the operating system
runs it; no fairness is assumed of a particular outcome of a call. `Termination`
(every run ends, whatever the file's counts claim) needs no more, since the loop
variable rises, and every loop is bounded by a count or by the end of the file.
Deadlock is checked: the only state without a step of the program is `done`,
which stutters by `Exited` (`Returned` in `BunRle`).

### Properties

`VerdictExact` is the central one: without a stdio failure the exit code is
`Classify(disk)`, and `BunFormat!Classify` knows nothing of streams, order of
checks, saturation or lists. `VerdictSound` is what remains of it under
failures, and `PromiseKept` says all a caller may expect of a run, including
that it ends and when `BUN_ERR_IO` is a legal answer, as a refinement of
`BunVerdict` (`file <- disk`, `faulty <- disturbed`, `verdict <- exit`).
`NoFalseAlarm` and `AllReported` are the two directions for messages. What
should be said is computed from the file, without the validators' order:
`HeaderComplaints` pairs each broken rule of the header with its section, and
`RecordComplaints` has those of a record, its ranges, name, checksum, flags,
compression (zlib, unknown, a declared size without compression) and RLE payload
(`RleComplaints`: odd size, and either a zero count, an overflow or another size
than declared). `layout` asks it of headers, `assets` of records.
`ReadsContained` bounds every read by the section it belongs to; the RLE check
is bounded only when the record's data range is right, because the code reads
it in either case (see Findings); any byte that is read is in the file.

`Composed`, a conjunct of `ComposedInvariant`, says that the record loop, with
its moving stream, amounts to the two functions of `BunCalls`; what `BunApi` shows
of these in any order is then about the same code. It compares two models, and
adds nothing about the validators, which both use. In `BunApi`, `AcceptMeansValid` is what a careless client may rely on
(when the header came from this FILE, `BUN_OK` from the assets is right and
`BUN_UNSUPPORTED` hides no malformed file; it may be too hard on the file,
because a flag set under another header stays), and `ObedientExact` what a careful
one may. `NeverBetter` is a property of every step: until `bun_open` clears the
context no call unsets a flag or drops or changes a message, and a call that
answers OK, MALFORMED or UNSUPPORTED says what the flags say. So a context once
called malformed is never called anything better, also when calls that fail with
`BUN_ERR_IO`, and so say nothing, come between.

`Accounting` has two parts: where the stream, the chunk and the pair in hand stand
(`Balance`), and that `expanded` is the sum of the counts of every pair before
them (`Summed`), across chunks. Its mutant starts the sum again with each chunk.

The invariants that the proofs need are checked as well, each on the run where
it says most: `ParseInvariant`, `ExactInvariant`, `MessageInvariant` and
`ComposedInvariant` of `BunParse`, `RleInvariant` (which contains `BunRle`'s type
invariant), `ApiInvariant`, `SnippetInvariant` and `FromDisk`. `ExactInvariant` contains
`VerdictExact` and `ReadsContained`, so that `assets` and `faults` check these too, and `MessageInvariant` contains
`NoFalseAlarm`, which `assets` checks with it.

`Faithful` reads the printed text back, escapes and all, and compares it with
the expansion of the whole payload; it fails when too few pairs are read, when a
byte of an uninitialised buffer is shown, or when an escape is ambiguous.
`AsWritten` ties the byte offsets of `bun_parse.c` to the format strings of the
generator, and `Expected` the paddings and cursors of the scripts to every
check of the parser: the exit code is the one `expectations.tsv` gives, and, for a
file made of assets, `RightAnswer`, which judges the magic, the version and each
asset by itself and knows no offset. `OwnBytes` compares what is read for a snippet
with the asset it belongs to; it speaks of the body of the loop only, since
between two records the last read may be one of the asset before. `FromDisk` says
from where header and snippets were read, which the proofs of the others need.

Every property of a passing run has a mutant: an operator beside the one it
mutates, introduced by `Mutant:` and used by nothing else, with which TLC finds
the property violated.

## Proofs

For all constants that satisfy the assumptions

- `WidthAssumption`: the widths are naturals, a table of `UINT32_MAX` records
  has a u64 size, a long is narrower than a u64 and holds the header size;
- `BufferAssumption`: the RLE buffer has even, positive size;
- `ParseAssumption`: every file has the shape of a file, `Faults` is a set of
  stdio calls, and snippets are not empty;
- `RleAssumption`, for `BunRle`: payloads are files, sizes and declared sizes fit
  a u64, and a size is even (an odd one has been refused before the loop);
- `ApiAssumption`, for `BunApi`: the same of the files, and a failure is of a use
  of the stream for some record;
- `SnippetAssumption`, for `BunSnippet`: files have the shape of a file, and the
  sizes of the buffers, of the sniff and of a dump line and the largest u8 are
  positive; `SniffAssumption`: the sniff is no shorter than the snippet;
  `CountAssumption`: every count of an RLE payload is a u8,

which the C values (2^32-1, 2^64-1, 2^63-1, 60, 48, 100, 4096; 60, 64, 64, 16 and
255) satisfy, and so
for any set of files and any pattern of failures:

| Theorem | Says |
|---|---|
| `Inductive` | `BunParse`'s `Spec => []ParseInvariant` |
| `TypeCorrect`, `RecordsInPlace`, `AcceptsOnlyGood`, `NoLeak` | `[]TypeOK`, `[]RecordSlot`, `[]VerdictSound`, `[]StreamDiscipline` |
| `ExactInductive` | `Spec => []ExactInvariant` |
| `ExactVerdict`, `ReadsStay`, `AcceptedIsShown`, `ShowsInOrder` | `[]VerdictExact`, `[]ReadsContained`, `[]AcceptedShown`, `[]ShownInOrder` |
| `NeverTakenBack` | `Spec => Sticky` |
| `KeepsPromise` | every step is a step of `BunVerdict` or a stutter |
| `MessagesInductive` | `Spec => []MessageInvariant` |
| `TellsTheTruth`, `TellsAll` | `[]NoFalseAlarm`, `[]AllReported` |
| `ComposedInductive`, `ComposesCalls` | `[]ComposedInvariant`, `[]Composed` |
| `CallsClassify` | the two functions of `BunCalls`, called in order, compute the class of the file |
| `add_error_composes` | two rows of `add_error` are one |
| `RleInductive` | `BunRle`'s `Spec => []RleInvariant` |
| `RleTypeCorrect`, `RleAccounting`, `RleOneStep`, `RlePairs`, `RleFirstZero` | `BunRle`'s `[]TypeOK`, and the other invariants of the run `rle` |
| `ApiInductive` | `BunApi`'s `Spec => []ApiInvariant` |
| `NeverDangling`, `LeaksOnlyByReopen`, `AcceptedIsValid`, `ObedientClientExact` | the four invariants of the run `api` |
| `VerdictsOnlyWorsen` | `BunApi`'s `Spec => NeverBetter`: no flag or message is lost, and no verdict contradicts the flags, before the next `bun_open` |
| `SnippetInductive` | `BunSnippet`'s `Spec => []SnippetInvariant` |
| `SnippetsFaithful`, `DecoderStays`, `TextIsClean` | the three invariants of the run `snippet` it implies: `[]Faithful`, `[]DecodedSoFar`, `[]TextClean` |
| `HeaderRoundTrip`, `RecordRoundTrip` | decoding what was packed gives the fields back, for all values that fit their widths |
| `KnowsItsReads`, `ReadsKnown` | `[]OnDisk`, `[]FromDisk`: the header in memory and the last read are what file and record say |
| `SimpleLaid` | `_simple_valid` puts every list of assets where its header and records say, each with its own bytes |
| `ScriptsAgree` | for one asset, the generator and `_simple_valid` write the same bytes |
| `EncoderAccepted` | what `_rle_encode` makes passes the parser's check, for any data |
| `ShowsOwnBytes`, `ShowsWhatWasWritten` | `[]OwnBytes`, `[]AsWritten`, for all files the scripts can lay out, under any failures |
| `AnswersTheScripts` | `[]Expected`, for all such files, when no call fails |

The last three say more in their hypotheses. `RealSizes` (60 and 48) holds of
`bun.h` and is written into the generator's format strings. `ReadFrom` says that the
file holds the bytes the script has written, and `Packed` that `struct.pack` took
every value, as it raises an exception otherwise. `Scripted` lists the functions that
lay a file out (`_simple_valid` with any assets and keywords, the generator's
`main`, a header and records by hand), and `Promised` adds the code the file is
given: `RightAnswer` for a file made of assets. For one put together by hand
`Promised` takes `Classify`, so that of these files `AnswersTheScripts` says no more than
`ExactVerdict`; that `expectations.tsv` agrees is for TLC. `AnswersTheScripts`
assumes one argument on the command line and no failing call, as
`tests/run_e2e.sh` has it.

**The invariants of `BunParse`.** There are four, each resting on those before it.

1. `VerdictSound` speaks of the exit code only; to carry it through the loop one
   has to say what the flags mean after i records. `ParseInvariant` does: the
   header in memory is the file's own and good from `table` on (`HeaderKnown`);
   the loop variable and the record in hand agree with the table (`Counting`,
   `RecordSlot`); `saw_malformed` unset means that every record checked so far is
   well-formed, and `saw_unsupported` is set exactly when one examined is
   unsupported (`Judged`), with a separate clause at `chars` where a record has
   passed all checks but its name's bytes; and a result of OK or UNSUPPORTED is
   the class of the file (`ResultSound`). `StreamDiscipline` and `TypeOK`
   complete it.
2. That is one direction. `ExactInvariant` adds the other: without a failed call
   a raised flag has a record to blame (`Blamed`), a snippet is left out for a
   failed call or a bad record already shown (`Showing`), and the result is an
   answer `BunVerdict` allows (`Answered`). `VerdictExact` and `KeepsPromise`
   follow.
3. `MessageInvariant` does for messages what the two do for flags. Its second
   half speaks of a list with room, until a call fails: once the header was
   read its broken rules are in the list, in the loop so are those of the records
   examined so far (`Filed`), less the byte of the name that is still to be looked
   at (`Due`), and after it those of all records.
4. `ComposedInvariant` compares the loop with functions that recur from record i
   to the last (`LoopFrom`), so it looks ahead: the context, with the messages
   still to come (`Ahead`), is what `bun_parse_assets` leaves at once.

**The argument**, bottom up. Each module extends the one before it, except that
`BunRle_proofs` and `BunSnippet_proofs` stand on `BunValidate_proofs`,
`BunApi_proofs` on `BunChecks_proofs`, and `BunWritten_proofs` on `BunParse_proofs`.

1. `BunValidate_proofs`: what `add_error` does to flags and list, capacity
   included; the validators' rows are well typed; a record whose row holds no
   malformed message obeys `BunFormat`'s rules (`RecordSound`). `Counts` is shown
   to satisfy its recursion (`SumsExist`) and to grow by a pair at a time, and so
   the RLE verdict to mean what it says (`RleVerdictFacts`).
2. `BunChecks_proofs`: the checks against the format, both ways. A header row
   without complaint is a header that `BunFormat` accepts, where overflow and
   the interval overlap test meet sets of byte positions (`OverlapSound`), and a
   complaint is deserved (`HeaderExact`). One turn of the loop of
   `bun_parse_assets`, then, from the last record down, all of them, and
   `CallsClassify`.
3. `BunParse_proofs` (the first two invariants of `BunParse`), `BunMessages_proofs`
   (the others): one lemma per action and invariant, and the theorems. The first part
   of `BunMessages_proofs` is `ComposedInvariant`; the second defines what it is for a row of messages to be
   true (`AllTrue`) and to speak of something (`Says`), shows both of each
   validator's row, and that `add_error` keeps them.
4. `BunRle_proofs`: `RleInvariant` is `BunRle`'s `TypeOK` and `Accounting` (positions and
   the sum so far) with what the buffer holds (`Chunked`). The loop's chunks
   then add up to the one step of `BunParse` (`OneStep`).
5. `BunApi_proofs`: `Owned` says that the context's pointer is NULL, wild or an
   index of an opened FILE, that what it points to is open, and that every open
   FILE is pointed to or lost. `ApiInvariant` adds what the flags owe to the header
   last loaded (`SourceKnown`, `Told`) and to an obedient client (`Earned`,
   `Grounded`). `CallsClassify` and its parts say what each call adds. `NeverBetter` needs
   besides that the list never outgrows its array (`RoomAlways`), and what each
   call does to a context (`CallsKeep`, `VerdictIsTold`).
6. `BunWritten_proofs` goes from the arguments of the scripts to the exit code.
   First the codec: a number is its lowest byte and the rest (`LowestDigit`), a
   buffer is read piece by piece from the left (`ReadFront`, `ReadRest`), and each
   field meets its own bytes. Then where things are: `Holds` says that bytes stand at
   an offset of others, appending keeps it, and a join holds each of its pieces
   (`FlattenHolds`), so that table, names and payloads are where the two cursors
   of `_simple_valid` were (`SimplePlaces`); the alignments leave no gap for a negative
   padding (`NoGaps`). What the parser decodes at these places is what was written
   (`FileIs`, `EntryIs`), and `OnDisk`, inductive with `ParseInvariant`, says that it is
   there that it reads. The exit code is the file's class by `ExactVerdict`
   (`Calm` carries that no call has failed), and this class is `RightAnswer`
   (`ClassDeserves`): sections that were written one after the other do not overlap,
   every record's ranges are within them, and a payload's RLE verdict is the same
   in the file as alone (`SameCounts`).
7. `BunSnippet_proofs`: what is shown is a sequence of pieces (a byte's escape, a
   dump line, a pair's run) joined by `FlattenSeq`. `FlattenWhole` says where in the
   whole each piece is, from the positions at which they end (`Ends`), and stands
   for an induction theorem about `FlattenSeq`. With it a payload's expansion is
   known byte by byte (`ExpandedIs`), a dump gives its bytes back
   (`HexReadsBack`), and so does escaped text (`EscapedReadsBack`), because the first
   characters of each escape tell which it is (`NextReadEscape`). The invariant
   (`Decoder`) says where the decoder stands: the pairs before `i` are whole and
   have counts above zero, and `out_pos` is the sum of these counts, plus `j` within
   a run, up to the room. Each step then writes the next byte of the expansion
   (`NextPair`), and `j` cannot wrap, because it stays within a count.

The provers cannot use the library's induction theorems, which take an operator.
Where something is proved of every prefix or suffix of a payload or a table
(`Counts`, `LoopFrom`, `_rle_encode`'s recursion) the proof takes the least, or last,
place where it fails and looks at the one before it.

**Only model-checked**: liveness (`Termination`, the fairness part of
`PromiseKept`) and ENABLED are out of TLAPS's reach. Every invariant a passing run
checks is proved; two things about the fixtures are not. That the codes of
`expectations.tsv` are right is a fact about a table. And two of the 31 files are neither
`_simple_valid`'s nor a header with its records (one is too short for a header, the
other has its table at 61): they are not `Scripted`.

## Findings

Disagreements between the code and what the repository says of it, each shown
by a run that TLC refutes:

- `doc_range`: `bun_validate.h:79` says that the data bounds check prevents
  reading outside the data section. The check only records a message: an RLE
  payload is read wherever its offset points (`bun_validate.c:147`).
- `doc_malformed`: `main.c:46` reserves `BUN_MALFORMED` for files that violate
  the specification and gives read errors to `BUN_ERR_IO`. A failed read of a
  record, name or payload makes a good file malformed (`bun_parse.c:142`).
- `doc_messages`: `main.c:40` prints any malformed or unsupported messages; when
  the loop gives up with `BUN_ERR_IO` they are dropped (`bun_parse.c:159`).
- `doc_header`: `bun.h:145` lists three results of `bun_parse_header`; it has a
  fourth, `BUN_ERR_IO`.
- `doc_silent`: `HACKING.md:171` forbids `bun_parse.c` to write to stdout. It
  prints every record and two snippets from its loop (`bun_parse.c:147`).

Two smaller ones need no run: `bun_output.h:48` gives every byte that is not
printable a `\xHH`, while tab, LF, CR and the backslash have escapes of their
own (`bun_output.c:54`); and a payload longer than its snippet is never marked
as cut, because the caller passes the number of bytes it has read as the length
(`bun_output.c:239`), while a name is.

## Not modelled

- Writes to stdout and stderr that fail: the code ignores them all.
- Wording, number formats and columns of the output; messages cut at
  `MAX_ERROR_LEN`.
- Calls on a context that `bun_open` has not seen, which are undefined, and
  `size_t` or `long` narrower than assumed (`WidthAssumption`).
- `make_large_fixture.py`: its file is `_simple_valid`'s for one asset of zeros,
  streamed in pieces. The unit tests, the shell scripts and the build only run
  the program.

## Plan

The order put the exit code first: utilities, file, validators, parser,
reference and abstract specification, then the RLE loop and the proofs of
soundness; then the printers, the public functions in any order, the codec and
the writers, each composed with the parser; then the proofs of the exact
verdict, the messages, the RLE loop, the public functions, the composition and the
snippets, and last those about the writers, for any list of assets. All of that is
done. What could be added is a model of stdout, for programs that read the
report, once the repository says what a failed write means.
