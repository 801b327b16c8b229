----------------------------- MODULE BunSnippet -----------------------------
(* The snippet printers of bun_output.c byte by byte: what they read into    *)
(* their stack buffers, rle_decode_prefix of bun_utils.c with its u8 loop    *)
(* variable, and what the escaped text and the hex dump show of it. BunParse *)
(* has what the printers do to the stream; this module has what they print.  *)
EXTENDS BunValidate, SequencesExt

CONSTANTS
  Shows,                   \* pairs [file, rec] to print
  NAME_SNIPPET_BYTES, PAYLOAD_SNIPPET_BYTES,
  SNIFF_BYTES,             \* the literal 64 of bun_print_payload_snippet
  LINE_BYTES,              \* bytes in a line of the hex dump: 16
  U8_MAX                   \* largest u8

ASSUME SnippetAssumption ==
  /\ \A s \in Shows : IsFile(s.file) /\ s.rec \in BunAssetRecord
  /\ {NAME_SNIPPET_BYTES, PAYLOAD_SNIPPET_BYTES, SNIFF_BYTES, LINE_BYTES, U8_MAX}
       \subseteq Nat \ {0}

\* The sniff looks at no less than is shown, and a count is a u8. (The largest
\* u8 may be smaller in an instance than in the code.)
ASSUME SniffAssumption == PAYLOAD_SNIPPET_BYTES <= SNIFF_BYTES

CountsFit(f, r) ==
  r.compression = BUN_COMPRESSION_RLE =>
    \A p \in 0 .. (r.data_size \div 2) - 1 :
      ByteAt(f, DataStart(f.header, r).out + 2 * p) <= U8_MAX

ASSUME CountAssumption == \A s \in Shows : CountsFit(s.file, s.rec)

VARIABLES
  file, rec,               \* the arguments
  which,                   \* the function called
  phase,                   \* where control is
  input, want,             \* buf or input, and how many of its bytes were read
  decoded, out_pos, i, j,  \* rle_decode_prefix
  shown                    \* what has been printed

vars == <<file, rec, which, phase, input, want, decoded, out_pos, i, j, shown>>
Args == <<file, rec, which>>

Junk == -1                 \* an uninitialised byte of the stack
Shown(form, text, lines, more) ==
  [form |-> form, text |-> text, lines |-> lines, more |-> more]
Line(form) == Shown(form, <<>>, <<>>, FALSE)

Init ==
  /\ \E s \in Shows : file = s.file /\ rec = s.rec
  /\ which \in {"name", "payload"}
  /\ phase = "enter"
  /\ input = [k \in 0 .. (IF which = "name" THEN NAME_SNIPPET_BYTES
                          ELSE 2 * PAYLOAD_SNIPPET_BYTES) - 1 |-> Junk]
  /\ decoded = [k \in 0 .. PAYLOAD_SNIPPET_BYTES - 1 |-> Junk]
  /\ want = 0 /\ out_pos = 0 /\ i = 0 /\ j = 0
  /\ shown = Line("nothing")

-----------------------------------------------------------------------------
(* Text and dumps. Characters are their codes.                              *)
Hex(d) == IF d < 10 THEN 48 + d ELSE 87 + d

\* \\ \t \n \r have letters of their own
Named ==
  [c \in {92, 9, 10, 13} |->
     CASE c = 92 -> 92 [] c = 9 -> 116 [] c = 10 -> 110 [] c = 13 -> 114]

Escape(c) ==
  IF c \in DOMAIN Named THEN <<92, Named[c]>>
  ELSE IF c \in Printable THEN <<c>>
  ELSE <<92, 120, Hex(c \div 16), Hex(c % 16)>>

bun_print_escaped(buf, len, max_len) ==
  Shown("text", FlattenSeq([k \in 1 .. AtMost(len, max_len) |-> Escape(buf[k - 1])]),
        <<>>, len > max_len)

bun_hex_dump(buf, len, max_bytes) ==
  LET n == AtMost(len, max_bytes)
      line(at) == [at |-> at,
                   bytes |-> [k \in 1 .. AtMost(LINE_BYTES, n - at) |-> buf[at + k - 1]]]
  IN  Shown("hex", <<>>,
            [t \in 1 .. (n + LINE_BYTES - 1) \div LINE_BYTES |->
               line(LINE_BYTES * (t - 1))],
            len > max_bytes)

bun_is_printable_ascii(buf, len) ==
  \A k \in 0 .. len - 1 : buf[k] \in Printable \cup {9, 10, 13}

\* Mutant: the sniff stops short of what is shown.
bun_print_payload_snippet_half(buf, len, max_bytes) ==
  IF len = 0 THEN Line("empty")
  ELSE IF bun_is_printable_ascii(buf, AtMost(len, SNIFF_BYTES \div 2))
    THEN bun_print_escaped(buf, len, max_bytes)
    ELSE bun_hex_dump(buf, len, max_bytes)

bun_print_payload_snippet(buf, len, max_bytes) ==
  IF len = 0 THEN Line("empty")
  ELSE IF bun_is_printable_ascii(buf, AtMost(len, SNIFF_BYTES))
    THEN bun_print_escaped(buf, len, max_bytes)
    ELSE bun_hex_dump(buf, len, max_bytes)

-----------------------------------------------------------------------------
(* print_asset_name_snippet and print_asset_payload_snippet.                *)
Show(s) == shown' = s /\ phase' = "done"
Placeholder(form) == Show(Line(form)) /\ UNCHANGED <<input, want>>

\* fread of n bytes at p, into the front of the buffer.
Fill(p, n) ==
  /\ n <= Available(file, p)
  /\ input' = [k \in DOMAIN input |-> IF k < n THEN ByteAt(file, p + k) ELSE Junk]
  /\ want' = n

Name ==
  LET start == NameStart(file.header, rec)
      safe == name_range_safe(file.header, rec) /\ start.ok /\ Seekable(start.out)
  IN  /\ phase = "enter" /\ which = "name"
      /\ \/ ~safe /\ Placeholder("not safely readable")
         \/ safe /\ Placeholder("read failed")
         \/ /\ safe
            /\ Fill(start.out, AtMost(rec.name_length, NAME_SNIPPET_BYTES))
            /\ Show(bun_print_escaped(input', rec.name_length, NAME_SNIPPET_BYTES))
      /\ UNCHANGED <<decoded, out_pos, i, j, Args>>

\* Mutant: no more room for compressed bytes than for decoded ones.
SnippetInputTight == AtMost(rec.data_size, PAYLOAD_SNIPPET_BYTES)

SnippetInput ==
  AtMost(rec.data_size, IF rec.compression = BUN_COMPRESSION_RLE
                          THEN 2 * PAYLOAD_SNIPPET_BYTES ELSE PAYLOAD_SNIPPET_BYTES)

Payload ==
  LET start == DataStart(file.header, rec)
      safe == data_range_safe(file.header, rec) /\ start.ok /\ Seekable(start.out)
      nonempty == safe /\ rec.data_size > 0
      known == rec.compression \in {BUN_COMPRESSION_NONE, BUN_COMPRESSION_RLE}
  IN  /\ phase = "enter" /\ which = "payload"
      /\ \/ ~safe /\ Placeholder("not safely readable")
         \/ safe /\ rec.data_size = 0 /\ Placeholder("empty")
         \/ nonempty /\ ~known /\ Placeholder("unsupported compression")
         \/ nonempty /\ known /\ Placeholder("read failed")
         \/ /\ nonempty /\ known
            /\ Fill(start.out, SnippetInput)
            /\ IF rec.compression = BUN_COMPRESSION_RLE
                 THEN phase' = "pairs" /\ UNCHANGED shown
                 ELSE Show(bun_print_payload_snippet(input', want', PAYLOAD_SNIPPET_BYTES))
      /\ UNCHANGED <<decoded, out_pos, i, j, Args>>

-----------------------------------------------------------------------------
(* rle_decode_prefix(input, want, decoded, sizeof decoded).                 *)
MorePairs == i + 1 < want /\ out_pos < PAYLOAD_SNIPPET_BYTES
Decoding == UNCHANGED <<input, want, shown, Args>>

\* Mutant: the loop goes on after a pair of count zero, but not past it.
TakeCountAgain ==
  /\ phase = "pairs" /\ MorePairs
  /\ phase' = (IF input[i] = 0 THEN "pairs" ELSE "run")
  /\ j' = 0
  /\ Decoding /\ UNCHANGED <<decoded, out_pos, i>>

TakeCount ==
  /\ phase = "pairs" /\ MorePairs
  /\ phase' = (IF input[i] = 0 THEN "decoded" ELSE "run")
  /\ j' = 0
  /\ Decoding /\ UNCHANGED <<decoded, out_pos, i>>

Copy ==
  /\ decoded' = [k \in DOMAIN decoded \cup {out_pos} |->
                   IF k = out_pos THEN input[i + 1] ELSE decoded[k]]
  /\ out_pos' = out_pos + 1
  /\ j' = (j + 1) % (U8_MAX + 1)
  /\ Decoding /\ UNCHANGED <<phase, i>>

\* Mutant: the inner loop does not look at the capacity.
CopyByteUnbounded == phase = "run" /\ j < input[i] /\ Copy

CopyByte ==
  phase = "run" /\ j < input[i] /\ out_pos < PAYLOAD_SNIPPET_BYTES /\ Copy

RunDone ==
  /\ phase = "run" /\ (j >= input[i] \/ out_pos >= PAYLOAD_SNIPPET_BYTES)
  /\ i' = i + 2 /\ phase' = "pairs"
  /\ Decoding /\ UNCHANGED <<decoded, out_pos, j>>

PairsDone ==
  /\ phase = "pairs" /\ ~MorePairs
  /\ phase' = "decoded"
  /\ Decoding /\ UNCHANGED <<decoded, out_pos, i, j>>

ShowDecoded ==
  /\ phase = "decoded"
  /\ Show(bun_print_payload_snippet(decoded, out_pos, PAYLOAD_SNIPPET_BYTES))
  /\ UNCHANGED <<input, want, decoded, out_pos, i, j, Args>>

Step ==
  Name \/ Payload \/ TakeCount \/ CopyByte \/ RunDone \/ PairsDone \/ ShowDecoded
Returned == phase = "done" /\ UNCHANGED vars
Next == Step \/ Returned

Spec == Init /\ [][Next]_vars /\ WF_vars(Step)

-----------------------------------------------------------------------------
(* What there is to show, and what a reader makes of what was shown.        *)
Raw(from, n) == [k \in 1 .. n |-> ByteAt(file, from + k - 1)]

\* The pairs before the first count of zero, written out.
Expanded(from, n) ==
  LET count(p) == ByteAt(file, from + 2 * p)
      live == {p \in 0 .. (n \div 2) - 1 : \A q \in 0 .. p : count(q) # 0}
  IN  FlattenSeq([p \in 1 .. Cardinality(live) |->
        [k \in 1 .. count(p - 1) |-> ByteAt(file, from + 2 * p - 1)]])

Content ==
  IF which = "name" THEN Raw(NameStart(file.header, rec).out, rec.name_length)
  ELSE IF rec.compression = BUN_COMPRESSION_RLE
    THEN Expanded(DataStart(file.header, rec).out, rec.data_size)
    ELSE Raw(DataStart(file.header, rec).out, rec.data_size)

Limit == IF which = "name" THEN NAME_SNIPPET_BYTES ELSE PAYLOAD_SNIPPET_BYTES
FirstBytes(s, n) == SubSeq(s, 1, AtMost(n, Len(s)))

\* The text read back, one character or escape at a time.
Unescape(t) ==
  LET ch(k) == IF k <= Len(t) THEN t[k] ELSE 0
      digit(c) == IF c < 58 THEN c - 48 ELSE c - 87
      read[k \in 1 .. Len(t) + 4] ==
        IF k > Len(t) THEN <<>>
        ELSE IF ch(k) # 92 THEN <<ch(k)>> \o read[k + 1]
        ELSE IF ch(k + 1) = 120
          THEN <<16 * digit(ch(k + 2)) + digit(ch(k + 3))>> \o read[k + 4]
        ELSE SetToSeq({c \in DOMAIN Named : Named[c] = ch(k + 1)}) \o read[k + 2]
  IN  read[1]

Dumped(ls) == FlattenSeq([t \in DOMAIN ls |-> ls[t].bytes])

ReadBack ==
  CASE shown.form = "text" -> Unescape(shown.text)
    [] shown.form = "hex" -> Dumped(shown.lines)
    [] OTHER -> <<>>

\* A snippet is the beginning of the name, of the payload or of what the
\* payload expands to, cut at the limit and nowhere else: the bytes read are
\* enough pairs to fill the decoded buffer, no uninitialised byte is shown, and
\* text and dump can be read back unambiguously (bun_output.c 44-122, 190-244).
Faithful ==
  shown.form \in {"text", "hex", "empty"} =>
    /\ ReadBack = FirstBytes(Content, Limit)
    /\ \A t \in DOMAIN shown.lines :
         shown.lines[t].at = Len(Dumped(SubSeq(shown.lines, 1, t - 1)))

\* rle_decode_prefix stays in both buffers and has, at every step, written the
\* beginning of the expansion and nothing else (bun_utils.c 136-147).
DecodedSoFar ==
  phase \in {"pairs", "run", "decoded"} =>
    /\ DOMAIN decoded = 0 .. PAYLOAD_SNIPPET_BYTES - 1
    /\ phase = "run" => i + 1 < want
    /\ [k \in 1 .. out_pos |-> decoded[k - 1]] = FirstBytes(Content, out_pos)

\* A payload shown as text has no byte that needs a hex escape: the sniff of 64
\* bytes looks at every byte displayed (bun_output.c 113-116 against 15).
TextClean ==
  which = "payload" /\ shown.form = "text" =>
    \A k \in DOMAIN ReadBack : ReadBack[k] \in Printable \cup {9, 10, 13}

-----------------------------------------------------------------------------
(* The inductive invariant behind the three.                                *)

SnippetType ==
  /\ IsFile(file) /\ rec \in BunAssetRecord /\ CountsFit(file, rec)
  /\ which \in {"name", "payload"}
  /\ phase \in {"enter", "pairs", "run", "decoded", "done"}
  /\ DOMAIN input = 0 .. (IF which = "name" THEN NAME_SNIPPET_BYTES
                          ELSE 2 * PAYLOAD_SNIPPET_BYTES) - 1
  /\ DOMAIN decoded = 0 .. PAYLOAD_SNIPPET_BYTES - 1
  /\ want \in Nat /\ i \in Nat /\ j \in 0 .. U8_MAX
  /\ out_pos \in 0 .. PAYLOAD_SNIPPET_BYTES

\* The buffer holds the pairs that fit it; those taken so far have been written
\* out as far as there is room, and once the decoder has returned it has
\* written all there is or all there is room for.
Decoder ==
  phase \in {"pairs", "run", "decoded"} =>
    LET from == DataStart(file.header, rec).out
        taken == Counts(file, from, i \div 2)
    IN  /\ which = "payload" /\ rec.compression = BUN_COMPRESSION_RLE
        /\ want = SnippetInput /\ i % 2 = 0
        /\ \A k \in 0 .. want - 1 : input[k] = ByteAt(file, from + k)
        /\ \A p \in 0 .. (i \div 2) - 1 :
             2 * p + 1 < want /\ ByteAt(file, from + 2 * p) # 0
        /\ phase = "pairs" => out_pos = AtMost(taken, PAYLOAD_SNIPPET_BYTES)
        /\ phase = "run" => /\ i + 1 < want /\ input[i] # 0
                            /\ j <= input[i] /\ out_pos = taken + j
        /\ phase = "decoded" => out_pos = AtMost(Len(Content), PAYLOAD_SNIPPET_BYTES)

SnippetInvariant ==
  /\ SnippetType /\ Decoder
  /\ phase = "enter" => want = 0 /\ out_pos = 0 /\ i = 0 /\ j = 0
  /\ phase # "done" => shown = Line("nothing")
  /\ DecodedSoFar /\ Faithful /\ TextClean

\* A printer returns, whatever the counts, up to the largest a u8 holds: j does
\* not wrap before it reaches its bound (bun_utils.c 143).
Termination == <>(phase = "done")

=============================================================================
