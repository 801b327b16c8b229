---------------------------- MODULE BunInvariant ----------------------------
(* The inductive invariant of BunParse: what is known of the file at each    *)
(* point of the program, from the header's checks to the exit code.          *)
EXTENDS BunProperties

\* Control is in the body of the loop, with a record read.
InBody == pc \in {"name", "payload", "validate", "chars", "reseek"}
InLoop == pc = "record" \/ InBody

\* Nothing is decided before the header is read.
Fresh ==
  /\ pc = "start" => ctx = ZeroContext /\ stream.state = "none"
  /\ pc = "header" => /\ ctx.file_size = disk.size
                      /\ ~ctx.saw_malformed /\ ~ctx.saw_unsupported
  /\ pc # "done" => exit = NotExited

\* The loop runs on the file's own header, found to be good.
HeaderKnown ==
  /\ pc = "table" \/ InLoop =>
       header = disk.header /\ ~HeaderMalformed(disk) /\ ~HeaderUnsupported(disk)
  /\ pc = "table" => ~ctx.saw_malformed /\ ~ctx.saw_unsupported

\* The loop variable counts the records done; rec is the one in hand.
Counting ==
  /\ pc = "record" => i <= header.asset_count
  /\ InBody => i < header.asset_count /\ rec = Entry(disk, i)

\* Records whose checks are over, and over but for the name's characters.
Checked == IF pc = "reseek" THEN i + 1 ELSE i
Examined == IF pc \in {"chars", "reseek"} THEN i + 1 ELSE i

\* The flags are right about the records examined so far.
Judged ==
  InLoop =>
    /\ ~ctx.saw_malformed =>
         \A j \in 0 .. Checked - 1 : ~RecordMalformed(disk, Entry(disk, j))
    /\ ~ctx.saw_malformed /\ pc = "chars" =>
         /\ name_range_safe(header, rec)
         /\ NamePrintable(disk, rec) => ~RecordMalformed(disk, rec)
    /\ ctx.saw_unsupported <=>
         \E j \in 0 .. Examined - 1 : RecordUnsupported(Entry(disk, j))

\* A result of BUN_OK or BUN_UNSUPPORTED is the file's class.
ResultSound ==
  pc \in {"report", "close"} /\ result \in {BUN_OK, BUN_UNSUPPORTED} =>
    result = Classify(disk)

\* What is known of the file at every point of the program: the facts that
\* carry RecordSlot and VerdictSound from one step to the next.
ParseInvariant ==
  /\ TypeOK /\ Fresh /\ HeaderKnown /\ Counting /\ RecordSlot
  /\ Judged /\ ResultSound /\ VerdictSound /\ StreamDiscipline

=============================================================================
