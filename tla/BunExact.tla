------------------------------ MODULE BunExact ------------------------------
(* The second inductive invariant of BunParse: that nothing but a bad file   *)
(* or a failed call is ever complained of, that what is shown keeps step     *)
(* with what is read, and that every read stays in its section. It rests on  *)
(* ParseInvariant.                                                          *)
EXTENDS BunInvariant

\* The output keeps step with the loop; a snippet left out is the fault of a
\* failed call or of one of the records shown.
Showing ==
  /\ pc \in {"start", "header"} => touched.len = 0
  /\ pc \in {"start", "header", "table"} => out.records = 0 /\ ~out.gaps
  /\ pc = "table" \/ InLoop => out.header
  /\ pc = "record" => out.records = i
  /\ pc \notin {"close", "done"} => out.stderr = "none"
  /\ InLoop /\ out.gaps /\ ~disturbed =>
       \E j \in 0 .. out.records - 1 : RecordMalformed(disk, Entry(disk, j))

\* Without a failed call the malformed flag is raised by a record examined.
Blamed ==
  InLoop /\ ~disturbed /\ ctx.saw_malformed =>
    \E j \in 0 .. Examined - 1 : RecordMalformed(disk, Entry(disk, j))

\* What bun_parse_header or bun_parse_assets has returned is an answer the
\* program may give, and BUN_OK comes after everything was shown.
Answered ==
  pc \in {"report", "close"} =>
    /\ result \in Promise!Allowed(disk, disturbed)
    /\ result = BUN_OK =>
         /\ out.header /\ out.records = disk.header.asset_count
         /\ out.stderr = "none" /\ (out.gaps => disturbed)

\* What makes the verdict exact and the output and the reads right, at every
\* point of the program.
ExactInvariant ==
  /\ pc \notin {"start", "done"} => args = 2
  /\ Showing /\ Blamed /\ Answered
  /\ ReadsContained /\ ShownInOrder /\ AcceptedShown /\ VerdictExact

=============================================================================
