----------------------------- MODULE BunMessages -----------------------------
(* The third inductive invariant of BunParse: what the error list holds.    *)
(* Everything in it is true of the file, and until it is full nothing that   *)
(* the checks made so far find is missing. It rests on ParseInvariant and    *)
(* ExactInvariant.                                                          *)
EXTENDS BunExact

\* What the checks that record j has been through should have said of it: at
\* "chars" the bytes of the name in hand are still to be looked at.
Due(j) ==
  RecordComplaints(disk, Entry(disk, j))
    \ (IF pc = "chars" /\ j = i THEN {"name byte"} ELSE {})

\* The first n records have had everything said of them.
Filed(n) == \A j \in 0 .. n - 1 : RecordReported(j, Due(j))

\* No message is a false alarm, and from a list with room none is missing: of
\* the header once it was read, of the records examined so far, and of all of
\* them in the end. NoFalseAlarm and AllReported rest on it.
MessageInvariant ==
  /\ NoFalseAlarm
  /\ ~disturbed /\ Len(ctx.errors) < MAX_ERRORS =>
       /\ pc \notin {"start", "header"} /\ args = 2 => HeaderReported
       /\ InLoop => Filed(Examined)
       /\ /\ pc \in {"report", "close", "done"} /\ args = 2
          /\ ~HeaderMalformed(disk) /\ ~HeaderUnsupported(disk)
          => /\ out.records = disk.header.asset_count
             /\ Filed(disk.header.asset_count)

=============================================================================
