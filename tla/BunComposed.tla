----------------------------- MODULE BunComposed -----------------------------
(* BunParse, step by step over a moving stream, against BunCalls, which says  *)
(* at once what bun_parse_header and bun_parse_assets answer; and what        *)
(* HACKING.md says of the same steps.                                        *)
EXTENDS BunMessages, BunCalls

\* What the two functions answer when they are called as main calls them.
OpenedContext == [ZeroContext EXCEPT !.file = "open", !.file_size = disk.size]
HeaderAnswer == parse_header(disk, OpenedContext)
AssetsAnswer == parse_assets(disk, HeaderAnswer.header, HeaderAnswer.ctx, NoFailures)

\* The loop over a shared stream amounts to the two functions of BunCalls: the
\* same messages in the same order, the same flags and the same result. Where
\* the printers and validators leave the stream, what the last name's check
\* left behind and in which order the actions go does not show (bun_parse.c
\* 81-164, main.c 68-76).
Composed ==
  pc = "report" /\ ~disturbed =>
    LET last == IF HeaderAnswer.result = BUN_OK THEN AssetsAnswer ELSE HeaderAnswer
    IN  ctx = last.ctx /\ result = last.result /\ header = HeaderAnswer.header

-----------------------------------------------------------------------------
(* The invariant that carries Composed through the loop. It rests on         *)
(* ParseInvariant and ExactInvariant.                                       *)

\* The messages that are still to come, when no call fails.
Ahead ==
  LET later == LoopFrom(disk, header, NoFailures, i + 1).es
      names == validate_asset_name(disk, header, rec, i, TRUE,
                 Available(disk, NameStart(header, rec).out))
  IN  CASE pc = "chars" -> (IF name_range_safe(header, rec) THEN names ELSE <<>>) \o later
        [] pc = "reseek" -> later
        [] OTHER -> LoopFrom(disk, header, NoFailures, i).es

\* The context so far and what is still to come make what bun_parse_assets
\* leaves in it, at every point of the loop.
ComposedInvariant ==
  /\ pc = "header" => ctx = OpenedContext
  /\ pc = "table" => ctx = HeaderAnswer.ctx
  /\ pc = "table" \/ InLoop =>
       HeaderAnswer.result = BUN_OK /\ header = HeaderAnswer.header
  /\ InLoop /\ ~disturbed => add_error(ctx, Ahead) = AssetsAnswer.ctx
  /\ Composed

-----------------------------------------------------------------------------
\* HACKING.md: "bun_parse.c is not allowed to write to stdout or stderr; only
\* main.c does that". bun_parse_assets prints each record as it reads it.
ParserSilent ==
  [][pc \notin {"start", "header", "report", "close"} => UNCHANGED out]_vars

=============================================================================
