------------------------------- MODULE BunApi -------------------------------
(* The public functions of bun.h called by any client, in any order, on one  *)
(* context and one header variable. The functions guard only against NULL;   *)
(* what a caller may rely on for other orders than main's is stated below.   *)
EXTENDS BunCalls, BunFormat

CONSTANTS
  Files,        \* the files a path may lead to
  Stops,        \* the failures of stdio that bun_parse_assets may meet
  MaxOpens      \* bound: FILEs opened in one run

ASSUME ApiAssumption ==
  /\ \A f \in Files : IsFile(f)
  /\ \A stops \in Stops :
       /\ DOMAIN stops \subseteq Nat \X Uses
       /\ \A call \in DOMAIN stops : stops[call] \in Nat \cup {-1}
  /\ MaxOpens \in Nat

VARIABLES
  streams,      \* the FILEs opened so far: [state, file]
  ctx,          \* ctx.file is the index of a FILE, NULL or Wild
  header,       \* the client's BunHeader
  last,         \* the last call and what it returned
  source,       \* history: the FILE header was last loaded from, and the result
  obeyed,       \* history: since bun_open, assets only under a good header,
                \*   and no read or seek of theirs has failed
  lost          \* history: FILEs whose only pointer bun_open has overwritten

vars == <<streams, ctx, header, last, source, obeyed, lost>>

NULL == 0
Wild == -1      \* an uninitialised pointer
NoSource == [file |-> NULL, good |-> FALSE]

Init ==
  /\ streams = <<>>
  /\ ctx = [ZeroContext EXCEPT !.file = Wild]
  /\ header \in {ZeroHeader} \cup {f.header : f \in Files}
  /\ last = [call |-> "none", result |-> BUN_OK]
  /\ source = NoSource /\ obeyed = TRUE /\ lost = {}

Returns(call, result) == last' = [call |-> call, result |-> result]

\* The FILE the context points to, and what is done to it.
Current == streams[ctx.file]
Fclose == streams' = [streams EXCEPT ![ctx.file].state = "closed"]

\* The client has had an answer from bun_open that was not about its arguments.
Initialised == ctx.file # Wild

-----------------------------------------------------------------------------
\* path or ctx is NULL: nothing is touched, the context least of all.
OpenNull ==
  /\ Returns("open", BUN_ERR_INTERNAL)
  /\ UNCHANGED <<streams, ctx, header, source, obeyed, lost>>

\* memset forgets what ctx held.
Forget ==
  /\ lost' = (lost \cup {k \in {ctx.file} \ {NULL, Wild} : streams[k].state = "open"})
  /\ source' = NoSource /\ obeyed' = TRUE
  /\ UNCHANGED header

\* Mutant: the context is not cleared.
OpenFileUncleared(f) ==
  /\ Len(streams) < MaxOpens
  /\ streams' = Append(streams, [state |-> "open", file |-> f])
  /\ ctx' = [ctx EXCEPT !.file = Len(streams) + 1, !.file_size = f.size]
  /\ Returns("open", BUN_OK) /\ Forget

OpenFile(f) ==
  /\ Len(streams) < MaxOpens
  /\ streams' = Append(streams, [state |-> "open", file |-> f])
  /\ ctx' = [ZeroContext EXCEPT !.file = Len(streams) + 1, !.file_size = f.size]
  /\ Returns("open", BUN_OK) /\ Forget

\* Mutant: the FILE stays open when its size is not known.
OpenFailsLeaking(f) ==
  /\ Len(streams) < MaxOpens
  /\ \/ UNCHANGED streams
     \/ streams' = Append(streams, [state |-> "open", file |-> f])
  /\ ctx' = [ZeroContext EXCEPT !.file = NULL]
  /\ Returns("open", BUN_ERR_IO) /\ Forget

\* fopen fails, or the FILE is closed again because its size is not known.
OpenFails(f) ==
  /\ Len(streams) < MaxOpens
  /\ \/ UNCHANGED streams
     \/ streams' = Append(streams, [state |-> "closed", file |-> f])
  /\ ctx' = [ZeroContext EXCEPT !.file = NULL]
  /\ Returns("open", BUN_ERR_IO) /\ Forget

\* The guard of the other functions: an argument or ctx->file is NULL.
Refused(call) ==
  /\ Initialised
  /\ Returns(call, BUN_ERR_INTERNAL)
  /\ UNCHANGED <<streams, ctx, header, source, obeyed, lost>>

HasFile == Initialised /\ ctx.file # NULL

ParseHeader ==
  /\ HasFile
  /\ LET call == parse_header(Current.file, ctx) IN
     /\ ctx' = call.ctx /\ header' = call.header
     /\ Returns("header", call.result)
     /\ source' = IF call.ctx.header_loaded
                    THEN [file |-> ctx.file, good |-> call.result = BUN_OK]
                    ELSE NoSource
  /\ UNCHANGED <<streams, obeyed, lost>>

\* Its fseek or fread fails, after header was zeroed.
ParseHeaderFails ==
  /\ HasFile /\ ctx.file_size >= BUN_HEADER_SIZE
  /\ ctx' = [ctx EXCEPT !.header_loaded = FALSE] /\ header' = ZeroHeader
  /\ Returns("header", BUN_ERR_IO)
  /\ source' = NoSource
  /\ UNCHANGED <<streams, obeyed, lost>>

ParseAssets(stops) ==
  /\ HasFile
  /\ LET call == parse_assets(Current.file, header, ctx, stops) IN
     ctx' = call.ctx /\ Returns("assets", call.result)
  /\ obeyed' = (/\ obeyed /\ source = [file |-> ctx.file, good |-> TRUE]
                /\ stops = NoFailures)
  /\ UNCHANGED <<streams, header, source, lost>>

\* Mutant: a failing fclose leaves the pointer in the context.
CloseKeeps ==
  /\ HasFile /\ Fclose
  /\ \/ ctx' = [ctx EXCEPT !.file = NULL] /\ Returns("close", BUN_OK)
     \/ UNCHANGED ctx /\ Returns("close", BUN_ERR_IO)
  /\ UNCHANGED <<header, source, obeyed, lost>>

\* fclose releases the FILE whether or not it reports an error.
Close ==
  /\ HasFile /\ Fclose
  /\ ctx' = [ctx EXCEPT !.file = NULL]
  /\ \/ Returns("close", BUN_OK)
     \/ Returns("close", BUN_ERR_IO)
  /\ UNCHANGED <<header, source, obeyed, lost>>

CloseNothing ==
  /\ ctx.file = NULL
  /\ Returns("close", BUN_OK)
  /\ UNCHANGED <<streams, ctx, header, source, obeyed, lost>>

Next ==
  \/ OpenNull \/ \E f \in Files : OpenFile(f) \/ OpenFails(f)
  \/ \E call \in {"header", "assets", "close"} : Refused(call)
  \/ ParseHeader \/ ParseHeaderFails
  \/ \E stops \in Stops : ParseAssets(stops)
  \/ Close \/ CloseNothing

Spec == Init /\ [][Next]_vars

-----------------------------------------------------------------------------
\* Whatever the order of calls, the context never points to a FILE that has
\* been closed, so no call reads, seeks or closes one again.
NoDangling ==
  HasFile => ctx.file \in DOMAIN streams /\ Current.state = "open"

\* The one way to leak a FILE is to call bun_open on a context that holds one:
\* its memset overwrites the pointer (bun_parse.c 51).
OnlyReopenLeaks ==
  \A k \in DOMAIN streams :
    streams[k].state = "open" => (k = ctx.file) # (k \in lost)

\* A client may ignore what bun_parse_header returned: if the header was loaded
\* from the open file, an OK from bun_parse_assets is right and an UNSUPPORTED
\* hides no malformed file, after any other calls, because flags outlive the
\* call that set them. UNSUPPORTED may be too hard on the file: a flag set by
\* an earlier call under some other header stays too.
AcceptMeansValid ==
  HasFile /\ source.file = ctx.file /\ last.call = "assets" =>
    /\ last.result = BUN_OK => Classify(Current.file) = BUN_OK
    /\ last.result = BUN_UNSUPPORTED => Classify(Current.file) # BUN_MALFORMED

\* A client that goes on to the assets only under a good header gets the exact
\* class each time, however often it repeats a call and whatever the context
\* held before bun_open. A header alone may be good while the file is not.
ObedientExact ==
  /\ HasFile /\ obeyed
  /\ last.call \in {"header", "assets"} /\ last.result # BUN_ERR_INTERNAL
  /\ ~(last.call = "header" /\ last.result = BUN_ERR_IO)
  => \/ last.result = Classify(Current.file)
     \/ /\ last.call = "header" /\ last.result = BUN_OK
        /\ ~HeaderMalformed(Current.file) /\ ~HeaderUnsupported(Current.file)

\* No order of calls improves a verdict. Until bun_open really runs again no flag
\* is cleared and no message is lost, and each verdict is the worst there was:
\* it agrees with the flags it leaves. So after MALFORMED there is no OK, however
\* many calls come between, calls that fail with BUN_ERR_IO included.
Reopened == last.call = "open" /\ last.result # BUN_ERR_INTERNAL
Verdict(r) == last.call \in {"header", "assets"} /\ last.result = r

NeverBetter ==
  [][Reopened' \/
     /\ ctx.saw_malformed => ctx'.saw_malformed
     /\ ctx.saw_unsupported => ctx'.saw_unsupported
     /\ Len(ctx.errors) <= Len(ctx'.errors)
     /\ SubSeq(ctx'.errors, 1, Len(ctx.errors)) = ctx.errors
     /\ Verdict(BUN_MALFORMED)' => ctx'.saw_malformed
     /\ Verdict(BUN_UNSUPPORTED)' => ~ctx'.saw_malformed /\ ctx'.saw_unsupported
     /\ Verdict(BUN_OK)' => ~ctx'.saw_malformed /\ ~ctx'.saw_unsupported]_vars

-----------------------------------------------------------------------------
(* The inductive invariant.                                                 *)
Loaded == HasFile /\ source.file = ctx.file

ApiType ==
  /\ streams \in Seq([state : {"open", "closed"}, file : Files])
  /\ ctx \in [file : {Wild, NULL} \cup DOMAIN streams, file_size : offset_t,
              header_loaded : BOOLEAN, errors : Seq(Error),
              saw_malformed : BOOLEAN, saw_unsupported : BOOLEAN]
  /\ header \in BunHeader
  /\ source \in [file : {NULL} \cup DOMAIN streams, good : BOOLEAN]
  /\ obeyed \in BOOLEAN
  /\ lost \subseteq DOMAIN streams

\* What a header loaded from the open FILE tells of it.
SourceKnown ==
  /\ HasFile => ctx.file_size = Current.file.size
  /\ Loaded =>
       /\ header = Current.file.header
       /\ HeaderMalformed(Current.file) => ctx.saw_malformed
       /\ HeaderUnsupported(Current.file) => ctx.saw_unsupported
       /\ source.good =>
            ~HeaderMalformed(Current.file) /\ ~HeaderUnsupported(Current.file)

\* The last verdict was read off the flags, and they have not changed since.
Told ==
  last.call \in {"header", "assets"} =>
    last.result \in {bun_context_result(ctx), BUN_ERR_IO, BUN_ERR_INTERNAL}

\* The flags of an obedient client are the file's.
Earned ==
  HasFile /\ obeyed => bun_context_result(ctx) \in {BUN_OK, Classify(Current.file)}

\* An answer that is not malformed needs a header, and an obedient client
\* always gets a verdict from the assets.
Grounded ==
  /\ HasFile /\ last.call = "header" /\ last.result \in {BUN_OK, BUN_UNSUPPORTED} => Loaded
  /\ HasFile /\ last.call = "assets" /\ obeyed /\ last.result # BUN_ERR_INTERNAL =>
       Loaded /\ last.result # BUN_ERR_IO

\* What makes the verdicts right in any order of calls, at every point.
ApiInvariant ==
  /\ ApiType /\ NoDangling /\ OnlyReopenLeaks
  /\ SourceKnown /\ Told /\ Earned /\ Grounded /\ AcceptMeansValid

=============================================================================
