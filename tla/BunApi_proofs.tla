---------------------------- MODULE BunApi_proofs ----------------------------
(* However the public functions are called, no FILE is used after it was      *)
(* closed, and only a second bun_open loses one; what they answer is right    *)
(* about the file as far as AcceptMeansValid and ObedientExact say.           *)
EXTENDS BunApi, BunChecks_proofs

\* A context's file is one of the FILEs opened, and a lost FILE was opened.
Holding ==
  /\ streams \in Seq([state : {"open", "closed"}, file : Files])
  /\ "file" \in DOMAIN ctx
  /\ ctx.file \in {Wild, NULL} \cup DOMAIN streams
  /\ lost \subseteq DOMAIN streams

\* The inductive invariant: what the context points to is open, and an open
\* FILE is either there or lost.
Owned == Holding /\ NoDangling /\ OnlyReopenLeaks

\* A file is not one of the other fields.
LEMMA FieldsApart ==
  ASSUME NEW c, "file" \in DOMAIN c, NEW es, NEW v
  PROVE  LET d == add_error([c EXCEPT !.header_loaded = v], es)
         IN  "file" \in DOMAIN d /\ d.file = c.file
BY DEF add_error

\* Parsing leaves the pointer alone.
LEMMA ParsersKeepFile ==
  ASSUME NEW c, "file" \in DOMAIN c, NEW f, NEW h, NEW stops
  PROVE  /\ "file" \in DOMAIN parse_header(f, c).ctx
         /\ parse_header(f, c).ctx.file = c.file
         /\ "file" \in DOMAIN parse_assets(f, h, c, stops).ctx
         /\ parse_assets(f, h, c, stops).ctx.file = c.file
<1>1. /\ "file" \in DOMAIN parse_header(f, c).ctx
      /\ parse_header(f, c).ctx.file = c.file
  BY FieldsApart DEF parse_header
<1>2. /\ "file" \in DOMAIN parse_assets(f, h, c, stops).ctx
      /\ parse_assets(f, h, c, stops).ctx.file = c.file
  BY DEF parse_assets, add_error
<1> QED
  BY <1>1, <1>2

\* A step that keeps the FILEs, the pointer and what is lost keeps Owned.
LEMMA SameFile ==
  ASSUME Owned, UNCHANGED <<streams, lost>>, "file" \in DOMAIN ctx', ctx'.file = ctx.file
  PROVE  Owned'
BY DEF Owned, Holding, NoDangling, OnlyReopenLeaks, HasFile, Initialised, Current

\* Every element of a sequence of FILEs is a FILE.
LEMMA FilesOf ==
  ASSUME NEW T, NEW s \in Seq(T), NEW k \in 1 .. Len(s)
  PROVE  s[k] \in T
OBVIOUS

\* Nothing is open at first, and the pointer is no FILE's.
LEMMA OwnedAtFirst == Init => Owned
<1> SUFFICES ASSUME Init PROVE Owned
  OBVIOUS
<1>1. "file" \in DOMAIN ctx /\ ctx.file = Wild
  BY DEF Init, ZeroContext
<1>2. streams = <<>> /\ lost = {}
  BY DEF Init
<1>3. streams \in Seq([state : {"open", "closed"}, file : Files]) /\ DOMAIN streams = {}
  BY <1>2
<1> QED
  BY <1>1, <1>2, <1>3
  DEF Owned, Holding, NoDangling, OnlyReopenLeaks, HasFile, Initialised

\* bun_open with one more FILE.
LEMMA OwnedOpenFile ==
  ASSUME Owned, NEW f \in Files, OpenFile(f)
  PROVE  Owned'
<1> DEFINE new == [state |-> "open", file |-> f]
           n == Len(streams)
<1>1. /\ streams \in Seq([state : {"open", "closed"}, file : Files])
      /\ n \in Nat /\ DOMAIN streams = 1 .. n
      /\ ctx.file \in {-1, 0} \cup 1 .. n /\ lost \subseteq 1 .. n
  BY DEF Owned, Holding, Wild, NULL
<1>2. /\ streams' = Append(streams, new)
      /\ "file" \in DOMAIN ctx' /\ ctx'.file = n + 1
      /\ lost' = lost \cup {k \in {ctx.file} \ {0, -1} : streams[k].state = "open"}
  BY DEF OpenFile, Forget, ZeroContext, Wild, NULL
<1>3. new \in [state : {"open", "closed"}, file : Files]
  OBVIOUS
<1>4. /\ streams' \in Seq([state : {"open", "closed"}, file : Files])
      /\ DOMAIN streams' = 1 .. n + 1
      /\ \A k \in 1 .. n : streams'[k] = streams[k]
      /\ streams'[n + 1] = new
  <2> HIDE DEF new
  <2> QED
    BY <1>1, <1>2, <1>3
<1> HIDE DEF n
<1>5. Holding'
  <2>1. ctx'.file \in DOMAIN streams'
    BY <1>1, <1>2, <1>4
  <2>2. lost' \subseteq DOMAIN streams'
    <3>1. ctx.file \notin {0, -1} => ctx.file \in 1 .. n
      BY <1>1
    <3>2. lost' \subseteq 1 .. n
      BY <1>1, <1>2, <3>1
    <3>3. 1 .. n \subseteq 1 .. n + 1
      BY <1>1
    <3> QED
      BY <1>4, <3>2, <3>3
  <2> QED
    BY <2>1, <2>2, <1>2, <1>4 DEF Holding
<1>6. NoDangling'
  BY <1>1, <1>2, <1>4 DEF NoDangling, Current
<1>7. OnlyReopenLeaks'
  <2> SUFFICES ASSUME NEW k \in 1 .. n + 1, streams'[k].state = "open"
               PROVE  (k = ctx'.file) # (k \in lost')
    BY <1>4 DEF OnlyReopenLeaks
  <2>1. CASE k = n + 1
    BY <2>1, <1>1, <1>2
  <2>2. CASE k \in 1 .. n
    <3>1. streams[k].state = "open" /\ k # n + 1
      BY <2>2, <1>1, <1>4
    <3>2. (k = ctx.file) # (k \in lost)
      BY <3>1, <2>2, <1>1 DEF Owned, OnlyReopenLeaks
    <3> QED
      BY <3>1, <3>2, <2>2, <1>1, <1>2
  <2> QED
    BY <2>1, <2>2, <1>1
<1> QED
  BY <1>5, <1>6, <1>7 DEF Owned

\* bun_open that ends without a FILE.
LEMMA OwnedOpenFails ==
  ASSUME Owned, NEW f \in Files, OpenFails(f)
  PROVE  Owned'
<1> DEFINE new == [state |-> "closed", file |-> f]
           n == Len(streams)
<1>1. /\ streams \in Seq([state : {"open", "closed"}, file : Files])
      /\ n \in Nat /\ DOMAIN streams = 1 .. n
      /\ ctx.file \in {-1, 0} \cup 1 .. n /\ lost \subseteq 1 .. n
  BY DEF Owned, Holding, Wild, NULL
<1>2. /\ streams' = streams \/ streams' = Append(streams, new)
      /\ "file" \in DOMAIN ctx' /\ ctx'.file = 0
      /\ lost' = lost \cup {k \in {ctx.file} \ {0, -1} : streams[k].state = "open"}
  BY DEF OpenFails, Forget, ZeroContext, Wild, NULL
<1>3. new \in [state : {"open", "closed"}, file : Files] /\ new.state # "open"
  OBVIOUS
<1>4. /\ streams' \in Seq([state : {"open", "closed"}, file : Files])
      /\ 1 .. n \subseteq DOMAIN streams'
      /\ \A k \in 1 .. n : streams'[k] = streams[k]
      /\ \A k \in DOMAIN streams' : k \notin 1 .. n => streams'[k] = new
  <2> HIDE DEF new
  <2>1. CASE streams' = streams
    BY <2>1, <1>1
  <2>2. CASE streams' = Append(streams, new)
    <3>1. DOMAIN streams' = 1 .. n + 1
      BY <2>2, <1>1, <1>3
    <3> QED
      BY <2>2, <3>1, <1>1, <1>3
  <2> QED
    BY <2>1, <2>2, <1>2
<1> HIDE DEF n
<1>5. Holding'
  BY <1>1, <1>2, <1>4 DEF Holding, NULL
<1>6. NoDangling'
  BY <1>2 DEF NoDangling, HasFile, NULL
<1>7. OnlyReopenLeaks'
  <2> SUFFICES ASSUME NEW k \in DOMAIN streams', streams'[k].state = "open"
               PROVE  (k = ctx'.file) # (k \in lost')
    BY DEF OnlyReopenLeaks
  <2>1. k \in 1 .. n /\ streams[k].state = "open"
    BY <1>3, <1>4
  <2>2. (k = ctx.file) # (k \in lost)
    BY <2>1, <1>1 DEF Owned, OnlyReopenLeaks
  <2> QED
    BY <2>1, <2>2, <1>1, <1>2
<1> QED
  BY <1>5, <1>6, <1>7 DEF Owned

\* bun_close of an open FILE.
LEMMA OwnedClose ==
  ASSUME Owned, Close
  PROVE  Owned'
<1> DEFINE n == Len(streams)
           c == ctx.file
<1>1. /\ streams \in Seq([state : {"open", "closed"}, file : Files])
      /\ n \in Nat /\ DOMAIN streams = 1 .. n
      /\ c \in 1 .. n /\ lost \subseteq 1 .. n
  BY DEF Owned, Holding, Wild, NULL, Close, HasFile, Initialised
<1>2. /\ streams' = [streams EXCEPT ![c].state = "closed"]
      /\ "file" \in DOMAIN ctx' /\ ctx'.file = 0
      /\ lost' = lost
  BY DEF Close, Fclose, NULL, Owned, Holding
<1>3. \A k \in 1 .. n : streams[k] \in [state : {"open", "closed"}, file : Files]
  <2> HIDE DEF c
  <2> QED
    BY <1>1, FilesOf
<1>4. [streams[c] EXCEPT !.state = "closed"] \in [state : {"open", "closed"}, file : Files]
  BY <1>1, <1>3
<1>5. /\ DOMAIN streams' = 1 .. n
      /\ \A k \in 1 .. n : k # c => streams'[k] = streams[k]
      /\ streams'[c] = [streams[c] EXCEPT !.state = "closed"]
      /\ streams'[c].state = "closed"
  BY <1>1, <1>2, <1>3
<1>6. streams' \in Seq([state : {"open", "closed"}, file : Files])
  BY <1>1, <1>2, <1>4
<1> HIDE DEF n, c
<1>7. Holding'
  BY <1>1, <1>2, <1>5, <1>6 DEF Holding, NULL
<1>8. NoDangling'
  BY <1>2 DEF NoDangling, HasFile, NULL
<1>9. OnlyReopenLeaks'
  <2> SUFFICES ASSUME NEW k \in 1 .. n, streams'[k].state = "open"
               PROVE  (k = ctx'.file) # (k \in lost')
    BY <1>5 DEF OnlyReopenLeaks
  <2>1. k # c /\ streams[k].state = "open"
    BY <1>5
  <2>2. (k = c) # (k \in lost)
    BY <2>1, <1>1 DEF Owned, OnlyReopenLeaks, c
  <2> QED
    BY <2>1, <2>2, <1>1, <1>2
<1> QED
  BY <1>7, <1>8, <1>9 DEF Owned

\* No call of any function, in any order, breaks the invariant.
LEMMA OwnedStep == Owned /\ [Next]_vars => Owned'
<1> SUFFICES ASSUME Owned, [Next]_vars PROVE Owned'
  OBVIOUS
<1> USE DEF Owned
<1>0. "file" \in DOMAIN ctx
  BY DEF Holding
<1>1. CASE \E f \in Files : OpenFile(f)
  BY <1>1, OwnedOpenFile
<1>2. CASE \E f \in Files : OpenFails(f)
  BY <1>2, OwnedOpenFails
<1>3. CASE Close
  BY <1>3, OwnedClose
<1>4. CASE ParseHeader
  BY <1>0, <1>4, ParsersKeepFile, SameFile DEF ParseHeader
<1>5. CASE ParseHeaderFails
  BY <1>0, <1>5, SameFile DEF ParseHeaderFails
<1>6. CASE \E stops \in Stops : ParseAssets(stops)
  BY <1>0, <1>6, ParsersKeepFile, SameFile DEF ParseAssets
<1>7. CASE UNCHANGED <<streams, ctx, lost>>
  BY <1>0, <1>7, SameFile
<1> QED
  BY <1>1, <1>2, <1>3, <1>4, <1>5, <1>6, <1>7
  DEF Next, OpenNull, Refused, CloseNothing, vars

\* A client may call the functions in any order, as often as it likes, and with
\* any failures: no call is made on a FILE that was closed.
THEOREM NeverDangling == Spec => []NoDangling
<1>1. Owned => NoDangling
  BY DEF Owned
<1> QED
  BY OwnedAtFirst, OwnedStep, <1>1, PTL DEF Spec

\* Whatever else a client does, a FILE is closed or still in the context unless
\* bun_open was called on the context that held it.
THEOREM LeaksOnlyByReopen == Spec => []OnlyReopenLeaks
<1>1. Owned => OnlyReopenLeaks
  BY DEF Owned
<1> QED
  BY OwnedAtFirst, OwnedStep, <1>1, PTL DEF Spec

-----------------------------------------------------------------------------
(* What the answers are worth.                                              *)

\* The files and the failures of the model are files and failures.
LEMMA ApiFacts ==
  /\ \A f \in Files : IsFile(f)
  /\ \A stops \in Stops : IsStops(stops)
BY ApiAssumption DEF IsStops

\* The invariant holds what Owned needs.
LEMMA InvariantOwned == ApiInvariant => Owned
BY DEF ApiInvariant, ApiType, Owned, Holding

\* While the context holds a FILE, that is one of a file, and the context is
\* one as the validators know it.
LEMMA CurrentFile ==
  ASSUME ApiType, HasFile
  PROVE  /\ ctx.file \in DOMAIN streams /\ ctx.file # NULL /\ ctx.file # Wild
         /\ IsFile(Current.file)
         /\ ctx \in ContextOf({Wild, NULL} \cup DOMAIN streams)
         /\ header \in BunHeader
<1>1. ctx.file \in DOMAIN streams /\ ctx.file # NULL /\ ctx.file # Wild
  BY DEF ApiType, HasFile, Initialised
<1>2. streams[ctx.file] \in [state : {"open", "closed"}, file : Files]
  <2>1. /\ streams \in Seq([state : {"open", "closed"}, file : Files])
        /\ DOMAIN streams = 1 .. Len(streams)
    BY DEF ApiType
  <2>2. QED BY <1>1, <2>1, FilesOf
<1>3. IsFile(Current.file)
  BY <1>2, ApiFacts DEF Current
<1>4. QED BY <1>1, <1>3 DEF ApiType, ContextOf

\* The type of the next state, beyond what Owned says of it.
LEMMA NextType ==
  ASSUME Holding', NEW S, ctx' \in ContextOf(S), header' \in BunHeader,
         source' \in [file : {NULL} \cup DOMAIN streams', good : BOOLEAN], obeyed' \in BOOLEAN
  PROVE  ApiType'
<1>1. ctx'.file \in {Wild, NULL} \cup DOMAIN streams'
  BY DEF Holding
<1>2. ctx' \in ContextOf({Wild, NULL} \cup DOMAIN streams')
  BY <1>1 DEF ContextOf
<1>3. QED BY <1>2 DEF ApiType, Holding, ContextOf

\* A step that only says something that is no verdict.
LEMMA NoVerdict ==
  ASSUME ApiInvariant, UNCHANGED <<streams, ctx, header, source, obeyed, lost>>,
         last'.call \in {"open", "close"} \/ last'.result = BUN_ERR_INTERNAL
  PROVE  ApiInvariant'
<1>1. ApiType' /\ NoDangling' /\ OnlyReopenLeaks' /\ SourceKnown' /\ Earned'
  BY DEF ApiInvariant, ApiType, NoDangling, OnlyReopenLeaks, SourceKnown, Earned,
         HasFile, Initialised, Current, Loaded
<1>2. Told' /\ Grounded' /\ AcceptMeansValid'
  BY CodesApart DEF Told, Grounded, AcceptMeansValid
<1>3. QED BY <1>1, <1>2 DEF ApiInvariant

\* A step after which the context holds no FILE.
LEMMA NoFileLeft ==
  ASSUME ApiInvariant, Owned', ctx'.file = NULL, NEW S, ctx' \in ContextOf(S),
         header' \in BunHeader, obeyed' \in BOOLEAN,
         source' \in [file : {NULL} \cup DOMAIN streams', good : BOOLEAN],
         last'.call \in {"open", "close"}
  PROVE  ApiInvariant'
<1>1. ApiType'
  BY NextType DEF Owned
<1>2. ~HasFile'
  BY DEF HasFile
<1>3. /\ NoDangling' /\ OnlyReopenLeaks' /\ SourceKnown' /\ Told' /\ Earned' /\ Grounded'
      /\ AcceptMeansValid'
  BY <1>2 DEF Owned, SourceKnown, Told, Earned, Grounded, AcceptMeansValid, Loaded
<1>4. QED BY <1>1, <1>3 DEF ApiInvariant

\* bun_open knows nothing of the file but its size.
LEMMA OpenFileAnswers ==
  ASSUME ApiInvariant, Owned', NEW f \in Files, OpenFile(f)
  PROVE  ApiInvariant'
<1> DEFINE n == Len(streams)
           new == [state |-> "open", file |-> f]
<1>1. /\ streams' = Append(streams, new) /\ source' = NoSource /\ obeyed' = TRUE
      /\ header' = header /\ last' = [call |-> "open", result |-> BUN_OK]
      /\ ctx' = [ZeroContext EXCEPT !.file = n + 1, !.file_size = f.size]
  BY DEF OpenFile, Forget, Returns
<1>2. /\ streams \in Seq([state : {"open", "closed"}, file : Files]) /\ n \in Nat
      /\ header \in BunHeader
  BY DEF ApiInvariant, ApiType
<1>3. IsFile(f) /\ f.size \in offset_t
  BY ApiFacts DEF IsFile
<1>4. streams'[n + 1] = new
  <2>1. new \in [state : {"open", "closed"}, file : Files]
    OBVIOUS
  <2> HIDE DEF new
  <2>2. QED BY <1>1, <1>2, <2>1
<1>5. ctx' \in ContextOf({n + 1}) /\ ctx'.file = n + 1 /\ ctx'.file_size = f.size
      /\ ~ctx'.saw_malformed /\ ~ctx'.saw_unsupported
  BY <1>1, <1>3, ZeroTypes DEF ZeroContext, ContextOf, BunParseContext
<1>6. Current'.file = f
  BY <1>4, <1>5 DEF Current
<1>7. source' \in [file : {NULL} \cup DOMAIN streams', good : BOOLEAN] /\ source'.file = NULL
  BY <1>1 DEF NoSource
<1>8. ApiType'
  <2> HIDE DEF n
  <2>1. QED BY <1>1, <1>2, <1>5, <1>7, NextType DEF Owned
<1>9. ~Loaded'
  BY <1>2, <1>5, <1>7 DEF Loaded, NULL
<1>10. SourceKnown' /\ Earned'
  <2>1. bun_context_result(ctx') = BUN_OK
    BY <1>5, ResultIs
  <2>2. QED BY <1>5, <1>6, <1>9, <2>1 DEF SourceKnown, Earned
<1>11. Told' /\ Grounded' /\ AcceptMeansValid'
  BY <1>1 DEF Told, Grounded, AcceptMeansValid
<1>12. QED BY <1>8, <1>10, <1>11 DEF ApiInvariant, Owned

\* bun_open that ends without a FILE leaves nothing to be right about.
LEMMA OpenFailsAnswers ==
  ASSUME ApiInvariant, Owned', NEW f \in Files, OpenFails(f)
  PROVE  ApiInvariant'
<1>1. /\ source' = NoSource /\ obeyed' = TRUE /\ header' = header
      /\ last' = [call |-> "open", result |-> BUN_ERR_IO]
      /\ ctx' = [ZeroContext EXCEPT !.file = NULL]
  BY DEF OpenFails, Forget, Returns
<1>2. ctx' \in ContextOf({NULL}) /\ ctx'.file = NULL
  BY <1>1, ZeroTypes DEF ZeroContext, ContextOf, BunParseContext
<1>3. source' \in [file : {NULL} \cup DOMAIN streams', good : BOOLEAN]
  BY <1>1 DEF NoSource
<1>4. QED BY <1>1, <1>2, <1>3, NoFileLeft DEF ApiInvariant, ApiType

\* bun_close takes the FILE away, whatever it answers.
LEMMA CloseAnswers ==
  ASSUME ApiInvariant, Owned', Close
  PROVE  ApiInvariant'
<1>1. /\ ctx' = [ctx EXCEPT !.file = NULL] /\ header' = header
      /\ source' = source /\ obeyed' = obeyed /\ last'.call = "close"
      /\ streams' = [streams EXCEPT ![ctx.file].state = "closed"]
  BY DEF Close, Fclose, Returns
<1>2. ApiType
  BY DEF ApiInvariant
<1>3. ctx' \in ContextOf({NULL}) /\ ctx'.file = NULL
  BY <1>1, <1>2 DEF ApiType, ContextOf
<1>4. DOMAIN streams' = DOMAIN streams
  BY <1>1
<1>5. QED BY <1>1, <1>2, <1>3, <1>4, NoFileLeft DEF ApiType

\* A call that keeps the FILEs and the pointer is about the same file.
LEMMA StillThere ==
  ASSUME HasFile, streams' = streams, ctx'.file = ctx.file
  PROVE  /\ HasFile' /\ Current' = Current
         /\ source' = source => (Loaded' <=> Loaded)
BY DEF HasFile, Initialised, Current, Loaded

\* What the messages of the whole table say of the file's class.
LEMMA LoopClass ==
  ASSUME NEW f, IsFile(f), NEW stops, IsStops(stops), ~HeaderMalformed(f),
         NEW t, t = AssetLoop(f, f.header, stops)
  PROVE  /\ ~t.io /\ ~Has(t.es, BUN_MALFORMED) =>
              Classify(f) = IF HeaderUnsupported(f) \/ Has(t.es, BUN_UNSUPPORTED)
                              THEN BUN_UNSUPPORTED ELSE BUN_OK
         /\ ~HeaderUnsupported(f) /\ stops = NoFailures =>
              ~t.io /\ (Has(t.es, BUN_MALFORMED) => Classify(f) = BUN_MALFORMED)
<1> DEFINE mal == \E j \in 0 .. f.header.asset_count - 1 : RecordMalformed(f, Entry(f, j))
           uns == \E j \in 0 .. f.header.asset_count - 1 : RecordUnsupported(Entry(f, j))
<1>1. /\ Sound(f, 0, t)
      /\ stops = NoFailures => Deserved(f, 0, t)
  BY LoopSays
<1>2. Classify(f) = IF HeaderUnsupported(f) THEN BUN_UNSUPPORTED
                    ELSE IF mal THEN BUN_MALFORMED
                    ELSE IF uns THEN BUN_UNSUPPORTED ELSE BUN_OK
  BY DEF Classify
<1>3. ~t.io /\ ~Has(t.es, BUN_MALFORMED) => ~mal /\ (Has(t.es, BUN_UNSUPPORTED) <=> uns)
  BY <1>1 DEF Sound
<1>4. stops = NoFailures => ~t.io /\ (Has(t.es, BUN_MALFORMED) => mal)
  BY <1>1 DEF Deserved
<1> HIDE DEF mal, uns
<1>5. QED BY <1>2, <1>3, <1>4

\* The order in which the format's definition looks at the header.
LEMMA HeaderClass ==
  ASSUME NEW f
  PROVE  /\ HeaderMalformed(f) => Classify(f) = BUN_MALFORMED
         /\ ~HeaderMalformed(f) /\ HeaderUnsupported(f) => Classify(f) = BUN_UNSUPPORTED
BY DEF Classify

\* bun_parse_header adds what the header is to what the flags say.
LEMMA ParseHeaderAnswers ==
  ASSUME ApiInvariant, Owned', ParseHeader
  PROVE  ApiInvariant'
<1> DEFINE f == Current.file
           p == parse_header(f, ctx)
           S == {Wild, NULL} \cup DOMAIN streams
<1>1. /\ streams' = streams /\ obeyed' = obeyed /\ ctx' = p.ctx /\ header' = p.header
      /\ last' = [call |-> "header", result |-> p.result]
      /\ source' = IF ctx'.header_loaded
                     THEN [file |-> ctx.file, good |-> p.result = BUN_OK] ELSE NoSource
  BY DEF ParseHeader, Returns
<1>2. /\ HasFile /\ ApiType /\ SourceKnown /\ Earned
  BY DEF ParseHeader, ApiInvariant
<1>3. /\ IsFile(f) /\ ctx \in ContextOf(S) /\ ctx.file_size = f.size
      /\ ctx.file \in DOMAIN streams /\ ctx.file # NULL
  BY <1>2, CurrentFile DEF SourceKnown
<1>4. /\ ctx' \in ContextOf(S) /\ header' \in BunHeader
      /\ ctx'.file = ctx.file /\ ctx'.file_size = ctx.file_size
      /\ p.result = bun_context_result(ctx')
      /\ ctx'.saw_malformed <=> ctx.saw_malformed \/ HeaderMalformed(f)
      /\ ctx.saw_unsupported => ctx'.saw_unsupported
      /\ IF f.size < BUN_HEADER_SIZE
           THEN ~ctx'.header_loaded
           ELSE /\ ctx'.header_loaded /\ header' = f.header
                /\ ctx'.saw_unsupported <=> ctx.saw_unsupported \/ HeaderUnsupported(f)
  <2> HIDE DEF p, S, f
  <2>1. p = parse_header(f, ctx)
    BY DEF p
  <2>2. QED BY <1>1, <1>3, <2>1, HeaderCall
<1>5. f.size < BUN_HEADER_SIZE => HeaderMalformed(f)
  BY DEF HeaderMalformed
<1> HIDE DEF p, S
<1>6. HasFile' /\ Current'.file = f
  BY <1>1, <1>2, <1>4, StillThere
<1> HIDE DEF f
<1>7. ApiType'
  <2>1. source' \in [file : {NULL} \cup DOMAIN streams', good : BOOLEAN]
    BY <1>1, <1>3 DEF NoSource
  <2>2. obeyed' \in BOOLEAN
    BY <1>1, <1>2 DEF ApiType
  <2>3. QED BY <1>4, <2>1, <2>2, NextType DEF Owned
<1>8. Loaded' <=> ctx'.header_loaded
  BY <1>1, <1>3, <1>4, <1>6 DEF Loaded, NoSource
<1>9. SourceKnown'
  <2>1. ctx'.file_size = Current'.file.size
    BY <1>3, <1>4, <1>6
  <2>2. ASSUME Loaded'
        PROVE  /\ header' = f.header
               /\ HeaderMalformed(f) => ctx'.saw_malformed
               /\ HeaderUnsupported(f) => ctx'.saw_unsupported
               /\ source'.good => ~HeaderMalformed(f) /\ ~HeaderUnsupported(f)
    <3>1. ~(f.size < BUN_HEADER_SIZE) /\ source'.good = (p.result = BUN_OK)
      BY <1>1, <1>4, <1>8, <2>2
    <3>2. p.result = BUN_OK => ~ctx'.saw_malformed /\ ~ctx'.saw_unsupported
      BY <1>4, ResultIs
    <3>3. QED BY <1>4, <3>1, <3>2
  <2>3. QED BY <1>6, <2>1, <2>2 DEF SourceKnown
<1>10. Told'
  BY <1>1, <1>4 DEF Told
<1>11. Earned'
  <2>1. SUFFICES ASSUME obeyed PROVE bun_context_result(ctx') \in {BUN_OK, Classify(f)}
    BY <1>1, <1>6 DEF Earned
  <2>2. bun_context_result(ctx) \in {BUN_OK, Classify(f)}
    BY <1>2, <2>1 DEF Earned, f
  <2>3. ctx.saw_malformed => Classify(f) = BUN_MALFORMED
    BY <2>2, ResultIs, CodesApart
  <2>4. ~ctx.saw_malformed /\ ctx.saw_unsupported => Classify(f) = BUN_UNSUPPORTED
    BY <2>2, ResultIs, CodesApart
  <2>5. CASE ctx'.saw_malformed
    BY <1>4, <2>3, <2>5, HeaderClass, ResultIs
  <2>6. CASE ~ctx'.saw_malformed
    BY <1>4, <1>5, <2>4, <2>6, HeaderClass, ResultIs
  <2>7. QED BY <2>5, <2>6
<1>12. Grounded' /\ AcceptMeansValid'
  <2>1. p.result \in {BUN_OK, BUN_UNSUPPORTED} => Loaded'
    BY <1>4, <1>5, <1>8, ResultIs, CodesApart
  <2>2. QED BY <1>1, <2>1 DEF Grounded, AcceptMeansValid
<1>13. QED BY <1>7, <1>9, <1>10, <1>11, <1>12 DEF ApiInvariant, Owned

\* When it fails, it has forgotten the header and learnt nothing.
LEMMA ParseHeaderFailsAnswers ==
  ASSUME ApiInvariant, Owned', ParseHeaderFails
  PROVE  ApiInvariant'
<1> DEFINE S == {Wild, NULL} \cup DOMAIN streams
<1>1. /\ streams' = streams /\ obeyed' = obeyed /\ header' = ZeroHeader
      /\ ctx' = [ctx EXCEPT !.header_loaded = FALSE]
      /\ last' = [call |-> "header", result |-> BUN_ERR_IO] /\ source' = NoSource
  BY DEF ParseHeaderFails, Returns
<1>2. HasFile /\ ApiType /\ SourceKnown /\ Earned
  BY DEF ParseHeaderFails, ApiInvariant
<1>3. ctx \in ContextOf(S) /\ ctx.file # NULL
  BY <1>2, CurrentFile
<1>4. /\ ctx' \in ContextOf(S) /\ ctx'.file = ctx.file /\ ctx'.file_size = ctx.file_size
      /\ bun_context_result(ctx') = bun_context_result(ctx)
  BY <1>1, <1>3 DEF ContextOf, bun_context_result
<1> HIDE DEF S
<1>5. HasFile' /\ Current' = Current
  BY <1>1, <1>2, <1>4, StillThere
<1>6. ApiType'
  <2>1. source' \in [file : {NULL} \cup DOMAIN streams', good : BOOLEAN]
    BY <1>1 DEF NoSource
  <2>2. obeyed' \in BOOLEAN
    BY <1>1, <1>2 DEF ApiType
  <2>3. header' \in BunHeader
    BY <1>1, ZeroTypes
  <2>4. QED BY <1>4, <2>1, <2>2, <2>3, NextType DEF Owned
<1>7. ~Loaded'
  BY <1>1, <1>3, <1>4 DEF Loaded, NoSource
<1>8. SourceKnown'
  BY <1>2, <1>4, <1>5, <1>7 DEF SourceKnown
<1>9. Earned'
  BY <1>1, <1>2, <1>4, <1>5 DEF Earned
<1>10. Told' /\ Grounded' /\ AcceptMeansValid'
  BY <1>1, CodesApart DEF Told, Grounded, AcceptMeansValid
<1>11. QED BY <1>6, <1>8, <1>9, <1>10 DEF ApiInvariant, Owned

\* bun_parse_assets adds what the records are. Under a header that is not the
\* file's it may add anything, but no client that obeys is then left.
LEMMA ParseAssetsAnswers ==
  ASSUME ApiInvariant, Owned', NEW stops \in Stops, ParseAssets(stops)
  PROVE  ApiInvariant'
<1> DEFINE f == Current.file
           p == parse_assets(f, header, ctx, stops)
           t == AssetLoop(f, header, stops)
           S == {Wild, NULL} \cup DOMAIN streams
<1>1. /\ streams' = streams /\ header' = header /\ source' = source /\ ctx' = p.ctx
      /\ last' = [call |-> "assets", result |-> p.result]
      /\ obeyed' = (/\ obeyed /\ source = [file |-> ctx.file, good |-> TRUE]
                    /\ stops = NoFailures)
  BY DEF ParseAssets, Returns
<1>2. HasFile /\ ApiType /\ SourceKnown /\ Earned
  BY DEF ParseAssets, ApiInvariant
<1>3. /\ IsFile(f) /\ ctx \in ContextOf(S) /\ header \in BunHeader /\ IsStops(stops)
      /\ ctx.file_size = f.size
  BY <1>2, CurrentFile, ApiFacts DEF SourceKnown
<1>4. /\ ctx' \in ContextOf(S)
      /\ ctx'.file = ctx.file /\ ctx'.file_size = ctx.file_size
      /\ ctx'.saw_malformed <=> ctx.saw_malformed \/ Has(t.es, BUN_MALFORMED)
      /\ ctx'.saw_unsupported <=> ctx.saw_unsupported \/ Has(t.es, BUN_UNSUPPORTED)
      /\ t.io => p.result = BUN_ERR_IO
      /\ ~t.io => p.result = bun_context_result(ctx')
  <2> HIDE DEF p, S, f
  <2>1. p = parse_assets(f, header, ctx, stops)
    BY DEF p
  <2>2. QED BY <1>1, <1>3, <2>1, AssetsCall
<1>5. Loaded =>
        /\ header = f.header
        /\ HeaderMalformed(f) => ctx.saw_malformed
        /\ HeaderUnsupported(f) => ctx.saw_unsupported
        /\ source.good => ~HeaderMalformed(f) /\ ~HeaderUnsupported(f)
  BY <1>2 DEF SourceKnown
<1>6. Loaded /\ ~HeaderMalformed(f) =>
        /\ ~t.io /\ ~Has(t.es, BUN_MALFORMED) =>
             Classify(f) = IF HeaderUnsupported(f) \/ Has(t.es, BUN_UNSUPPORTED)
                             THEN BUN_UNSUPPORTED ELSE BUN_OK
        /\ ~HeaderUnsupported(f) /\ stops = NoFailures =>
             ~t.io /\ (Has(t.es, BUN_MALFORMED) => Classify(f) = BUN_MALFORMED)
  <2> HIDE DEF f
  <2>1. QED BY <1>3, <1>5, LoopClass
<1> HIDE DEF p, S, t
<1>7. HasFile' /\ Current' = Current /\ Current'.file = f /\ (Loaded' <=> Loaded)
  BY <1>1, <1>2, <1>4, StillThere
<1>8. Earned /\ HasFile /\ obeyed => bun_context_result(ctx) \in {BUN_OK, Classify(f)}
  BY DEF Earned
<1> HIDE DEF f
<1>9. obeyed' =>
        /\ obeyed /\ Loaded /\ stops = NoFailures
        /\ ~HeaderMalformed(f) /\ ~HeaderUnsupported(f) /\ ~t.io
  <2>1. SUFFICES ASSUME obeyed' PROVE /\ obeyed /\ Loaded /\ stops = NoFailures
                                      /\ ~HeaderMalformed(f) /\ ~HeaderUnsupported(f) /\ ~t.io
    OBVIOUS
  <2>2. obeyed /\ source = [file |-> ctx.file, good |-> TRUE] /\ stops = NoFailures
    BY <1>1, <2>1, Zenon
  <2>3. source.file = ctx.file /\ source.good
    BY <2>2
  <2>4. QED BY <1>2, <1>5, <1>6, <2>2, <2>3 DEF Loaded
<1>10. ApiType'
  <2>1. source' \in [file : {NULL} \cup DOMAIN streams', good : BOOLEAN]
    BY <1>1, <1>2 DEF ApiType
  <2>2. obeyed' \in BOOLEAN
    BY <1>1, <1>2 DEF ApiType
  <2>3. QED BY <1>1, <1>3, <1>4, <2>1, <2>2, NextType DEF Owned
<1>11. SourceKnown'
  BY <1>1, <1>3, <1>4, <1>5, <1>7 DEF SourceKnown
<1>12. Told'
  BY <1>1, <1>4 DEF Told
<1>13. Earned'
  <2>1. SUFFICES ASSUME obeyed' PROVE bun_context_result(ctx') \in {BUN_OK, Classify(f)}
    BY <1>7 DEF Earned
  <2>2. bun_context_result(ctx) \in {BUN_OK, Classify(f)}
    BY <1>2, <1>8, <1>9, <2>1
  <2>3. ctx.saw_malformed => Classify(f) = BUN_MALFORMED
    BY <2>2, ResultIs, CodesApart
  <2>4. ~ctx.saw_malformed /\ ctx.saw_unsupported => Classify(f) = BUN_UNSUPPORTED
    BY <2>2, ResultIs, CodesApart
  <2>5. CASE ctx'.saw_malformed
    BY <1>4, <1>6, <1>9, <2>1, <2>3, <2>5, ResultIs
  <2>6. CASE ~ctx'.saw_malformed
    BY <1>4, <1>6, <1>9, <2>1, <2>4, <2>6, ResultIs
  <2>7. QED BY <2>5, <2>6
<1>14. Grounded'
  <2>1. obeyed' => Loaded' /\ p.result # BUN_ERR_IO
    BY <1>4, <1>7, <1>9, ResultIs, CodesApart
  <2>2. QED BY <1>1, <2>1 DEF Grounded
<1>15. AcceptMeansValid'
  <2>1. ASSUME Loaded', p.result \in {BUN_OK, BUN_UNSUPPORTED}
        PROVE  /\ p.result = BUN_OK => Classify(f) = BUN_OK
               /\ p.result = BUN_UNSUPPORTED => Classify(f) # BUN_MALFORMED
    <3>1. ~t.io /\ ~ctx'.saw_malformed
      BY <1>4, <2>1, ResultIs, CodesApart
    <3>2. Loaded /\ ~HeaderMalformed(f) /\ ~Has(t.es, BUN_MALFORMED)
      BY <1>4, <1>5, <1>7, <2>1, <3>1
    <3>3. p.result = BUN_OK => ~HeaderUnsupported(f) /\ ~Has(t.es, BUN_UNSUPPORTED)
      BY <1>4, <1>5, <3>1, <3>2, ResultIs
    <3>4. QED BY <1>6, <3>1, <3>2, <3>3, CodesApart
  <2>2. HasFile' /\ source'.file = ctx'.file => Loaded'
    BY DEF Loaded
  <2>3. QED BY <1>1, <1>7, <2>1, <2>2 DEF AcceptMeansValid
<1>16. QED BY <1>10, <1>11, <1>12, <1>13, <1>14, <1>15 DEF ApiInvariant, Owned

-----------------------------------------------------------------------------
(* The theorems.                                                            *)

\* At first there is no FILE, and nothing has been answered.
LEMMA ApiInit == Init => ApiInvariant
<1> SUFFICES ASSUME Init PROVE ApiInvariant
  OBVIOUS
<1>1. /\ streams = <<>> /\ lost = {} /\ obeyed = TRUE /\ source = NoSource
      /\ last = [call |-> "none", result |-> BUN_OK]
      /\ ctx = [ZeroContext EXCEPT !.file = Wild]
      /\ header \in {ZeroHeader} \cup {f.header : f \in Files}
  BY DEF Init
<1>2. ctx \in ContextOf({Wild}) /\ ctx.file = Wild
  BY <1>1, ZeroTypes DEF ZeroContext, ContextOf, BunParseContext
<1>3. header \in BunHeader
  BY <1>1, ZeroTypes, ApiFacts DEF IsFile
<1>4. ApiType
  <2>1. streams \in Seq([state : {"open", "closed"}, file : Files])
    BY <1>1
  <2>2. QED BY <1>1, <1>2, <1>3, <2>1 DEF ApiType, ContextOf, NoSource
<1>5. ~HasFile
  BY <1>2 DEF HasFile, Initialised
<1>6. NoDangling /\ OnlyReopenLeaks
  BY OwnedAtFirst DEF Owned
<1>7. SourceKnown /\ Told /\ Earned /\ Grounded /\ AcceptMeansValid
  BY <1>1, <1>5 DEF SourceKnown, Loaded, Told, Earned, Grounded, AcceptMeansValid
<1>8. QED BY <1>4, <1>6, <1>7 DEF ApiInvariant

\* No call of any function, in any order, breaks it.
LEMMA ApiStep == ApiInvariant /\ [Next]_vars => ApiInvariant'
<1> SUFFICES ASSUME ApiInvariant, [Next]_vars PROVE ApiInvariant'
  OBVIOUS
<1>0. Owned'
  BY InvariantOwned, OwnedStep
<1>1. CASE \E f \in Files : OpenFile(f)
  BY <1>0, <1>1, OpenFileAnswers
<1>2. CASE \E f \in Files : OpenFails(f)
  BY <1>0, <1>2, OpenFailsAnswers
<1>3. CASE Close
  BY <1>0, <1>3, CloseAnswers
<1>4. CASE ParseHeader
  BY <1>0, <1>4, ParseHeaderAnswers
<1>5. CASE ParseHeaderFails
  BY <1>0, <1>5, ParseHeaderFailsAnswers
<1>6. CASE \E stops \in Stops : ParseAssets(stops)
  BY <1>0, <1>6, ParseAssetsAnswers
<1>7. CASE OpenNull \/ CloseNothing \/ \E call \in {"header", "assets", "close"} : Refused(call)
  BY <1>7, NoVerdict DEF OpenNull, CloseNothing, Refused, Returns
<1>8. CASE UNCHANGED vars
  BY <1>8 DEF vars, ApiInvariant, ApiType, NoDangling, OnlyReopenLeaks, SourceKnown, Told,
     Earned, Grounded, AcceptMeansValid, HasFile, Initialised, Current, Loaded
<1>9. QED BY <1>1, <1>2, <1>3, <1>4, <1>5, <1>6, <1>7, <1>8 DEF Next

\* In any order of calls and with any failures, the flags and the last answer
\* stay tied to the file the context holds and to the header last loaded.
THEOREM ApiInductive == Spec => []ApiInvariant
BY ApiInit, ApiStep, PTL DEF Spec

\* Once the header of the open file is loaded, an OK from bun_parse_assets
\* means a valid file and an UNSUPPORTED one that is not malformed, even to a
\* client that ignored what bun_parse_header returned (bun_parse.c 132-161).
THEOREM AcceptedIsValid == Spec => []AcceptMeansValid
<1>1. ApiInvariant => AcceptMeansValid
  BY DEF ApiInvariant
<1>2. QED BY ApiInductive, <1>1, PTL

\* What an obedient client is told follows from the invariant.
LEMMA InvariantObeys == ApiInvariant => ObedientExact
<1> DEFINE f == Current.file
           r == last.result
<1> SUFFICES ASSUME ApiInvariant, HasFile, obeyed, last.call \in {"header", "assets"},
                    r # BUN_ERR_INTERNAL, ~(last.call = "header" /\ r = BUN_ERR_IO)
             PROVE  \/ r = Classify(f)
                    \/ /\ last.call = "header" /\ r = BUN_OK
                       /\ ~HeaderMalformed(f) /\ ~HeaderUnsupported(f)
  BY DEF ObedientExact
<1>1. /\ SourceKnown /\ Told /\ Earned /\ Grounded /\ AcceptMeansValid
  BY DEF ApiInvariant
<1>2. last.call = "assets" => Loaded /\ r # BUN_ERR_IO
  BY <1>1 DEF Grounded
<1>3. r = bun_context_result(ctx)
  BY <1>1, <1>2 DEF Told
<1>4. bun_context_result(ctx) \in {BUN_OK, Classify(f)}
  BY <1>1 DEF Earned
<1>5. CASE r # BUN_OK
  BY <1>3, <1>4, <1>5
<1>6. CASE r = BUN_OK /\ last.call = "assets"
  BY <1>1, <1>2, <1>6 DEF AcceptMeansValid, Loaded
<1>7. CASE r = BUN_OK /\ last.call = "header"
  <2>1. Loaded
    BY <1>1, <1>7 DEF Grounded
  <2>2. ~ctx.saw_malformed /\ ~ctx.saw_unsupported
    BY <1>3, <1>7, ResultIs
  <2>3. QED BY <1>1, <1>7, <2>1, <2>2 DEF SourceKnown
<1>8. QED BY <1>5, <1>6, <1>7

\* A client that goes on to the assets only under a good header is told the
\* class of the file by every call, however often it repeats one and whatever
\* the context held before bun_open (bun_parse.c 51, 120, 164).
THEOREM ObedientClientExact == Spec => []ObedientExact
BY ApiInductive, InvariantObeys, PTL

\* Nothing is taken back from c in d.
Keeps(c, d) ==
  /\ c.saw_malformed => d.saw_malformed
  /\ c.saw_unsupported => d.saw_unsupported
  /\ Len(c.errors) <= Len(d.errors)
  /\ SubSeq(d.errors, 1, Len(c.errors)) = c.errors

\* The list stays within its capacity, whoever calls.
Room(c) == Len(c.errors) <= MAX_ERRORS

\* A context with the same flags and messages keeps them.
LEMMA CopyKeeps ==
  ASSUME NEW S, NEW c \in ContextOf(S), NEW d, d.errors = c.errors,
         d.saw_malformed = c.saw_malformed, d.saw_unsupported = c.saw_unsupported
  PROVE  Keeps(c, d)
<1> DEFINE u == c.errors
<1>1. u \in Seq(Error) /\ Len(u) \in Nat
  BY DEF ContextOf
<1> HIDE DEF u
<1>2. /\ SubSeq(u, 1, Len(u)) \in Seq(Error) /\ Len(SubSeq(u, 1, Len(u))) = Len(u)
      /\ \A k \in 1 .. Len(u) : SubSeq(u, 1, Len(u))[k] = u[k]
  BY <1>1, SubSeqProperties
<1>3. SubSeq(u, 1, Len(u)) = u /\ Len(u) <= Len(u)
  BY <1>1, <1>2, SeqEqual
<1>4. QED BY <1>3 DEF Keeps, u

\* So does add_error, which stays within the capacity too.
LEMMA AddErrorKeepsAny ==
  ASSUME NEW S, NEW c \in ContextOf(S), Room(c), NEW es \in Seq(Error),
         NEW d, d = add_error(c, es)
  PROVE  Keeps(c, d) /\ Room(d)
<1>1. c.errors \in Seq(Error) /\ c.errors \o es \in Seq(Error)
  BY ConcatType DEF ContextOf
<1>2. d.errors = Capped(c.errors \o es)
  BY DEF add_error, ContextOf
<1>3. (c.saw_malformed => d.saw_malformed) /\ (c.saw_unsupported => d.saw_unsupported)
  BY AddErrorAny
<1>4. Len(d.errors) <= MAX_ERRORS
  BY <1>1, <1>2, CappedType
<1>5. QED BY <1>1, <1>2, <1>3, <1>4, CappedKeeps DEF Keeps, Room

\* bun_parse_header takes nothing back,
LEMMA HeaderKeeps ==
  ASSUME NEW S, NEW c \in ContextOf(S), Room(c), NEW f, IsFile(f), c.file_size = f.size
  PROVE  Keeps(c, parse_header(f, c).ctx) /\ Room(parse_header(f, c).ctx)
<1> DEFINE small == c.file_size < BUN_HEADER_SIZE
           l == [c EXCEPT !.header_loaded = ~small]
           es == IF small THEN Check(TRUE, BUN_MALFORMED, "file too small", <<>>)
                 ELSE validate_header_basic(f.header)
                        \o validate_header_offsets(f.header, c.file_size)
<1>1. es \in Seq(Error)
  <2>1. Check(TRUE, BUN_MALFORMED, "file too small", <<>>) \in Seq(Error)
    BY CheckType, PlaceType DEF Complaint
  <2>2. validate_header_basic(f.header)
          \o validate_header_offsets(f.header, f.size) \in Seq(Error)
    BY HeaderBasicType, HeaderOffsetsType, ConcatType DEF IsFile
  <2>3. QED BY <2>1, <2>2
<1>2. /\ l \in ContextOf(S) /\ l.errors = c.errors
      /\ l.saw_malformed = c.saw_malformed /\ l.saw_unsupported = c.saw_unsupported
  BY DEF ContextOf
<1>3. parse_header(f, c).ctx = add_error(l, es)
  BY DEF parse_header
<1> HIDE DEF l, es
<1>4. Room(l)
  BY <1>2 DEF Room
<1>5. Keeps(l, add_error(l, es)) /\ Room(add_error(l, es))
  BY <1>1, <1>2, <1>4, AddErrorKeepsAny
<1>6. QED BY <1>2, <1>3, <1>5 DEF Keeps

\* and neither does bun_parse_assets.
LEMMA AssetsKeep ==
  ASSUME NEW S, NEW c \in ContextOf(S), Room(c), NEW f, IsFile(f), NEW h \in BunHeader,
         NEW stops, IsStops(stops)
  PROVE  Keeps(c, parse_assets(f, h, c, stops).ctx) /\ Room(parse_assets(f, h, c, stops).ctx)
<1> DEFINE t == AssetLoop(f, h, stops)
<1>1. IsOutcome(t)
  BY LoopType
<1>2. parse_assets(f, h, c, stops).ctx = add_error(c, t.es)
  BY DEF parse_assets
<1> HIDE DEF t
<1>3. t.es \in Seq(Error)
  BY <1>1 DEF IsOutcome
<1>4. QED BY <1>2, <1>3, AddErrorKeepsAny

\* A verdict is the one the flags give.
LEMMA VerdictIsTold ==
  \A r \in {BUN_OK, BUN_MALFORMED, BUN_UNSUPPORTED} :
    Told /\ Verdict(r) => bun_context_result(ctx) = r
BY CodesApart DEF Told, Verdict

\* A call other than a bun_open that runs keeps what the context held.
LEMMA CallsKeep ==
  ASSUME ApiInvariant, Room(ctx), [Next]_vars
  PROVE  Reopened' \/ (Keeps(ctx, ctx') /\ Room(ctx'))
<1> DEFINE S == {Wild, NULL} \cup DOMAIN streams
<1>0. ctx \in ContextOf(S)
  BY DEF ApiInvariant, ApiType, ContextOf
<1>1. CASE ParseHeader
  <2>1. HasFile /\ ApiType /\ SourceKnown /\ ctx' = parse_header(Current.file, ctx).ctx
    BY <1>1 DEF ParseHeader, ApiInvariant
  <2>2. IsFile(Current.file) /\ ctx.file_size = Current.file.size
    BY <2>1, CurrentFile DEF SourceKnown
  <2> HIDE DEF S
  <2>3. QED BY <1>0, <2>1, <2>2, HeaderKeeps
<1>2. CASE \E stops \in Stops : ParseAssets(stops)
  <2>1. PICK stops \in Stops : ParseAssets(stops)
    BY <1>2
  <2>2. HasFile /\ ApiType /\ ctx' = parse_assets(Current.file, header, ctx, stops).ctx
    BY <2>1 DEF ParseAssets, ApiInvariant
  <2>3. IsFile(Current.file) /\ header \in BunHeader /\ IsStops(stops)
    BY <2>2, CurrentFile, ApiFacts
  <2> HIDE DEF S
  <2>4. QED BY <1>0, <2>2, <2>3, AssetsKeep
<1>3. CASE UNCHANGED <<ctx.errors, ctx.saw_malformed, ctx.saw_unsupported>>
  <2> HIDE DEF S
  <2>1. QED BY <1>0, <1>3, CopyKeeps DEF Room
<1>4. CASE ParseHeaderFails \/ Close
  <2>1. ctx' = [ctx EXCEPT !.header_loaded = FALSE] \/ ctx' = [ctx EXCEPT !.file = NULL]
    BY <1>4 DEF ParseHeaderFails, Close
  <2>2. UNCHANGED <<ctx.errors, ctx.saw_malformed, ctx.saw_unsupported>>
    BY <1>0, <2>1 DEF ContextOf
  <2>3. QED BY <1>3, <2>2
<1>5. CASE \E f \in Files : OpenFile(f) \/ OpenFails(f)
  <2>1. \E r \in {BUN_OK, BUN_ERR_IO} : last' = [call |-> "open", result |-> r]
    BY <1>5 DEF OpenFile, OpenFails, Returns
  <2>2. QED BY <2>1, CodesApart DEF Reopened
<1>6. CASE \/ OpenNull \/ CloseNothing \/ UNCHANGED vars
           \/ \E call \in {"header", "assets", "close"} : Refused(call)
  <2>1. ctx' = ctx
    BY <1>6 DEF OpenNull, CloseNothing, Refused, vars
  <2>2. QED BY <1>3, <2>1
<1>7. QED BY <1>1, <1>2, <1>4, <1>5, <1>6 DEF Next

\* The list never outgrows its array in any order of calls.
LEMMA RoomAlways == Spec => []Room(ctx)
<1>1. Init => Room(ctx)
  <2>1. SUFFICES ASSUME Init PROVE Room(ctx)
    OBVIOUS
  <2>2. ctx.errors = <<>>
    BY <2>1 DEF Init, ZeroContext
  <2>3. QED BY <2>2, WidthAssumption, EmptySeq DEF Room
<1>2. ApiInvariant /\ Room(ctx) /\ [Next]_vars => Room(ctx)'
  <2>1. SUFFICES ASSUME ApiInvariant, Room(ctx), [Next]_vars PROVE Room(ctx)'
    OBVIOUS
  <2>2. CASE Keeps(ctx, ctx') /\ Room(ctx')
    BY <2>2
  <2>3. CASE \E f \in Files : OpenFile(f) \/ OpenFails(f)
    <3>1. ctx'.errors = <<>>
      BY <2>3 DEF OpenFile, OpenFails, ZeroContext
    <3>2. QED BY <3>1, WidthAssumption, EmptySeq DEF Room
  <2>4. Reopened' => (\E f \in Files : OpenFile(f) \/ OpenFails(f)) \/ UNCHANGED ctx
    <3>1. /\ ParseHeader => last'.call = "header"
          /\ ParseHeaderFails => last'.call = "header"
          /\ Close \/ CloseNothing => last'.call = "close"
      BY DEF ParseHeader, ParseHeaderFails, Close, CloseNothing, Returns
    <3>2. \A stops \in Stops : ParseAssets(stops) => last'.call = "assets"
      BY DEF ParseAssets, Returns
    <3>3. OpenNull \/ UNCHANGED vars
          \/ (\E call \in {"header", "assets", "close"} : Refused(call)) => UNCHANGED ctx
      BY DEF OpenNull, Refused, vars
    <3>4. Reopened' => last'.call = "open"
      BY DEF Reopened
    <3>5. QED BY <2>1, <3>1, <3>2, <3>3, <3>4 DEF Next
  <2>5. CASE UNCHANGED ctx
    BY <2>1, <2>5
  <2>6. QED BY <2>1, <2>2, <2>3, <2>4, <2>5, CallsKeep
<1>3. QED BY ApiInductive, <1>1, <1>2, PTL DEF Spec

\* No order of calls improves a verdict: flags and messages outlive the calls
\* that set them until bun_open runs again, and every verdict returned agrees
\* with the flags (bun_parse.c 51, 120, 164; bun_utils.c).
THEOREM VerdictsOnlyWorsen == Spec => NeverBetter
<1> DEFINE step ==
      Reopened' \/
      /\ ctx.saw_malformed => ctx'.saw_malformed
      /\ ctx.saw_unsupported => ctx'.saw_unsupported
      /\ Len(ctx.errors) <= Len(ctx'.errors)
      /\ SubSeq(ctx'.errors, 1, Len(ctx.errors)) = ctx.errors
      /\ Verdict(BUN_MALFORMED)' => ctx'.saw_malformed
      /\ Verdict(BUN_UNSUPPORTED)' => ~ctx'.saw_malformed /\ ctx'.saw_unsupported
      /\ Verdict(BUN_OK)' => ~ctx'.saw_malformed /\ ~ctx'.saw_unsupported
<1>1. (\A r \in {BUN_OK, BUN_MALFORMED, BUN_UNSUPPORTED} :
         Told /\ Verdict(r) => bun_context_result(ctx) = r)'
  BY VerdictIsTold, PTL
<1>2. ApiInvariant /\ ApiInvariant' /\ Room(ctx) /\ [Next]_vars => [step]_vars
  <2>1. SUFFICES ASSUME ApiInvariant, ApiInvariant', Room(ctx), [Next]_vars, ~Reopened'
                 PROVE  step
    OBVIOUS
  <2>2. Keeps(ctx, ctx')
    BY <2>1, CallsKeep
  <2>3. Told'
    BY <2>1 DEF ApiInvariant
  <2>4. \A r \in {BUN_OK, BUN_MALFORMED, BUN_UNSUPPORTED} :
          Verdict(r)' => bun_context_result(ctx') = r
    BY <1>1, <2>3
  <2>5. /\ Verdict(BUN_MALFORMED)' => ctx'.saw_malformed
        /\ Verdict(BUN_UNSUPPORTED)' => ~ctx'.saw_malformed /\ ctx'.saw_unsupported
        /\ Verdict(BUN_OK)' => ~ctx'.saw_malformed /\ ~ctx'.saw_unsupported
    BY <2>4, ResultIs
  <2>6. QED BY <2>2, <2>5 DEF Keeps
<1>3. QED BY ApiInductive, ApiStep, RoomAlways, <1>2, PTL DEF NeverBetter, Spec

=============================================================================
