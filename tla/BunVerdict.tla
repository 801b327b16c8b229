----------------------------- MODULE BunVerdict -----------------------------
(* What a run of bun_parser promises its caller: one verdict, and which     *)
(* verdicts are possible. Nothing of how the file is read. BunParse          *)
(* implements this specification.                                           *)
EXTENDS BunFormat

CONSTANTS
  ArgCounts,  \* numbers of command-line arguments, the program's name included
  Files       \* the files the parser may be given

VARIABLES
  args,       \* argc
  file,       \* the file at the path
  faulty,     \* some stdio call has failed
  verdict     \* the exit code, NoVerdict while running

aVars == <<args, file, faulty, verdict>>

NoVerdict == -1

\* Without a stdio failure the exit code is exactly the file's class. With
\* one, the run may give up (BUN_ERR_IO) or take the unreadable bytes for a
\* malformed file, but it never accepts, or calls merely unsupported, a file
\* that is not.
Allowed(f, bad) ==
  {Classify(f)} \cup (IF bad THEN {BUN_ERR_IO, BUN_MALFORMED} ELSE {})

AInit ==
  /\ args \in ArgCounts
  /\ file \in Files
  /\ faulty = FALSE
  /\ verdict = NoVerdict

Misuse ==
  /\ verdict = NoVerdict /\ args # 2
  /\ verdict' = BUN_ERR_USAGE
  /\ UNCHANGED <<args, file, faulty>>

\* A stdio call fails; the run may end at once because of it.
Fail ==
  /\ verdict = NoVerdict /\ args = 2
  /\ faulty' = TRUE
  /\ verdict' \in {NoVerdict} \cup Allowed(file, TRUE)
  /\ UNCHANGED <<args, file>>

Decide ==
  /\ verdict = NoVerdict /\ args = 2
  /\ verdict' \in Allowed(file, faulty)
  /\ UNCHANGED <<args, file, faulty>>

ANext == Misuse \/ Fail \/ Decide

\* What a run may answer; ASpec adds that it does answer.
ASafe == AInit /\ [][ANext]_aVars
ASpec == ASafe /\ WF_aVars(Misuse \/ Decide)

=============================================================================
