------------------------------- MODULE BunRle -------------------------------
(* The chunk loop of validate_compression (bun_validate.c 230-277), one      *)
(* fread and one pair at a time. BunValidate uses its outcome, RleVerdict,   *)
(* as a single step; OneStep below is what makes that right.                 *)
EXTENDS BunValidate

CONSTANTS
  Payloads,       \* files: the payload is at position 0
  Sizes,          \* values of rec->data_size; odd ones have been refused before
  DeclaredSizes   \* values of rec->uncompressed_size

ASSUME RleAssumption ==
  /\ \A f \in Payloads : IsFile(f)
  /\ \A n \in Sizes : n \in u64 /\ n % 2 = 0
  /\ DeclaredSizes \subseteq u64

VARIABLES
  file, data_size, uncompressed_size,
  left,         \* bytes the stream will deliver before it comes up short
  phase,        \* "while", "for" or "done"
  remaining, bytes_read, i, global_pos, expanded,
  taken,        \* bytes taken from the stream
  verdict       \* what the function has concluded, and the byte it names

vars == <<file, data_size, uncompressed_size, left, phase, remaining,
          bytes_read, i, global_pos, expanded, taken, verdict>>

Pending == [what |-> "pending", pos |-> 0]

Init ==
  /\ file \in Payloads
  /\ data_size \in Sizes
  /\ left \in Deliverable(file, 0, data_size, TRUE)
  /\ uncompressed_size \in DeclaredSizes
  /\ phase = "while"
  /\ remaining = data_size
  /\ bytes_read = 0 /\ i = 0 /\ global_pos = 0 /\ expanded = 0 /\ taken = 0
  /\ verdict = Pending

Conclude(what, pos) ==
  /\ verdict' = [what |-> what, pos |-> pos]
  /\ phase' = "done"

Input == <<file, data_size, uncompressed_size, left>>

\* Mutant: one byte of the buffer is kept back, so that a chunk is odd.
ReadChunkOdd ==
  LET to_read == AtMost(BUFFER_SIZE - 1, remaining) IN
  /\ phase = "while" /\ remaining > 0
  /\ bytes_read' = AtMost(to_read, left - taken)
  /\ taken' = taken + bytes_read'
  /\ i' = 0
  /\ IF bytes_read' # to_read
       THEN Conclude("rle read failed", global_pos)
       ELSE phase' = "for" /\ UNCHANGED verdict
  /\ UNCHANGED <<remaining, global_pos, expanded, Input>>

\* Mutant: a short read is not noticed.
ReadChunkTrusting ==
  /\ phase = "while" /\ remaining > 0
  /\ bytes_read' = AtMost(AtMost(BUFFER_SIZE, remaining), left - taken)
  /\ taken' = taken + bytes_read'
  /\ i' = 0 /\ phase' = "for"
  /\ UNCHANGED <<remaining, global_pos, expanded, verdict, Input>>

\* The while condition, to_read and the fread.
ReadChunk ==
  LET to_read == AtMost(BUFFER_SIZE, remaining) IN
  /\ phase = "while" /\ remaining > 0
  /\ bytes_read' = AtMost(to_read, left - taken)
  /\ taken' = taken + bytes_read'
  /\ i' = 0
  /\ IF bytes_read' # to_read
       THEN Conclude("rle read failed", global_pos)
       ELSE phase' = "for" /\ UNCHANGED verdict
  /\ UNCHANGED <<remaining, global_pos, expanded, Input>>

\* Mutant: a zero count is reported at its place in the chunk.
TakePairLocal ==
  LET count == ByteAt(file, global_pos + i)
      sum == bun_u64_add(expanded, count)
  IN  /\ phase = "for" /\ i < bytes_read
      /\ \/ /\ count = 0
            /\ Conclude("rle zero count", i)
            /\ UNCHANGED <<i, expanded>>
         \/ /\ count # 0 /\ ~sum.ok
            /\ Conclude("rle expanded overflow", i)
            /\ expanded' = sum.out /\ UNCHANGED i
         \/ /\ count # 0 /\ sum.ok
            /\ expanded' = sum.out /\ i' = i + 2
            /\ UNCHANGED <<phase, verdict>>
      /\ UNCHANGED <<remaining, bytes_read, global_pos, taken, Input>>

\* One pair of the buffer, which holds the file's bytes from global_pos on.
TakePair ==
  LET count == ByteAt(file, global_pos + i)
      sum == bun_u64_add(expanded, count)
  IN  /\ phase = "for" /\ i < bytes_read
      /\ \/ /\ count = 0
            /\ Conclude("rle zero count", global_pos + i)
            /\ UNCHANGED <<i, expanded>>
         \/ /\ count # 0 /\ ~sum.ok
            /\ Conclude("rle expanded overflow", global_pos + i)
            /\ expanded' = sum.out /\ UNCHANGED i
         \/ /\ count # 0 /\ sum.ok
            /\ expanded' = sum.out /\ i' = i + 2
            /\ UNCHANGED <<phase, verdict>>
      /\ UNCHANGED <<remaining, bytes_read, global_pos, taken, Input>>

\* Mutant: each chunk is summed on its own.
ChunkDoneRestarts ==
  /\ phase = "for" /\ i >= bytes_read
  /\ global_pos' = global_pos + bytes_read
  /\ remaining' = remaining - bytes_read
  /\ expanded' = 0
  /\ phase' = "while"
  /\ UNCHANGED <<bytes_read, i, taken, verdict, Input>>

ChunkDone ==
  /\ phase = "for" /\ i >= bytes_read
  /\ global_pos' = global_pos + bytes_read
  /\ remaining' = remaining - bytes_read
  /\ phase' = "while"
  /\ UNCHANGED <<bytes_read, i, expanded, taken, verdict, Input>>

\* Mutant: only an expansion that is too short is refused.
CompareSizeShort ==
  /\ phase = "while" /\ remaining = 0
  /\ Conclude(IF expanded < uncompressed_size THEN "rle size" ELSE "ok", data_size)
  /\ UNCHANGED <<remaining, bytes_read, i, global_pos, expanded, taken, Input>>

CompareSize ==
  /\ phase = "while" /\ remaining = 0
  /\ Conclude(IF expanded # uncompressed_size THEN "rle size" ELSE "ok", data_size)
  /\ UNCHANGED <<remaining, bytes_read, i, global_pos, expanded, taken, Input>>

Loop == ReadChunk \/ TakePair \/ ChunkDone \/ CompareSize
Returned == phase = "done" /\ UNCHANGED vars
Next == Loop \/ Returned

Spec == Init /\ [][Next]_vars /\ WF_vars(Loop)

-----------------------------------------------------------------------------
\* Every variable has its C type; expanded stays a u64 without wrapping.
TypeOK ==
  /\ IsFile(file) /\ data_size \in Sizes /\ uncompressed_size \in DeclaredSizes
  /\ left \in 0 .. data_size
  /\ phase \in {"while", "for", "done"}
  /\ remaining \in Nat /\ bytes_read \in 0 .. BUFFER_SIZE /\ i \in Nat
  /\ global_pos \in Nat /\ taken \in Nat
  /\ expanded \in u64
  /\ verdict \in [what : {"pending", "ok", "rle read failed", "rle zero count",
                          "rle expanded overflow", "rle size"}, pos : Nat]

\* No pair straddles two chunks: buffer[i + 1] is a byte of this fread, never
\* a leftover of the one before or an uninitialised byte.
PairInBuffer == phase = "for" /\ i < bytes_read => i + 1 < bytes_read

\* What is behind, in the buffer and ahead make up the payload, and the stream
\* is where that says.
Balance ==
  /\ global_pos + remaining = data_size
  /\ phase = "while" => taken = global_pos
  /\ phase = "for" => taken = global_pos + bytes_read /\ i <= bytes_read
                      /\ bytes_read <= remaining

\* Bytes of the payload whose pairs have been counted.
Counted == IF phase = "for" THEN global_pos + i ELSE global_pos

\* No pair so far has stopped the loop, and expanded is what they add up to.
Summed ==
  phase # "done" =>
    /\ verdict = Pending
    /\ \A p \in 0 .. (Counted \div 2) - 1 : ByteAt(file, 2 * p) # 0
    /\ expanded = Counts(file, 0, Counted \div 2)

\* The loop's book-keeping over the chunks: every byte of the payload is behind,
\* in the buffer or ahead, and while the loop runs expanded is the sum of all
\* the counts behind, in this chunk and the ones before, none of which was 0.
Accounting == Balance /\ Summed

\* The loop returns what RleVerdict says in one step, and leaves the stream
\* where RleConsumed says, for every chunking.
OneStep ==
  phase = "done" =>
    /\ verdict = RleVerdict(file, 0, data_size, left, uncompressed_size)
    /\ taken = RleConsumed(file, 0, data_size, left, uncompressed_size)

\* A zero count is reported at the first pair that has one, counted from the
\* start of the payload and not of the chunk.
FirstZero ==
  verdict.what = "rle zero count" =>
    /\ verdict.pos % 2 = 0 /\ verdict.pos < data_size
    /\ ByteAt(file, verdict.pos) = 0
    /\ \A p \in 0 .. verdict.pos - 1 : p % 2 = 0 => ByteAt(file, p) # 0

\* The chunks so far are whole and the pairs in them aligned.
Chunked ==
  phase # "done" =>
    /\ taken <= left
    /\ global_pos % 2 = 0
    /\ remaining > 0 => global_pos % BUFFER_SIZE = 0
    /\ phase = "for" => /\ remaining > 0 /\ i % 2 = 0
                        /\ bytes_read = AtMost(BUFFER_SIZE, remaining)

\* What holds at every point of the loop and makes it return RleVerdict: the
\* inductive invariant behind the properties above.
RleInvariant ==
  TypeOK /\ Accounting /\ Chunked /\ OneStep /\ FirstZero

\* The loop ends for every data_size, however large.
Termination == <>(phase = "done")

=============================================================================
