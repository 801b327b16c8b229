--------------------------- MODULE BunRle_proofs ---------------------------
(* The chunk loop of validate_compression computes RleVerdict, for payloads  *)
(* and buffers of any size and a stream that ends anywhere.                  *)
EXTENDS BunRle, BunValidate_proofs

-----------------------------------------------------------------------------
(* Arithmetic of chunks and pairs.                                          *)

\* A place j bytes into the chunk at g lies in that chunk.
LEMMA ChunkOf ==
  ASSUME NEW g \in Nat, g % BUFFER_SIZE = 0, NEW j \in 0 .. BUFFER_SIZE - 1
  PROVE  /\ (g + j) % BUFFER_SIZE = j
         /\ ((g + j) \div BUFFER_SIZE + 1) * BUFFER_SIZE = g + BUFFER_SIZE
BY BufferAssumption

\* The next chunk begins where this one ends.
LEMMA NextChunk ==
  ASSUME NEW g \in Nat, g % BUFFER_SIZE = 0
  PROVE  (g + BUFFER_SIZE) % BUFFER_SIZE = 0
<1> DEFINE c == g \div BUFFER_SIZE
<1>1. c \in Nat /\ g = BUFFER_SIZE * c
  BY BufferAssumption
<1> HIDE DEF c
<1>2. g + BUFFER_SIZE = BUFFER_SIZE * (c + 1)
  BY <1>1, BufferAssumption
<1>3. \A d \in Nat : (BUFFER_SIZE * d) % BUFFER_SIZE = 0
  BY BufferAssumption
<1>4. QED BY <1>1, <1>2, <1>3

\* FirstOf is the member that no other is below.
LEMMA FirstIs ==
  ASSUME NEW S \in SUBSET Nat, NEW p \in S, \A q \in S : p <= q
  PROVE  FirstOf(S) = p
<1>1. FirstOf(S) \in S /\ \A q \in S : FirstOf(S) <= q
  BY DEF FirstOf
<1>2. p <= FirstOf(S) /\ FirstOf(S) <= p /\ FirstOf(S) \in Nat /\ p \in Nat
  BY <1>1
<1> HIDE DEF FirstOf
<1>3. QED BY <1>2, SMT

\* The first pair that stops the loop is the one with nothing before it that
\* would.
LEMMA StopsAt ==
  ASSUME NEW f, IsFile(f), NEW read \in Nat, NEW q \in Nat, q < read \div 2,
         \A p \in 0 .. q - 1 : ByteAt(f, 2 * p) # 0,
         Counts(f, 0, q) <= UINT64_MAX,
         ByteAt(f, 2 * q) = 0 \/ Counts(f, 0, q + 1) > UINT64_MAX
  PROVE  StoppingPairs(f, 0, read) # {} /\ FirstOf(StoppingPairs(f, 0, read)) = q
<1> DEFINE stops == StoppingPairs(f, 0, read)
<1>1. stops \in SUBSET Nat
  BY DEF StoppingPairs
<1>2. q \in stops
  <2>1. 0 + 2 * q = 2 * q /\ q \in 0 .. (read \div 2) - 1
    OBVIOUS
  <2>2. QED BY <2>1 DEF StoppingPairs
<1>3. \A p \in stops : q <= p
  <2>1. SUFFICES ASSUME NEW p \in stops, p < q PROVE FALSE
    BY <1>1
  <2>2. p \in 0 .. q - 1 /\ 0 + 2 * p = 2 * p /\ p + 1 \in Nat /\ p + 1 <= q
    BY <1>1, <2>1
  <2>3. ByteAt(f, 0 + 2 * p) = 0 \/ Counts(f, 0, p + 1) > UINT64_MAX
    BY DEF StoppingPairs
  <2>4. Counts(f, 0, p + 1) <= Counts(f, 0, q)
    BY <2>2, CountsMonotone
  <2>5. Counts(f, 0, p + 1) \in Nat /\ Counts(f, 0, q) \in Nat
    BY <2>2, CountsSteps
  <2> HIDE DEF stops
  <2>6. QED BY <2>2, <2>3, <2>4, <2>5, WidthAssumption
<1> HIDE DEF stops
<1>4. FirstOf(stops) = q
  BY <1>1, <1>2, <1>3, FirstIs
<1>5. QED BY <1>2, <1>4 DEF stops

\* No pair stops the loop when none has count zero and the sum fits.
LEMMA NoStops ==
  ASSUME NEW f, IsFile(f), NEW read \in Nat,
         \A p \in 0 .. (read \div 2) - 1 : ByteAt(f, 2 * p) # 0,
         Counts(f, 0, read \div 2) <= UINT64_MAX
  PROVE  StoppingPairs(f, 0, read) = {}
<1>1. SUFFICES ASSUME NEW p \in 0 .. (read \div 2) - 1,
                      ByteAt(f, 0 + 2 * p) = 0 \/ Counts(f, 0, p + 1) > UINT64_MAX
               PROVE  FALSE
  BY DEF StoppingPairs
<1>2. p \in Nat /\ 0 + 2 * p = 2 * p /\ p + 1 \in Nat /\ p + 1 <= read \div 2
      /\ read \div 2 \in Nat
  OBVIOUS
<1>3. Counts(f, 0, p + 1) <= Counts(f, 0, read \div 2)
  BY <1>2, CountsMonotone
<1>4. Counts(f, 0, p + 1) \in Nat /\ Counts(f, 0, read \div 2) \in Nat
  BY <1>2, CountsSteps
<1>5. QED BY <1>1, <1>2, <1>3, <1>4, WidthAssumption

\* Then a read that came up short gives the verdict.
LEMMA VerdictShort ==
  ASSUME NEW f, NEW n \in Nat, NEW left_ \in Nat, NEW declared,
         NEW read \in Nat, WholeChunks(n, left_) = read, read < n,
         StoppingPairs(f, 0, read) = {}
  PROVE  RleVerdict(f, 0, n, left_, declared) =
           [what |-> "rle read failed", pos |-> read]
BY DEF RleVerdict

\* What has been taken from the stream when a read came up short: all there
\* was.
LEMMA ConsumedShort ==
  ASSUME NEW f, NEW n \in Nat, NEW left_ \in Nat, NEW declared
  PROVE  RleVerdict(f, 0, n, left_, declared).what = "rle read failed" =>
           RleConsumed(f, 0, n, left_, declared) = left_
<1> DEFINE v == RleVerdict(f, 0, n, left_, declared)
           end == (v.pos \div BUFFER_SIZE + 1) * BUFFER_SIZE
<1>1. RleConsumed(f, 0, n, left_, declared) =
        CASE v.what \in {"rle zero count", "rle expanded overflow"} ->
               IF end <= n THEN end ELSE n
          [] v.what = "rle read failed" -> left_
          [] OTHER -> n
  BY DEF RleConsumed
<1> HIDE DEF end, v
<1>2. v.what = "rle read failed" => RleConsumed(f, 0, n, left_, declared) = left_
  BY <1>1
<1>3. QED BY <1>2 DEF v

-----------------------------------------------------------------------------
(* Every action keeps the invariant.                                        *)

\* What TypeOK and the assumptions say of the integers.
LEMMA RleTypes ==
  ASSUME TypeOK
  PROVE  /\ IsFile(file) /\ data_size \in Nat /\ data_size % 2 = 0
         /\ uncompressed_size \in Nat /\ left \in Nat /\ left <= data_size
         /\ remaining \in Nat /\ bytes_read \in Nat /\ i \in Nat
         /\ global_pos \in Nat /\ taken \in Nat /\ expanded \in Nat
         /\ expanded <= UINT64_MAX
         /\ BUFFER_SIZE \in Nat /\ BUFFER_SIZE > 0 /\ BUFFER_SIZE % 2 = 0
<1>1. data_size \in u64 /\ data_size % 2 = 0
  BY RleAssumption DEF TypeOK
<1>2. uncompressed_size \in u64
  BY RleAssumption DEF TypeOK
<1>3. data_size \in Nat /\ uncompressed_size \in Nat
  BY <1>1, <1>2, WidthAssumption DEF u64
<1>4. expanded \in u64 /\ bytes_read \in 0 .. BUFFER_SIZE /\ left \in 0 .. data_size
  BY Zenon DEF TypeOK
<1>5. expanded \in Nat /\ expanded <= UINT64_MAX
  BY <1>4, WidthAssumption DEF u64
<1>6. bytes_read \in Nat /\ left \in Nat /\ left <= data_size
  BY <1>3, <1>4, BufferAssumption
<1>7. IsFile(file) /\ remaining \in Nat /\ i \in Nat /\ global_pos \in Nat /\ taken \in Nat
  BY DEF TypeOK
<1>8. QED BY <1>1, <1>3, <1>4, <1>5, <1>6, <1>7, BufferAssumption

\* The loop starts with nothing read and nothing counted.
LEMMA RleInit == Init => RleInvariant
<1> SUFFICES ASSUME Init PROVE RleInvariant
  OBVIOUS
<1>1. IsFile(file) /\ data_size \in u64 /\ data_size % 2 = 0 /\ file.size \in Nat
  BY RleAssumption, WidthAssumption DEF Init, IsFile, offset_t
<1>2. left \in 0 .. data_size
  <2>1. data_size \in Nat /\ Available(file, 0) \in Nat
    BY <1>1, WidthAssumption DEF u64, Available
  <2>2. \A a, b \in Nat : AtMost(a, b) \in Nat /\ AtMost(a, b) <= a
    BY DEF AtMost
  <2>3. left \in 0 .. AtMost(data_size, Available(file, 0))
    BY DEF Init, Deliverable
  <2>4. QED BY <2>1, <2>2, <2>3
<1>3. TypeOK
  <2>1. 0 \in u64 /\ 0 \in 0 .. BUFFER_SIZE /\ data_size \in Nat
    BY <1>1, WidthAssumption, BufferAssumption DEF u64
  <2>2. QED BY <1>1, <1>2, <2>1 DEF Init, TypeOK, Pending
<1>4. Balance
  BY <1>1, WidthAssumption DEF Init, Balance, u64
<1>5. Chunked
  <2>1. 0 % BUFFER_SIZE = 0 /\ 0 % 2 = 0
    BY BufferAssumption
  <2>2. QED BY <1>2, <2>1 DEF Init, Chunked
<1>6. Summed
  <2>1. Counts(file, 0, 0) = 0
    BY <1>1, CountsSteps
  <2>2. Counted = 0 /\ 0 \div 2 = 0
    BY DEF Init, Counted
  <2>3. QED BY <2>1, <2>2 DEF Init, Summed
<1>7. OneStep /\ FirstZero
  BY DEF Init, OneStep, FirstZero, Pending
<1>8. QED BY <1>3, <1>4, <1>5, <1>6, <1>7 DEF RleInvariant, Accounting

\* What a read of the chunk can find: all of it, or less and then the stream
\* ends inside the chunk.
LEMMA ChunkRead ==
  ASSUME RleInvariant, phase = "while", remaining > 0,
         NEW got, got = AtMost(AtMost(BUFFER_SIZE, remaining), left - taken)
  PROVE  /\ taken = global_pos /\ global_pos + remaining = data_size
         /\ got \in 0 .. BUFFER_SIZE /\ got <= remaining /\ taken + got <= left
         /\ got # AtMost(BUFFER_SIZE, remaining) =>
              got = left - taken /\ got < BUFFER_SIZE /\ got < remaining
<1>1. /\ taken = global_pos /\ global_pos + remaining = data_size /\ taken <= left
  BY DEF RleInvariant, Accounting, Balance, Chunked
<1>2. TypeOK
  BY DEF RleInvariant, Accounting
<1>3. QED BY <1>1, <1>2, RleTypes DEF AtMost

\* fread of a chunk: a short one ends the check where RleVerdict says.
LEMMA ReadChunkStep ==
  ASSUME RleInvariant, ReadChunk
  PROVE  RleInvariant'
<1> DEFINE to_read == AtMost(BUFFER_SIZE, remaining)
<1>1. /\ TypeOK /\ phase = "while" /\ remaining > 0
      /\ bytes_read' = AtMost(to_read, left - taken)
      /\ taken' = taken + bytes_read' /\ i' = 0
      /\ UNCHANGED <<remaining, global_pos, expanded>> /\ UNCHANGED Input
  BY DEF RleInvariant, Accounting, ReadChunk
<1>2. UNCHANGED <<file, data_size, uncompressed_size, left>>
  BY <1>1 DEF Input
<1>3. /\ taken = global_pos /\ global_pos + remaining = data_size
      /\ bytes_read' \in 0 .. BUFFER_SIZE /\ bytes_read' <= remaining
      /\ taken' <= left
      /\ bytes_read' # to_read =>
           bytes_read' = left - taken /\ bytes_read' < BUFFER_SIZE /\ bytes_read' < remaining
  BY <1>1, ChunkRead
<1>4. /\ IsFile(file) /\ data_size \in Nat /\ left \in Nat /\ remaining \in Nat
      /\ global_pos \in Nat /\ taken \in Nat /\ bytes_read' \in Nat
      /\ data_size % 2 = 0 /\ expanded <= UINT64_MAX /\ BUFFER_SIZE \in Nat
  BY <1>1, <1>3, RleTypes
<1>5. /\ global_pos % 2 = 0 /\ global_pos % BUFFER_SIZE = 0 /\ verdict = Pending
      /\ \A p \in 0 .. (global_pos \div 2) - 1 : ByteAt(file, 2 * p) # 0
      /\ expanded = Counts(file, 0, global_pos \div 2)
  BY <1>1 DEF RleInvariant, Accounting, Chunked, Summed, Counted
<1>6. CASE bytes_read' = to_read
  <2>1. phase' = "for" /\ verdict' = verdict
    BY <1>6 DEF ReadChunk
  <2>2. TypeOK'
    <3>1. taken' \in Nat /\ i' \in Nat
      BY <1>1, <1>4
    <3>2. QED BY <1>1, <1>2, <1>3, <2>1, <3>1 DEF TypeOK
  <2>3. Balance'
    BY <1>1, <1>2, <1>3, <1>4, <2>1 DEF Balance
  <2>4. Chunked'
    BY <1>1, <1>2, <1>3, <1>5, <1>6, <2>1 DEF Chunked
  <2>5. Summed'
    <3>1. Counted' = global_pos
      BY <1>1, <1>4, <2>1 DEF Counted
    <3>2. QED BY <1>1, <1>2, <1>5, <2>1, <3>1 DEF Summed, Pending
  <2>6. OneStep' /\ FirstZero'
    BY <1>5, <2>1 DEF OneStep, FirstZero, Pending
  <2>7. QED BY <2>2, <2>3, <2>4, <2>5, <2>6 DEF RleInvariant, Accounting
<1>7. CASE bytes_read' # to_read
  <2>1. phase' = "done" /\ verdict' = [what |-> "rle read failed", pos |-> global_pos]
    BY <1>7 DEF ReadChunk, Conclude
  <2>2. TypeOK'
    <3>1. taken' \in Nat /\ i' \in Nat
      BY <1>1, <1>4
    <3>2. verdict' \in [what : {"pending", "ok", "rle read failed", "rle zero count",
                               "rle expanded overflow", "rle size"}, pos : Nat]
      BY <1>4, <2>1
    <3>3. QED BY <1>1, <1>2, <1>3, <2>1, <3>1, <3>2 DEF TypeOK
  <2>3. Balance' /\ Chunked' /\ Summed' /\ FirstZero'
    BY <1>1, <1>2, <1>3, <1>4, <2>1 DEF Balance, Chunked, Summed, FirstZero
  <2>4. WholeChunks(data_size, left) = global_pos
    <3>1. /\ bytes_read' \in 0 .. BUFFER_SIZE - 1 /\ left = global_pos + bytes_read'
          /\ ~(data_size <= left)
      BY <1>3, <1>4, <1>7
    <3>2. left % BUFFER_SIZE = bytes_read'
      BY <1>4, <1>5, <3>1, ChunkOf
    <3>3. WholeChunks(data_size, left) = left - bytes_read'
      BY <3>1, <3>2 DEF WholeChunks
    <3>4. QED BY <1>4, <3>1, <3>3
  <2> DEFINE v == RleVerdict(file, 0, data_size, left, uncompressed_size)
  <2>v. v = RleVerdict(file, 0, data_size, left, uncompressed_size)
    OBVIOUS
  <2> HIDE DEF v
  <2>5. v = [what |-> "rle read failed", pos |-> global_pos]
    <3>1. global_pos < data_size
      BY <1>1, <1>3, <1>4
    <3>2. Counts(file, 0, global_pos \div 2) <= UINT64_MAX
      BY <1>4, <1>5
    <3>3. StoppingPairs(file, 0, global_pos) = {}
      BY <1>4, <1>5, <3>2, NoStops
    <3>4. QED BY <1>4, <2>4, <2>v, <3>1, <3>3, VerdictShort
  <2>6. RleConsumed(file, 0, data_size, left, uncompressed_size) = left
    <3>1. v.what = "rle read failed"
      BY <2>5
    <3>2. QED BY <1>4, <2>v, <3>1, ConsumedShort
  <2>7. taken' = left
    BY <1>1, <1>3, <1>4, <1>7
  <2>8. OneStep'
    BY <1>2, <2>1, <2>v, <2>5, <2>6, <2>7 DEF OneStep
  <2>9. QED BY <2>2, <2>3, <2>8 DEF RleInvariant, Accounting
<1>8. QED BY <1>6, <1>7

\* One pair: the first that stops the loop is the one RleVerdict names.
LEMMA TakePairStep ==
  ASSUME RleInvariant, TakePair
  PROVE  RleInvariant'
<1> DEFINE at == global_pos + i
           q == at \div 2
           count == ByteAt(file, at)
<1>1. /\ TypeOK /\ Balance /\ phase = "for" /\ i < bytes_read
      /\ UNCHANGED <<remaining, bytes_read, global_pos, taken>> /\ UNCHANGED Input
  BY DEF RleInvariant, Accounting, TakePair
<1>2. UNCHANGED <<file, data_size, uncompressed_size, left>>
  BY <1>1 DEF Input
<1>3. /\ IsFile(file) /\ data_size \in Nat /\ left \in Nat /\ remaining \in Nat
      /\ global_pos \in Nat /\ taken \in Nat /\ bytes_read \in Nat /\ i \in Nat
      /\ data_size % 2 = 0 /\ expanded \in Nat /\ expanded <= UINT64_MAX
      /\ BUFFER_SIZE \in Nat /\ BUFFER_SIZE > 0 /\ BUFFER_SIZE % 2 = 0
  BY <1>1, RleTypes
<1>4. /\ global_pos + remaining = data_size /\ taken = global_pos + bytes_read
      /\ bytes_read <= remaining
  BY <1>1 DEF Balance
<1>5. /\ taken <= left /\ global_pos % 2 = 0 /\ global_pos % BUFFER_SIZE = 0
      /\ remaining > 0 /\ i % 2 = 0 /\ bytes_read = AtMost(BUFFER_SIZE, remaining)
  BY <1>1 DEF RleInvariant, Accounting, Chunked
<1>6. /\ verdict = Pending
      /\ \A p \in 0 .. q - 1 : ByteAt(file, 2 * p) # 0
      /\ expanded = Counts(file, 0, q)
  BY <1>1 DEF RleInvariant, Accounting, Summed, Counted
<1>7. at \in Nat /\ q \in Nat /\ 2 * q = at
  BY <1>3, <1>5
<1>8. remaining % 2 = 0 /\ bytes_read % 2 = 0 /\ i + 1 < bytes_read
  <2>1. remaining % 2 = 0
    BY <1>3, <1>4, <1>5
  <2>2. bytes_read % 2 = 0
    BY <1>3, <1>5, <2>1 DEF AtMost
  <2>3. QED BY <1>1, <1>3, <1>5, <2>1, <2>2
<1>9. Counts(file, 0, q + 1) = expanded + count /\ count \in Nat
  <2>1. 0 + 2 * q = at
    BY <1>7
  <2>2. ByteAt(file, at) \in Nat
    BY <1>3, ByteAtType
  <2>3. Counts(file, 0, q + 1) = Counts(file, 0, q) + ByteAt(file, 0 + 2 * q)
    BY <1>3, <1>7, CountsSteps
  <2>4. QED BY <1>6, <2>1, <2>2, <2>3
<1>10. CASE count # 0 /\ expanded + count <= UINT64_MAX
  <2>1. /\ expanded' = expanded + count /\ i' = i + 2
        /\ phase' = phase /\ verdict' = verdict
    <3>1. expanded + count \in Nat
      BY <1>3, <1>9
    <3>2. Saturating(expanded + count).ok /\ Saturating(expanded + count).out = expanded + count
      BY <1>10, <3>1, SaturatingExact
    <3>3. QED BY <1>10, <3>2 DEF TakePair, bun_u64_add
  <2>2. expanded' \in u64 /\ i' \in Nat
    BY <1>3, <1>9, <1>10, <2>1, WidthAssumption DEF u64
  <2>3. TypeOK'
    BY <1>1, <1>2, <2>1, <2>2 DEF TypeOK
  <2>4. Balance' /\ Chunked'
    <3>1. i' <= bytes_read /\ i' % 2 = 0
      BY <1>3, <1>5, <1>8, <2>1
    <3>2. QED BY <1>1, <1>2, <1>4, <1>5, <2>1, <3>1 DEF Balance, Chunked
  <2>5. Summed'
    <3>1. Counted' = at + 2 /\ (at + 2) \div 2 = q + 1
      BY <1>1, <1>3, <1>7, <2>1 DEF Counted
    <3>2. \A p \in 0 .. (q + 1) - 1 : ByteAt(file, 2 * p) # 0
      <4>1. \A p \in 0 .. (q + 1) - 1 : p \in 0 .. q - 1 \/ p = q
        BY <1>7
      <4> HIDE DEF q
      <4>2. QED BY <1>6, <1>7, <1>10, <4>1
    <3> HIDE DEF q, at, count
    <3>3. QED BY <1>2, <1>6, <1>9, <2>1, <3>1, <3>2 DEF Summed
  <2>6. OneStep' /\ FirstZero'
    BY <1>1, <1>6, <2>1 DEF OneStep, FirstZero, Pending
  <2>7. QED BY <2>3, <2>4, <2>5, <2>6 DEF RleInvariant, Accounting
<1>11. CASE count = 0 \/ ~(expanded + count <= UINT64_MAX)
  <2> DEFINE what == IF count = 0 THEN "rle zero count" ELSE "rle expanded overflow"
  <2>1. /\ phase' = "done" /\ verdict' = [what |-> what, pos |-> at]
        /\ expanded' \in u64 /\ i' = i
    <3>1. CASE count = 0
      BY <1>1, <3>1 DEF TakePair, Conclude, TypeOK
    <3>2. CASE count # 0
      <4>1. expanded + count \in Nat
        BY <1>3, <1>9
      <4>2. ~Saturating(expanded + count).ok /\ Saturating(expanded + count).out \in u64
        BY <1>11, <3>2, <4>1, SaturatingExact, SaturatingType
      <4>3. QED BY <3>2, <4>2 DEF TakePair, Conclude, bun_u64_add
    <3>3. QED BY <3>1, <3>2
  <2>2. TypeOK'
    <3>1. verdict' \in [what : {"pending", "ok", "rle read failed", "rle zero count",
                               "rle expanded overflow", "rle size"}, pos : Nat]
      BY <1>7, <2>1
    <3>2. QED BY <1>1, <1>2, <2>1, <3>1 DEF TypeOK
  <2>3. Balance' /\ Chunked' /\ Summed'
    BY <1>1, <1>2, <1>4, <2>1 DEF Balance, Chunked, Summed
  <2>4. FirstZero'
    <3>1. at % 2 = 0 /\ at < data_size
      BY <1>3, <1>4, <1>5, <1>8
    <3>2. \A p \in 0 .. at - 1 : p % 2 = 0 => ByteAt(file, p) # 0
      <4>1. SUFFICES ASSUME NEW p \in 0 .. at - 1, p % 2 = 0 PROVE ByteAt(file, p) # 0
        OBVIOUS
      <4>2. p \div 2 \in 0 .. q - 1 /\ 2 * (p \div 2) = p
        BY <1>7, <4>1
      <4>3. QED BY <1>6, <4>2
    <3>3. verdict'.pos = at /\ (verdict'.what = "rle zero count" => count = 0)
      BY <2>1
    <3> HIDE DEF at
    <3>4. QED BY <1>2, <3>1, <3>2, <3>3 DEF FirstZero
  <2>5. OneStep'
    <3> DEFINE read == WholeChunks(data_size, left)
    <3>1. read \in Nat /\ at + 1 < read
      <4>1. CASE data_size <= left
        BY <1>1, <1>3, <1>4, <1>8, <4>1 DEF WholeChunks
      <4>2. CASE ~(data_size <= left)
        <5>1. bytes_read = BUFFER_SIZE
          BY <1>3, <1>4, <1>5, <4>2 DEF AtMost
        <5>2. PICK c \in Nat : taken = BUFFER_SIZE * c
          <6>1. taken % BUFFER_SIZE = 0
            BY <1>3, <1>4, <1>5, <5>1, NextChunk
          <6>2. taken = BUFFER_SIZE * (taken \div BUFFER_SIZE) /\ taken \div BUFFER_SIZE \in Nat
            BY <1>3, <6>1
          <6>3. QED BY <6>2
        <5>3. read \in Nat /\ taken <= read
          <6>1. read = left - (left % BUFFER_SIZE)
            BY <4>2 DEF WholeChunks
          <6>2. left = BUFFER_SIZE * (left \div BUFFER_SIZE) + (left % BUFFER_SIZE)
                /\ left \div BUFFER_SIZE \in Nat /\ left % BUFFER_SIZE \in 0 .. BUFFER_SIZE - 1
            BY <1>3
          <6>3. c <= left \div BUFFER_SIZE
            <7>1. SUFFICES ASSUME left \div BUFFER_SIZE + 1 <= c PROVE FALSE
              BY <6>2
            <7>2. \A a, b, n \in Nat : a <= b => n * a <= n * b
              OBVIOUS
            <7>3. BUFFER_SIZE * (left \div BUFFER_SIZE + 1) <= BUFFER_SIZE * c
              BY <1>3, <6>2, <7>1, <7>2
            <7>4. QED BY <1>3, <1>5, <5>2, <6>2, <7>3
          <6>4. \A a, b, n \in Nat : a <= b => n * a <= n * b
            OBVIOUS
          <6>5. BUFFER_SIZE * c <= BUFFER_SIZE * (left \div BUFFER_SIZE)
            BY <1>3, <6>2, <6>3, <6>4
          <6>6. QED BY <1>3, <5>2, <6>1, <6>2, <6>5
        <5>4. QED BY <1>3, <1>4, <1>8, <5>3
      <4>3. QED BY <4>1, <4>2
    <3>2. q < read \div 2
      BY <1>7, <3>1
    <3>3. RleVerdict(file, 0, data_size, left, uncompressed_size) =
            [what |-> what, pos |-> at]
      <4>1. Counts(file, 0, q) <= UINT64_MAX
        BY <1>3, <1>6
      <4>2. ByteAt(file, 2 * q) = 0 \/ Counts(file, 0, q + 1) > UINT64_MAX
        BY <1>3, <1>7, <1>9, <1>11, WidthAssumption
      <4>3. WholeChunks(data_size, left) = read
        OBVIOUS
      <4> HIDE DEF q, read
      <4>4. /\ StoppingPairs(file, 0, read) # {}
            /\ FirstOf(StoppingPairs(file, 0, read)) = q
        BY <1>3, <1>6, <1>7, <3>1, <3>2, <4>1, <4>2, StopsAt
      <4> DEFINE v == RleVerdict(file, 0, data_size, left, uncompressed_size)
      <4>5. /\ ByteAt(file, 2 * q) = 0 => v = [what |-> "rle zero count", pos |-> 2 * q]
            /\ ByteAt(file, 2 * q) # 0 =>
                 v = [what |-> "rle expanded overflow", pos |-> 2 * q]
        <5>1. 0 + 2 * q = 2 * q
          BY <1>7
        <5>2. QED BY <4>3, <4>4, <5>1 DEF RleVerdict
      <4> HIDE DEF v
      <4>6. v = [what |-> what, pos |-> at]
        BY <1>7, <4>5
      <4>7. QED BY <4>6 DEF v
    <3>4. i \in 0 .. BUFFER_SIZE - 1
      BY <1>1, <1>3, <1>5 DEF AtMost
    <3> DEFINE v == RleVerdict(file, 0, data_size, left, uncompressed_size)
    <3>5. v.what \in {"rle zero count", "rle expanded overflow"} /\ v.pos = global_pos + i
      <4> HIDE DEF v
      <4>1. v = [what |-> what, pos |-> at]
        BY <3>3 DEF v
      <4>2. QED BY <4>1
    <3>6. RleConsumed(file, 0, data_size, left, uncompressed_size) =
            IF global_pos + BUFFER_SIZE <= data_size THEN global_pos + BUFFER_SIZE
            ELSE data_size
      <4>1. data_size \in Nat /\ left \in Nat /\ global_pos \in Nat
        BY <1>3
      <4>2. global_pos % BUFFER_SIZE = 0
        BY <1>5
      <4>3. (v.pos \div BUFFER_SIZE + 1) * BUFFER_SIZE = global_pos + BUFFER_SIZE
        BY <3>4, <3>5, <4>1, <4>2, ChunkOf
      <4> DEFINE end == (v.pos \div BUFFER_SIZE + 1) * BUFFER_SIZE
      <4>4. RleConsumed(file, 0, data_size, left, uncompressed_size) =
              CASE v.what \in {"rle zero count", "rle expanded overflow"} ->
                     IF end <= data_size THEN end ELSE data_size
                [] v.what = "rle read failed" -> left
                [] OTHER -> data_size
        BY DEF RleConsumed
      <4>5. end = global_pos + BUFFER_SIZE
        BY <4>3
      <4> HIDE DEF end, v
      <4>6. QED BY <3>5, <4>4, <4>5
    <3>7. taken = IF global_pos + BUFFER_SIZE <= data_size THEN global_pos + BUFFER_SIZE
                  ELSE data_size
      BY <1>3, <1>4, <1>5 DEF AtMost
    <3>8. QED BY <1>1, <1>2, <2>1, <3>3, <3>6, <3>7 DEF OneStep
  <2>6. QED BY <2>2, <2>3, <2>4, <2>5 DEF RleInvariant, Accounting
<1>12. QED BY <1>3, <1>9, <1>10, <1>11

\* The end of a chunk: the next one begins where it ended.
LEMMA ChunkDoneStep ==
  ASSUME RleInvariant, ChunkDone
  PROVE  RleInvariant'
<1>1. /\ TypeOK /\ Balance /\ phase = "for" /\ i >= bytes_read
      /\ global_pos' = global_pos + bytes_read /\ remaining' = remaining - bytes_read
      /\ phase' = "while" /\ UNCHANGED <<bytes_read, i, expanded, taken, verdict>>
      /\ UNCHANGED Input
  BY DEF RleInvariant, Accounting, ChunkDone
<1>2. UNCHANGED <<file, data_size, uncompressed_size, left>>
  BY <1>1 DEF Input
<1>3. /\ data_size \in Nat /\ left \in Nat /\ remaining \in Nat
      /\ global_pos \in Nat /\ bytes_read \in Nat /\ i \in Nat
      /\ data_size % 2 = 0 /\ BUFFER_SIZE \in Nat /\ BUFFER_SIZE > 0
  BY <1>1, RleTypes
<1>4. /\ global_pos + remaining = data_size /\ taken = global_pos + bytes_read
      /\ bytes_read <= remaining /\ i = bytes_read
  BY <1>1, <1>3 DEF Balance
<1>5. /\ taken <= left /\ global_pos % 2 = 0 /\ global_pos % BUFFER_SIZE = 0
      /\ i % 2 = 0 /\ bytes_read = AtMost(BUFFER_SIZE, remaining)
  BY <1>1 DEF RleInvariant, Accounting, Chunked
<1>6. /\ verdict = Pending
      /\ \A p \in 0 .. ((global_pos + i) \div 2) - 1 : ByteAt(file, 2 * p) # 0
      /\ expanded = Counts(file, 0, (global_pos + i) \div 2)
  BY <1>1 DEF RleInvariant, Accounting, Summed, Counted
<1>7. global_pos' \in Nat /\ remaining' \in Nat
  BY <1>1, <1>3, <1>4
<1>8. TypeOK'
  BY <1>1, <1>2, <1>7 DEF TypeOK
<1>9. Balance'
  BY <1>1, <1>2, <1>3, <1>4 DEF Balance
<1>10. Chunked'
  <2>1. global_pos' % 2 = 0
    <3>1. \A a, b \in Nat : a % 2 = 0 /\ b % 2 = 0 => (a + b) % 2 = 0
      OBVIOUS
    <3>2. global_pos' = global_pos + i
      BY <1>1, <1>4
    <3>3. QED BY <1>3, <1>5, <3>1, <3>2
  <2>2. ASSUME remaining' > 0 PROVE global_pos' % BUFFER_SIZE = 0
    <3>1. bytes_read = BUFFER_SIZE
      BY <1>1, <1>3, <1>5, <2>2 DEF AtMost
    <3>2. QED BY <1>1, <1>3, <1>5, <3>1, NextChunk
  <2>3. QED BY <1>1, <1>2, <1>5, <2>1, <2>2 DEF Chunked
<1>11. Summed'
  <2>1. Counted' = global_pos + i
    BY <1>1, <1>4 DEF Counted
  <2>2. QED BY <1>1, <1>2, <1>6, <2>1 DEF Summed
<1>12. OneStep' /\ FirstZero'
  BY <1>1, <1>6 DEF OneStep, FirstZero, Pending
<1>13. QED BY <1>8, <1>9, <1>10, <1>11, <1>12 DEF RleInvariant, Accounting

\* The comparison after the loop: every pair has been counted.
LEMMA CompareSizeStep ==
  ASSUME RleInvariant, CompareSize
  PROVE  RleInvariant'
<1> DEFINE what == IF expanded # uncompressed_size THEN "rle size" ELSE "ok"
<1>1. /\ TypeOK /\ Balance /\ phase = "while" /\ remaining = 0
      /\ phase' = "done" /\ verdict' = [what |-> what, pos |-> data_size]
      /\ UNCHANGED <<remaining, bytes_read, i, global_pos, expanded, taken>>
      /\ UNCHANGED Input
  BY DEF RleInvariant, Accounting, CompareSize, Conclude
<1>2. UNCHANGED <<file, data_size, uncompressed_size, left>>
  BY <1>1 DEF Input
<1>3. /\ IsFile(file) /\ data_size \in Nat /\ left \in Nat /\ left <= data_size
      /\ global_pos \in Nat /\ expanded <= UINT64_MAX
  BY <1>1, RleTypes
<1>4. global_pos = data_size /\ taken = data_size /\ taken <= left
  <2>1. global_pos + remaining = data_size /\ taken = global_pos /\ taken <= left
    BY <1>1 DEF RleInvariant, Accounting, Balance, Chunked
  <2>2. global_pos + 0 = data_size
    BY <1>1, <2>1
  <2>3. QED BY <1>3, <2>1, <2>2
<1>5. /\ \A p \in 0 .. (data_size \div 2) - 1 : ByteAt(file, 2 * p) # 0
      /\ expanded = Counts(file, 0, data_size \div 2)
  BY <1>1, <1>4 DEF RleInvariant, Accounting, Summed, Counted
<1>6. TypeOK'
  <2>1. verdict' \in [what : {"pending", "ok", "rle read failed", "rle zero count",
                             "rle expanded overflow", "rle size"}, pos : Nat]
    BY <1>1, <1>3
  <2>2. QED BY <1>1, <1>2, <2>1 DEF TypeOK
<1>7. Balance' /\ Chunked' /\ Summed' /\ FirstZero'
  BY <1>1, <1>2 DEF Balance, Chunked, Summed, FirstZero
<1>8. OneStep'
  <2>1. WholeChunks(data_size, left) = data_size
    BY <1>3, <1>4 DEF WholeChunks
  <2>2. Counts(file, 0, data_size \div 2) <= UINT64_MAX
    BY <1>3, <1>5
  <2>3. StoppingPairs(file, 0, data_size) = {}
    BY <1>3, <1>5, <2>2, NoStops
  <2> DEFINE v == RleVerdict(file, 0, data_size, left, uncompressed_size)
  <2>v. v = RleVerdict(file, 0, data_size, left, uncompressed_size)
    OBVIOUS
  <2> HIDE DEF v
  <2>4. v = IF Counts(file, 0, data_size \div 2) # uncompressed_size
              THEN [what |-> "rle size", pos |-> data_size]
              ELSE [what |-> "ok", pos |-> data_size]
    <3>1. ~(data_size < data_size)
      BY <1>3
    <3>2. QED BY <2>1, <2>3, <2>v, <3>1 DEF RleVerdict
  <2>5. v = [what |-> what, pos |-> data_size]
    BY <1>5, <2>4
  <2>6. v.what \in {"rle size", "ok"}
    BY <2>5
  <2>7. RleConsumed(file, 0, data_size, left, uncompressed_size) = data_size
    <3> DEFINE end == (v.pos \div BUFFER_SIZE + 1) * BUFFER_SIZE
    <3>1. RleConsumed(file, 0, data_size, left, uncompressed_size) =
            CASE v.what \in {"rle zero count", "rle expanded overflow"} ->
                   IF end <= data_size THEN end ELSE data_size
              [] v.what = "rle read failed" -> left
              [] OTHER -> data_size
      BY <2>v DEF RleConsumed
    <3> HIDE DEF end
    <3>2. QED BY <2>6, <3>1
  <2>8. QED BY <1>1, <1>2, <1>4, <2>v, <2>5, <2>7 DEF OneStep
<1>9. QED BY <1>6, <1>7, <1>8 DEF RleInvariant, Accounting

\* Every step of the specification keeps the invariant.
LEMMA RleStep == RleInvariant /\ [Next]_vars => RleInvariant'
<1> SUFFICES ASSUME RleInvariant, [Next]_vars PROVE RleInvariant'
  OBVIOUS
<1>1. CASE ReadChunk
  BY <1>1, ReadChunkStep
<1>2. CASE TakePair
  BY <1>2, TakePairStep
<1>3. CASE ChunkDone
  BY <1>3, ChunkDoneStep
<1>4. CASE CompareSize
  BY <1>4, CompareSizeStep
<1>5. CASE UNCHANGED vars
  BY <1>5 DEF RleInvariant, Accounting, vars, TypeOK, Balance, Chunked, Counted, Summed, OneStep,
     FirstZero
<1>6. QED BY <1>1, <1>2, <1>3, <1>4, <1>5 DEF Next, Loop, Returned

-----------------------------------------------------------------------------
\* validate_compression's loop (bun_validate.c 230-277) keeps its invariant.
THEOREM RleInductive == Spec => []RleInvariant
<1>1. Init => RleInvariant
  BY RleInit
<1>2. RleInvariant /\ [Next]_vars => RleInvariant'
  BY RleStep
<1>3. QED BY <1>1, <1>2, PTL DEF Spec

\* Every variable of the loop keeps its C type; expanded never wraps.
THEOREM RleTypeCorrect == Spec => []TypeOK
<1>1. RleInvariant => TypeOK
  BY DEF RleInvariant, Accounting
<1>2. QED BY <1>1, RleInductive, PTL

\* The loop keeps its books: every byte of the payload is behind, in the buffer
\* or ahead, the stream is where that says, and expanded is the sum of all the
\* counts behind, over all chunks (bun_validate.c 232-269).
THEOREM RleAccounting == Spec => []Accounting
<1>1. RleInvariant => Accounting
  BY DEF RleInvariant, Accounting
<1>2. QED BY <1>1, RleInductive, PTL

\* The loop in chunks returns what BunValidate takes in one step, and leaves
\* the stream where BunValidate says, for every payload, buffer and short read.
THEOREM RleOneStep == Spec => []OneStep
<1>1. RleInvariant => OneStep
  BY DEF RleInvariant, Accounting
<1>2. QED BY <1>1, RleInductive, PTL

\* buffer[i + 1] (line 250) is always a byte of this fread: no pair straddles
\* two chunks, and none is cut off by the end of the payload.
THEOREM RlePairs == Spec => []PairInBuffer
<1>1. RleInvariant => PairInBuffer
  <2>1. SUFFICES ASSUME RleInvariant, phase = "for", i < bytes_read
                 PROVE  i + 1 < bytes_read
    BY DEF PairInBuffer
  <2>2. /\ TypeOK /\ global_pos + remaining = data_size /\ global_pos % 2 = 0
        /\ i % 2 = 0 /\ bytes_read = AtMost(BUFFER_SIZE, remaining)
    BY <2>1 DEF RleInvariant, Accounting, Balance, Chunked
  <2>3. /\ data_size \in Nat /\ data_size % 2 = 0 /\ remaining \in Nat /\ i \in Nat
        /\ global_pos \in Nat /\ bytes_read \in Nat
        /\ BUFFER_SIZE \in Nat /\ BUFFER_SIZE % 2 = 0
    BY <2>2, RleTypes
  <2>4. remaining % 2 = 0
    BY <2>2, <2>3
  <2>5. bytes_read % 2 = 0
    BY <2>2, <2>3, <2>4 DEF AtMost
  <2>6. QED BY <2>1, <2>2, <2>3, <2>5
<1>2. QED BY <1>1, RleInductive, PTL

\* The byte named in a "zero count" error is the first such byte of the whole
\* payload, whatever chunk it was found in.
THEOREM RleFirstZero == Spec => []FirstZero
<1>1. RleInvariant => FirstZero
  BY DEF RleInvariant, Accounting
<1>2. QED BY <1>1, RleInductive, PTL

=============================================================================
