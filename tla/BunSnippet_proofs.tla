-------------------------- MODULE BunSnippet_proofs --------------------------
(* What the snippet printers show is the beginning of the name, of the       *)
(* payload or of what it expands to, for all sizes of the buffers, whatever  *)
(* the file; and the decoder stays in its buffers.                           *)
EXTENDS BunSnippet, BunValidate_proofs, FiniteSetTheorems

-----------------------------------------------------------------------------
(* What a payload expands to.                                               *)

\* m is the number of pairs before the first of count zero.
Live(f, from, n, m) ==
  /\ m \in 0 .. n \div 2
  /\ \A p \in 0 .. m - 1 : ByteAt(f, from + 2 * p) # 0
  /\ m < n \div 2 => ByteAt(f, from + 2 * m) = 0

\* There is one such number,
LEMMA LiveExists ==
  ASSUME NEW f, IsFile(f), NEW from \in Nat, NEW n \in Nat
  PROVE  \E m \in Nat : Live(f, from, n, m)
<1> DEFINE h == n \div 2
           Stops == {p \in Nat : p < h /\ ByteAt(f, from + 2 * p) = 0}
<1>1. h \in Nat
  OBVIOUS
<1>2. CASE Stops = {}
  <2>1. h \in 0 .. h /\ ~(h < h)
    BY <1>1
  <2>2. \A p \in 0 .. h - 1 : p \in Nat /\ p < h
    BY <1>1
  <2> HIDE DEF h
  <2>3. \A p \in 0 .. h - 1 : ByteAt(f, from + 2 * p) # 0
    BY <1>2, <2>2
  <2> USE DEF h
  <2>4. QED BY <1>1, <2>1, <2>3 DEF Live
<1>3. CASE Stops # {}
  <2>1. PICK m \in Stops : \A q \in Stops : m <= q
    <3>1. Stops \in SUBSET Nat
      OBVIOUS
    <3> HIDE DEF Stops
    <3>2. QED BY <1>3, <3>1, LeastMember
  <2>2. m \in Nat /\ m < h /\ ByteAt(f, from + 2 * m) = 0
    OBVIOUS
  <2>3. \A p \in 0 .. m - 1 : p \in Nat /\ p < h /\ ~(m <= p)
    BY <1>1, <2>2
  <2>4. \A p \in 0 .. m - 1 : ByteAt(f, from + 2 * p) # 0
    BY <2>1, <2>3
  <2>5. m \in 0 .. h
    BY <1>1, <2>2
  <2>6. QED BY <2>2, <2>4, <2>5 DEF Live
<1>4. QED BY <1>2, <1>3

\* and it counts the pairs that Expanded writes out.
LEMMA LiveCount ==
  ASSUME NEW f, NEW from \in Nat, NEW n \in Nat, NEW m \in Nat, Live(f, from, n, m)
  PROVE  Cardinality({p \in 0 .. (n \div 2) - 1 :
                        \A q \in 0 .. p : ByteAt(f, from + 2 * q) # 0}) = m
<1> DEFINE h == n \div 2
<1>1. h \in Nat /\ m <= h
  BY DEF Live
<1>2. ASSUME NEW p \in 0 .. h - 1
      PROVE  (\A q \in 0 .. p : ByteAt(f, from + 2 * q) # 0) <=> p \in 0 .. m - 1
  <2>1. CASE p \in 0 .. m - 1
    <3>1. \A q \in 0 .. p : q \in 0 .. m - 1
      BY <2>1
    <3>2. QED BY <2>1, <3>1 DEF Live
  <2>2. CASE p \notin 0 .. m - 1
    <3>1. m \in 0 .. p /\ m < h
      BY <1>1, <2>2
    <3>2. QED BY <2>2, <3>1 DEF Live
  <2>3. QED BY <2>1, <2>2
<1>3. \A p \in 0 .. m - 1 : p \in 0 .. h - 1
  BY <1>1
<1> HIDE DEF h
<1>4. {p \in 0 .. h - 1 : \A q \in 0 .. p : ByteAt(f, from + 2 * q) # 0} = 0 .. m - 1
  BY <1>2, <1>3
<1>5. Cardinality(0 .. m - 1) = m
  <2>1. 0 \in Int /\ m - 1 \in Int
    OBVIOUS
  <2>2. Cardinality(0 .. m - 1) = IF 0 > m - 1 THEN 0 ELSE (m - 1) - 0 + 1
    BY <2>1, FS_Interval
  <2>3. QED BY <2>2
<1>6. QED BY <1>4, <1>5 DEF h

\* The expansion is as long as the counts add up to, and every pair has its
\* byte at every place its count gives it.
LEMMA ExpandedIs ==
  ASSUME IsFile(file), NEW from \in Nat, NEW n \in Nat, NEW m \in Nat,
         Live(file, from, n, m)
  PROVE  /\ Expanded(from, n) \in Seq(Nat)
         /\ Len(Expanded(from, n)) = Counts(file, from, m)
         /\ \A p \in 0 .. m - 1 : \A k \in 1 .. ByteAt(file, from + 2 * p) :
              Expanded(from, n)[Counts(file, from, p) + k] = ByteAt(file, from + 2 * p + 1)
         /\ \A k \in 1 .. Counts(file, from, m) : Expanded(from, n)[k] \in Byte
<1> DEFINE run(p) == [k \in 1 .. ByteAt(file, from + 2 * (p - 1)) |->
                        ByteAt(file, from + 2 * p - 1)]
           rows == [p \in 1 .. m |-> run(p)]
           g == [p \in 0 .. m |-> Counts(file, from, p)]
<1>1. Expanded(from, n) = FlattenSeq(rows)
  BY LiveCount DEF Expanded
<1>2. \A p \in 1 .. m : run(p) \in Seq(Nat) /\ Len(run(p)) = ByteAt(file, from + 2 * (p - 1))
  <2> TAKE p \in 1 .. m
  <2> DEFINE c == ByteAt(file, from + 2 * (p - 1))
             b == ByteAt(file, from + 2 * p - 1)
  <2>1. c \in Nat /\ b \in Nat
    BY ByteAtType
  <2> HIDE DEF c, b
  <2>2. [k \in 1 .. c |-> b] \in Seq(Nat) /\ Len([k \in 1 .. c |-> b]) = c
    BY <2>1
  <2>3. QED BY <2>2 DEF c, b
<1> HIDE DEF run
<1>3. rows \in Rows /\ Len(rows) = m /\ \A p \in 1 .. m : rows[p] = run(p)
  BY <1>2 DEF Rows
<1> HIDE DEF rows
<1>4. /\ g \in [0 .. Len(rows) -> Nat]
      /\ \A p \in 0 .. m : g[p] = Counts(file, from, p)
  <2>1. \A p \in 0 .. m : Counts(file, from, p) \in Nat
    BY CountsSteps
  <2>2. QED BY <1>3, <2>1
<1> HIDE DEF g
<1>5. Ends(rows, Len(rows), g)
  <2>1. g[0] = 0
    <3>1. 0 \in 0 .. m /\ 0 \in Nat
      OBVIOUS
    <3>2. QED BY <1>4, <3>1, CountsSteps
  <2>2. ASSUME NEW p \in 1 .. m PROVE g[p] = g[p - 1] + Len(rows[p])
    <3>1. p - 1 \in Nat /\ p - 1 \in 0 .. m /\ p \in 0 .. m /\ (p - 1) + 1 = p
      OBVIOUS
    <3>2. Counts(file, from, p) = Counts(file, from, p - 1) + ByteAt(file, from + 2 * (p - 1))
      BY <3>1, CountsSteps
    <3>3. QED BY <1>2, <1>3, <1>4, <3>1, <3>2
  <2>3. QED BY <1>3, <2>1, <2>2 DEF Ends
<1>6. Whole(rows, m, g, FlattenSeq(rows))
  BY <1>3, <1>4, <1>5, FlattenWhole
<1>7. m \in 0 .. m
  OBVIOUS
<1>8. ASSUME NEW p \in 0 .. m - 1, NEW k \in 1 .. ByteAt(file, from + 2 * p)
      PROVE  FlattenSeq(rows)[Counts(file, from, p) + k] = ByteAt(file, from + 2 * p + 1)
  <2>1. /\ p + 1 \in 1 .. m /\ p \in 0 .. m /\ (p + 1) - 1 = p
        /\ from + 2 * (p + 1) - 1 = from + 2 * p + 1
    OBVIOUS
  <2>2. rows[p + 1] = run(p + 1) /\ Len(rows[p + 1]) = ByteAt(file, from + 2 * p)
    BY <1>2, <1>3, <2>1
  <2>3. FlattenSeq(rows)[g[(p + 1) - 1] + k] = rows[p + 1][k]
    BY <1>6, <2>1, <2>2 DEF Whole
  <2>4. rows[p + 1][k] = ByteAt(file, from + 2 * p + 1)
    BY <2>1, <2>2 DEF run
  <2>5. QED BY <1>4, <2>1, <2>3, <2>4
<1>9. ASSUME NEW k \in 1 .. g[m] PROVE FlattenSeq(rows)[k] \in Byte
  <2>1. PICK p \in 1 .. m : \E r \in 1 .. Len(rows[p]) : k = g[p - 1] + r
    BY <1>6 DEF Whole
  <2>2. PICK r \in 1 .. Len(rows[p]) : k = g[p - 1] + r
    BY <2>1
  <2>3. FlattenSeq(rows)[k] = rows[p][r]
    BY <1>6, <2>2 DEF Whole
  <2>4. rows[p] = run(p) /\ r \in 1 .. ByteAt(file, from + 2 * (p - 1))
    BY <1>2, <1>3, <2>2
  <2>5. rows[p][r] = ByteAt(file, from + 2 * p - 1)
    BY <2>4 DEF run
  <2>6. QED BY <2>3, <2>5, ByteAtType DEF Byte
<1>10. QED BY <1>1, <1>4, <1>6, <1>7, <1>8, <1>9 DEF Whole

\* Pairs of which none has count zero expand to a byte each at least.
LEMMA CountsAtLeast ==
  ASSUME NEW f, IsFile(f), NEW from \in Nat, NEW n \in Nat,
         \A p \in 0 .. n - 1 : ByteAt(f, from + 2 * p) # 0
  PROVE  \A m \in Nat : m <= n => m <= Counts(f, from, m)
<1> DEFINE Bad == {m \in Nat : m <= n /\ ~(m <= Counts(f, from, m))}
<1>1. SUFFICES ASSUME Bad # {} PROVE FALSE
  OBVIOUS
<1>2. PICK m \in Bad : \A k \in Bad : m <= k
  <2>1. Bad \in SUBSET Nat
    OBVIOUS
  <2> HIDE DEF Bad
  <2>2. QED BY <1>1, <2>1, LeastMember
<1>3. m \in Nat /\ m <= n /\ ~(m <= Counts(f, from, m))
  OBVIOUS
<1>4. m # 0
  BY <1>3, CountsSteps
<1>5. m - 1 \in Nat /\ m - 1 <= n /\ ~(m <= m - 1) /\ m - 1 \in 0 .. n - 1 /\ (m - 1) + 1 = m
  BY <1>3, <1>4
<1>6. m - 1 <= Counts(f, from, m - 1)
  BY <1>2, <1>5
<1>7. /\ Counts(f, from, m - 1) \in Nat
      /\ Counts(f, from, m) = Counts(f, from, m - 1) + ByteAt(f, from + 2 * (m - 1))
  BY <1>5, CountsSteps
<1>8. ByteAt(f, from + 2 * (m - 1)) \in Nat /\ ByteAt(f, from + 2 * (m - 1)) # 0
  BY <1>5, ByteAtType
<1> HIDE DEF Bad
<1>9. QED BY <1>3, <1>5, <1>6, <1>7, <1>8

-----------------------------------------------------------------------------
(* Beginnings of the content.                                               *)

\* A buffer shows the first bytes of s,
LEMMA FirstBytesShown ==
  ASSUME NEW s \in Seq(Nat), NEW l \in Nat, NEW b, NEW n \in Nat, n = AtMost(l, Len(s)),
         \A q \in 0 .. n - 1 : b[q] = s[q + 1]
  PROVE  [k \in 1 .. n |-> b[k - 1]] = FirstBytes(s, l)
<1>1. Len(s) \in Nat /\ n <= Len(s)
  BY LenProperties DEF AtMost
<1>2. FirstBytes(s, l) = SubSeq(s, 1, n)
  BY <1>1 DEF FirstBytes
<1>3. SubSeq(s, 1, n) = [k \in 1 .. n |-> s[k]]
  BY <1>1
<1>4. \A k \in 1 .. n : b[k - 1] = s[k]
  <2> TAKE k \in 1 .. n
  <2>1. k - 1 \in 0 .. n - 1 /\ (k - 1) + 1 = k
    OBVIOUS
  <2>2. QED BY <2>1
<1>5. QED BY <1>2, <1>3, <1>4

\* and shows nothing else.
LEMMA FirstBytesOnly ==
  ASSUME NEW s \in Seq(Nat), NEW n \in Nat, NEW b,
         [k \in 1 .. n |-> b[k - 1]] = FirstBytes(s, n)
  PROVE  n <= Len(s) /\ \A q \in 0 .. n - 1 : b[q] = s[q + 1]
<1> DEFINE m == AtMost(n, Len(s))
           t == [k \in 1 .. n |-> b[k - 1]]
<1>1. Len(s) \in Nat /\ m \in Nat /\ m <= Len(s) /\ m <= n
  BY LenProperties DEF AtMost
<1> HIDE DEF m
<1>2. t = [k \in 1 .. m |-> s[k]]
  <2>1. t = SubSeq(s, 1, m)
    BY DEF FirstBytes, m
  <2>2. SubSeq(s, 1, m) = [k \in 1 .. m |-> s[k]]
    BY <1>1
  <2> HIDE DEF t
  <2>3. QED BY <2>1, <2>2
<1>3. DOMAIN t = 1 .. n
  OBVIOUS
<1>4. DOMAIN t = 1 .. m /\ \A k \in 1 .. m : t[k] = s[k]
  <2> HIDE DEF t
  <2>1. QED BY <1>2
<1>5. n = m
  <2> HIDE DEF t
  <2>1. 1 .. n = 1 .. m
    BY <1>3, <1>4
  <2>2. QED BY <1>1, <2>1
<1>6. \A q \in 0 .. n - 1 : b[q] = s[q + 1]
  <2> TAKE q \in 0 .. n - 1
  <2>1. q + 1 \in 1 .. n /\ (q + 1) - 1 = q
    OBVIOUS
  <2>2. t[q + 1] = b[q]
    BY <2>1
  <2> HIDE DEF t
  <2>3. QED BY <1>4, <1>5, <2>1, <2>2
<1>7. QED BY <1>1, <1>5, <1>6

\* Bytes copied out are a sequence.
LEMMA RawIs ==
  ASSUME IsFile(file), NEW from \in Nat, NEW n \in Nat
  PROVE  /\ Raw(from, n) \in Seq(Nat) /\ Len(Raw(from, n)) = n
         /\ \A q \in 0 .. n - 1 : Raw(from, n)[q + 1] = ByteAt(file, from + q)
<1>1. \A k \in 1 .. n : ByteAt(file, from + k - 1) \in Nat
  BY ByteAtType
<1>2. Raw(from, n) \in Seq(Nat) /\ Len(Raw(from, n)) = n
  BY <1>1 DEF Raw
<1>3. \A q \in 0 .. n - 1 : Raw(from, n)[q + 1] = ByteAt(file, from + q)
  <2> TAKE q \in 0 .. n - 1
  <2>1. q + 1 \in 1 .. n /\ from + (q + 1) - 1 = from + q
    OBVIOUS
  <2>2. QED BY <2>1 DEF Raw
<1>4. QED BY <1>2, <1>3

\* What there is to show is a sequence of numbers.
LEMMA ContentType ==
  ASSUME SnippetType
  PROVE  Content \in Seq(Nat) /\ Len(Content) \in Nat
<1>1. /\ NameStart(file.header, rec).out \in Nat /\ DataStart(file.header, rec).out \in Nat
      /\ rec.name_length \in Nat /\ rec.data_size \in Nat /\ IsFile(file)
  BY StartTypes, FieldTypes DEF SnippetType, IsFile
<1>2. Expanded(DataStart(file.header, rec).out, rec.data_size) \in Seq(Nat)
  BY <1>1, LiveExists, ExpandedIs
<1>3. Content \in Seq(Nat)
  BY <1>1, <1>2, RawIs DEF Content
<1>4. QED BY <1>3, LenProperties

-----------------------------------------------------------------------------
(* The hex dump and its lines.                                              *)

\* Lines are whole but for the last.
LEMMA LinesFit ==
  ASSUME NEW n \in Nat, NEW l \in Nat \ {0}
  PROVE  LET m == (n + l - 1) \div l IN
         /\ m \in Nat /\ n <= l * m
         /\ \A t \in 1 .. m : l * (t - 1) \in Nat /\ l * (t - 1) < n
                              /\ l * t = l * (t - 1) + l
<1> DEFINE x == n + l - 1
           m == x \div l
<1>1. x \in Nat /\ m \in Nat
  OBVIOUS
<1>2. x = l * m + (x % l) /\ 0 <= x % l /\ x % l < l
  OBVIOUS
<1>3. QED BY <1>1, <1>2

\* Line t of the dump of n bytes.
DumpLine(b, n, t) ==
  [at |-> LINE_BYTES * (t - 1),
   bytes |-> [k \in 1 .. AtMost(LINE_BYTES, n - LINE_BYTES * (t - 1)) |->
                b[LINE_BYTES * (t - 1) + k - 1]]]

Dump(b, n, m) == [t \in 1 .. m |-> DumpLine(b, n, t)]

\* The first m lines of a dump of n bytes, all of which begin within them, read
\* back as the bytes they cover.
LEMMA DumpedIs ==
  ASSUME NEW n \in Nat, NEW b, \A q \in 0 .. n - 1 : b[q] \in Nat, NEW m \in Nat,
         \A t \in 1 .. m : LINE_BYTES * (t - 1) < n
  PROVE  /\ Dumped(Dump(b, n, m)) = [k \in 1 .. AtMost(LINE_BYTES * m, n) |-> b[k - 1]]
         /\ Len(Dumped(Dump(b, n, m))) = AtMost(LINE_BYTES * m, n)
<1> DEFINE l == LINE_BYTES
           e(t) == l * t
           row(t) == [k \in 1 .. AtMost(l, n - e(t - 1)) |-> b[e(t - 1) + k - 1]]
           g == [t \in 0 .. m |-> AtMost(e(t), n)]
           rows == [t \in 1 .. m |-> row(t)]
           ls == Dump(b, n, m)
<1>1. l \in Nat /\ l # 0
  BY SnippetAssumption
<1>2. \A t \in 1 .. m : ls[t].bytes = row(t)
  BY DEF DumpLine, Dump
<1>3. Dumped(ls) = FlattenSeq(rows)
  <2>1. DOMAIN ls = 1 .. m
    BY DEF Dump
  <2> HIDE DEF row, ls
  <2>2. QED BY <1>2, <2>1 DEF Dumped
<1> HIDE DEF l
<1>4. /\ e(0) = 0 /\ \A t \in 0 .. m : e(t) \in Nat
      /\ \A t \in 1 .. m : e(t) = e(t - 1) + l /\ e(t - 1) \in Nat
  BY <1>1
<1>5. \A t \in 1 .. m : e(t - 1) < n
  BY DEF l
<1> HIDE DEF e
<1>6. \A t \in 1 .. m : row(t) \in Seq(Nat) /\ Len(row(t)) = AtMost(l, n - e(t - 1))
  <2> TAKE t \in 1 .. m
  <2> DEFINE a == e(t - 1)
             w == AtMost(l, n - a)
  <2>1. a \in Nat /\ a < n
    BY <1>4, <1>5
  <2> HIDE DEF a
  <2>2. w \in Nat /\ a + w <= n
    BY <1>1, <2>1 DEF AtMost
  <2> HIDE DEF w
  <2>3. \A k \in 1 .. w : b[a + k - 1] \in Nat
    <3> TAKE k \in 1 .. w
    <3>1. a + k - 1 \in 0 .. n - 1
      BY <2>1, <2>2
    <3>2. QED BY <3>1
  <2>4. [k \in 1 .. w |-> b[a + k - 1]] \in Seq(Nat) /\ Len([k \in 1 .. w |-> b[a + k - 1]]) = w
    BY <2>2, <2>3
  <2>5. QED BY <2>4 DEF w, a
<1> HIDE DEF row
<1>7. rows \in Rows /\ Len(rows) = m /\ \A t \in 1 .. m : rows[t] = row(t)
  BY <1>6 DEF Rows
<1> HIDE DEF rows
<1>8. g \in [0 .. Len(rows) -> Nat] /\ \A t \in 0 .. m : g[t] = AtMost(e(t), n)
  <2>1. \A t \in 0 .. m : AtMost(e(t), n) \in Nat
    BY <1>4 DEF AtMost
  <2>2. QED BY <1>7, <2>1
<1> HIDE DEF g
<1>9. \A t \in 1 .. m : g[t - 1] = e(t - 1) /\ g[t] = g[t - 1] + Len(rows[t])
  <2> TAKE t \in 1 .. m
  <2>1. t - 1 \in 0 .. m /\ t \in 0 .. m
    OBVIOUS
  <2>2. g[t - 1] = AtMost(e(t - 1), n) /\ g[t] = AtMost(e(t), n)
    BY <1>8, <2>1
  <2>3. e(t - 1) \in Nat /\ e(t - 1) < n /\ e(t) = e(t - 1) + l
    BY <1>4, <1>5
  <2>4. Len(rows[t]) = AtMost(l, n - e(t - 1))
    BY <1>6, <1>7
  <2> DEFINE x == e(t - 1)
             y == e(t)
  <2>5. x \in Nat /\ x < n /\ y = x + l
    BY <2>3
  <2> HIDE DEF x, y
  <2>6. AtMost(x, n) = x /\ AtMost(y, n) = x + AtMost(l, n - x)
    BY <1>1, <2>5 DEF AtMost
  <2>7. QED BY <2>2, <2>4, <2>6 DEF x, y
<1>10. Ends(rows, Len(rows), g)
  <2>1. g[0] = 0
    <3>1. 0 \in 0 .. m
      OBVIOUS
    <3>2. QED BY <1>4, <1>8, <3>1 DEF AtMost
  <2>2. QED BY <1>7, <1>9, <2>1 DEF Ends
<1> DEFINE s == FlattenSeq(rows)
           c == AtMost(e(m), n)
<1>11. Whole(rows, m, g, s)
  BY <1>7, <1>8, <1>10, FlattenWhole
<1>12. s \in Seq(Nat) /\ Len(s) = c
  <2>1. m \in 0 .. m
    OBVIOUS
  <2>2. QED BY <1>8, <1>11, <2>1 DEF Whole
<1>13. ASSUME NEW k \in 1 .. c PROVE s[k] = b[k - 1]
  <2>1. k \in 1 .. g[m]
    <3>1. m \in 0 .. m
      OBVIOUS
    <3>2. QED BY <1>8, <3>1
  <2> HIDE DEF s, c
  <2>p. PICK p \in 1 .. m : \E r \in 1 .. Len(rows[p]) : k = g[p - 1] + r
    BY <1>11, <2>1 DEF Whole
  <2>2. PICK r \in 1 .. Len(rows[p]) : k = g[p - 1] + r
    BY <2>p
  <2>3. s[k] = rows[p][r] /\ rows[p] = row(p) /\ Len(rows[p]) = AtMost(l, n - e(p - 1))
    BY <1>6, <1>7, <1>11, <2>2 DEF Whole
  <2>4. rows[p][r] = b[e(p - 1) + r - 1]
    BY <2>2, <2>3 DEF row
  <2>5. e(p - 1) + r - 1 = k - 1
    <3>1. g[p - 1] = e(p - 1) /\ e(p - 1) \in Nat /\ r \in Nat
      <4>1. p \in 1 .. m
        OBVIOUS
      <4>2. g[p - 1] = e(p - 1)
        BY <1>9, <4>1
      <4>3. e(p - 1) \in Nat
        BY <1>4, <4>1
      <4>4. r \in Nat
        OBVIOUS
      <4>5. QED BY <4>2, <4>3, <4>4
    <3>2. QED BY <2>2, <3>1
  <2>6. QED BY <2>3, <2>4, <2>5
<1>14. s = [k \in 1 .. c |-> b[k - 1]]
  <2> HIDE DEF s, c
  <2>1. s = [k \in 1 .. c |-> s[k]]
    BY <1>12
  <2>2. QED BY <1>13, <2>1
<1>15. QED BY <1>3, <1>12, <1>14 DEF e, l

\* The first n bytes of a buffer, as a sequence.
Beginning(b, n) == [k \in 1 .. n |-> b[k - 1]]

\* With enough lines, all bytes.
LEMMA DumpedWhole ==
  ASSUME NEW n \in Nat, NEW b, \A q \in 0 .. n - 1 : b[q] \in Nat, NEW m \in Nat,
         \A t \in 1 .. m : LINE_BYTES * (t - 1) < n,
         LINE_BYTES * m \in Nat, n <= LINE_BYTES * m
  PROVE  Dumped(Dump(b, n, m)) = Beginning(b, n)
<1> DEFINE x == LINE_BYTES * m
<1>1. Dumped(Dump(b, n, m)) = [k \in 1 .. AtMost(x, n) |-> b[k - 1]]
  BY DumpedIs
<1>2. x \in Nat /\ n <= x
  OBVIOUS
<1> HIDE DEF x
<1>3. AtMost(x, n) = n
  BY <1>2 DEF AtMost
<1>4. QED BY <1>1, <1>3 DEF Beginning

\* A dump reads back as what it was made of, and every line says how much is
\* above it.
LEMMA HexReadsBack ==
  ASSUME NEW len \in Nat, NEW max \in Nat, NEW b, NEW n, n = AtMost(len, max),
         \A q \in 0 .. n - 1 : b[q] \in Nat
  PROVE  LET d == bun_hex_dump(b, len, max) IN
         /\ d.form = "hex" /\ Dumped(d.lines) = [k \in 1 .. n |-> b[k - 1]]
         /\ \A t \in DOMAIN d.lines :
              d.lines[t].at = Len(Dumped(SubSeq(d.lines, 1, t - 1)))
<1> DEFINE l == LINE_BYTES
           m == (n + l - 1) \div l
           ls == Dump(b, n, m)
           d == bun_hex_dump(b, len, max)
<1>1. n \in Nat /\ l \in Nat \ {0}
  BY SnippetAssumption DEF AtMost
<1>2. d = Shown("hex", <<>>, ls, len > max)
  BY DEF bun_hex_dump, DumpLine, Dump
<1>3. d.form = "hex" /\ d.lines = ls
  <2> HIDE DEF ls, d
  <2>1. QED BY <1>2 DEF Shown
<1> HIDE DEF d
<1>4. /\ m \in Nat /\ n <= l * m
      /\ \A t \in 1 .. m : l * (t - 1) \in Nat /\ l * (t - 1) < n
  BY <1>1, LinesFit
<1>5. l * m \in Nat
  BY <1>1, <1>4
<1> HIDE DEF m
<1>6. Dumped(ls) = [k \in 1 .. n |-> b[k - 1]]
  <2>1. m \in Nat /\ (\A t \in 1 .. m : l * (t - 1) < n) /\ n <= l * m
    BY <1>4
  <2>2. Dumped(ls) = Beginning(b, n)
    BY <1>1, <1>5, <2>1, DumpedWhole
  <2>3. QED BY <2>2 DEF Beginning
<1>7. ASSUME NEW t \in 1 .. m
      PROVE  ls[t].at = Len(Dumped(SubSeq(ls, 1, t - 1)))
  <2> DEFINE sub == SubSeq(ls, 1, t - 1)
  <2>1. t - 1 \in Nat /\ \A u \in 1 .. t - 1 : u \in 1 .. m
    BY <1>4
  <2>2. sub = Dump(b, n, t - 1)
    <3> DEFINE v(u) == DumpLine(b, n, u)
    <3> HIDE DEF v
    <3>1. ls = [u \in 1 .. m |-> v(u)]
      BY DEF v, Dump
    <3> HIDE DEF ls
    <3>2. ls \in Seq({v(u) : u \in 1 .. m}) /\ Len(ls) = m
      BY <1>4, <3>1
    <3>3. sub = [u \in 1 .. t - 1 |-> ls[u]]
      BY <1>4, <2>1, <3>2
    <3>4. sub = [u \in 1 .. t - 1 |-> v(u)]
      BY <2>1, <3>1, <3>3
    <3>5. QED BY <3>4 DEF v, Dump
  <2>3. \A u \in 1 .. t - 1 : l * (u - 1) < n
    BY <1>4, <2>1
  <2> HIDE DEF sub
  <2>4. Len(Dumped(sub)) = AtMost(l * (t - 1), n)
    BY <1>1, <2>1, <2>2, <2>3, DumpedIs
  <2>5. AtMost(l * (t - 1), n) = l * (t - 1)
    BY <1>4 DEF AtMost
  <2>6. ls[t].at = l * (t - 1)
    BY DEF DumpLine, Dump
  <2>7. QED BY <2>4, <2>5, <2>6 DEF sub
<1>8. DOMAIN ls = 1 .. m
  BY DEF Dump
<1> HIDE DEF ls
<1>9. QED BY <1>3, <1>6, <1>7, <1>8 DEF d

-----------------------------------------------------------------------------
(* Escapes, and how they are read back.                                     *)

\* A byte becomes itself, a backslash and a letter, or four characters.
LEMMA EscapeIs ==
  ASSUME NEW c \in Byte
  PROVE  /\ Escape(c) \in Seq(Nat)
         /\ \/ /\ c \in DOMAIN Named /\ Len(Escape(c)) = 2
               /\ Escape(c)[1] = 92 /\ Escape(c)[2] = Named[c]
            \/ c \notin DOMAIN Named /\ Len(Escape(c)) = 1 /\ Escape(c)[1] = c
            \/ /\ Len(Escape(c)) = 4 /\ Escape(c)[1] = 92 /\ Escape(c)[2] = 120
               /\ Escape(c)[3] = Hex(c \div 16) /\ Escape(c)[4] = Hex(c % 16)
<1>1. c \in Nat /\ c \div 16 \in Nat /\ c % 16 \in Nat
  BY DEF Byte
<1>2. \A d \in Nat : Hex(d) \in Nat
  BY DEF Hex
<1>3. CASE c \in DOMAIN Named
  <2>1. Named[c] \in Nat
    BY <1>3 DEF Named
  <2> DEFINE x == Named[c]
  <2>2. Escape(c) = <<92, x>> /\ x \in Nat
    BY <1>3, <2>1 DEF Escape
  <2> HIDE DEF x
  <2>3. <<92, x>> \in Seq(Nat) /\ Len(<<92, x>>) = 2 /\ <<92, x>>[1] = 92 /\ <<92, x>>[2] = x
    BY <2>2
  <2>4. QED BY <1>3, <2>2, <2>3 DEF x
<1>4. CASE c \notin DOMAIN Named /\ c \in Printable
  <2>1. Escape(c) = <<c>>
    BY <1>4 DEF Escape
  <2>2. <<c>> \in Seq(Nat) /\ Len(<<c>>) = 1 /\ <<c>>[1] = c
    BY <1>1
  <2>3. QED BY <1>4, <2>1, <2>2
<1>5. CASE c \notin DOMAIN Named /\ c \notin Printable
  <2> DEFINE x == Hex(c \div 16)
             y == Hex(c % 16)
  <2>1. Escape(c) = <<92, 120, x, y>> /\ x \in Nat /\ y \in Nat
    BY <1>1, <1>2, <1>5 DEF Escape
  <2> HIDE DEF x, y
  <2>2. <<92, 120, x, y>> \in Seq(Nat) /\ Len(<<92, 120, x, y>>) = 4
    BY <2>1
  <2>3. QED BY <2>1, <2>2 DEF x, y
<1>6. QED BY <1>3, <1>4, <1>5

\* The letters of the named ones, none of them an x, tell them apart.
LEMMA NamedApart ==
  /\ DOMAIN Named = {92, 9, 10, 13}
  /\ \A c \in DOMAIN Named : Named[c] # 120 /\ {d \in DOMAIN Named : Named[d] = Named[c]} = {c}
<1>1. DOMAIN Named = {92, 9, 10, 13}
  BY DEF Named
<1>2. Named[92] = 92 /\ Named[9] = 116 /\ Named[10] = 110 /\ Named[13] = 114
  BY DEF Named
<1>3. ASSUME NEW c \in {92, 9, 10, 13}
      PROVE  Named[c] # 120 /\ \A d \in {92, 9, 10, 13} : Named[d] = Named[c] => d = c
  BY <1>2
<1>4. QED BY <1>1, <1>3

\* One element makes a sequence of one.
LEMMA OneToSeq ==
  ASSUME NEW c
  PROVE  SetToSeq({c}) = <<c>>
<1>1. Cardinality({c}) = 1
  BY FS_Singleton
<1>2. SetToSeq({c}) = CHOOSE f \in [1 .. 1 -> {c}] : IsInjective(f)
  BY <1>1 DEF SetToSeq
<1>3. <<c>> \in [1 .. 1 -> {c}] /\ IsInjective(<<c>>)
  BY DEF IsInjective
<1>4. \A f \in [1 .. 1 -> {c}] : f = <<c>>
  OBVIOUS
<1>5. QED BY <1>2, <1>3, <1>4

\* The two digits of a byte.
Digit(c) == IF c < 58 THEN c - 48 ELSE c - 87

\* The two digits printed of a byte give the byte back.
LEMMA DigitsReadBack ==
  ASSUME NEW c \in Byte
  PROVE  16 * Digit(Hex(c \div 16)) + Digit(Hex(c % 16)) = c
<1> DEFINE x == c \div 16
           y == c % 16
<1>1. x \in 0 .. 15 /\ y \in 0 .. 15 /\ c = 16 * x + y
  BY DEF Byte
<1>2. \A d \in 0 .. 15 : Digit(Hex(d)) = d
  BY DEF Hex, Digit
<1> HIDE DEF x, y
<1>3. Digit(Hex(x)) = x /\ Digit(Hex(y)) = y
  BY <1>1, <1>2
<1>4. QED BY <1>1, <1>3 DEF x, y

\* What Unescape makes of the text from position k on, given in q what it makes
\* of it from the later positions.
CharAt(t, k) == IF k <= Len(t) THEN t[k] ELSE 0

NextRead(t, k, q) ==
  IF k > Len(t) THEN <<>>
  ELSE IF CharAt(t, k) # 92 THEN <<CharAt(t, k)>> \o q[k + 1]
  ELSE IF CharAt(t, k + 1) = 120
    THEN <<16 * Digit(CharAt(t, k + 2)) + Digit(CharAt(t, k + 3))>> \o q[k + 4]
  ELSE SetToSeq({c \in DOMAIN Named : Named[c] = CharAt(t, k + 1)}) \o q[k + 2]

\* Only later positions matter.
LEMMA NextReadSame ==
  ASSUME NEW t, NEW k, NEW q, NEW h,
         ~(k > Len(t)) => q[k + 1] = h[k + 1] /\ q[k + 2] = h[k + 2] /\ q[k + 4] = h[k + 4]
  PROVE  NextRead(t, k, q) = NextRead(t, k, h)
BY DEF NextRead

\* One escape is read as its byte.
LEMMA NextReadEscape ==
  ASSUME NEW t \in Seq(Nat), NEW a \in Nat, NEW c \in Byte, NEW q,
         a + Len(Escape(c)) <= Len(t),
         \A r \in 1 .. Len(Escape(c)) : t[a + r] = Escape(c)[r]
  PROVE  NextRead(t, a + 1, q) = <<c>> \o q[a + Len(Escape(c)) + 1]
<1> DEFINE e == Escape(c)
           n == Len(e)
           k == a + 1
<1>1. /\ e \in Seq(Nat)
      /\ \/ c \in DOMAIN Named /\ n = 2 /\ e[1] = 92 /\ e[2] = Named[c]
         \/ c \notin DOMAIN Named /\ n = 1 /\ e[1] = c
         \/ /\ n = 4 /\ e[1] = 92 /\ e[2] = 120
            /\ e[3] = Hex(c \div 16) /\ e[4] = Hex(c % 16)
  BY EscapeIs
<1>2. a + n <= Len(t) /\ \A r \in 1 .. n : t[a + r] = e[r]
  OBVIOUS
<1> HIDE DEF e, n
<1>3. Len(t) \in Nat /\ k = a + 1 /\ c \in Nat
  <2>1. Len(t) \in Nat
    BY LenProperties
  <2>2. k = a + 1
    OBVIOUS
  <2>3. c \in Nat
    <3>1. c \in 0 .. 255
      BY DEF Byte
    <3>2. QED BY <3>1
  <2>4. QED BY <2>1, <2>2, <2>3, Zenon
<1>4. CASE c \in DOMAIN Named /\ n = 2 /\ e[1] = 92 /\ e[2] = Named[c]
  <2>1. 1 \in 1 .. n /\ 2 \in 1 .. n
    BY <1>4
  <2>2. t[a + 1] = 92 /\ t[a + 2] = Named[c]
    BY <1>2, <1>4, <2>1
  <2>3. k <= Len(t) /\ k + 1 <= Len(t) /\ k + 1 = a + 2 /\ k + 2 = a + n + 1
    BY <1>2, <1>3, <1>4
  <2> HIDE DEF k
  <2>4. ~(k > Len(t)) /\ CharAt(t, k) = 92 /\ CharAt(t, k + 1) = Named[c]
    BY <1>3, <2>2, <2>3 DEF CharAt
  <2>5. Named[c] # 120 /\ {d \in DOMAIN Named : Named[d] = Named[c]} = {c}
    BY <1>4, NamedApart, Zenon
  <2>6. SetToSeq({d \in DOMAIN Named : Named[d] = CharAt(t, k + 1)}) = <<c>>
    <3>1. SetToSeq({d \in DOMAIN Named : Named[d] = Named[c]}) = <<c>>
      BY <2>5, OneToSeq, Zenon
    <3>2. QED BY <2>4, <3>1, Zenon
  <2>7. NextRead(t, k, q) = <<c>> \o q[k + 2]
    <3>1. NextRead(t, k, q) =
            SetToSeq({d \in DOMAIN Named : Named[d] = CharAt(t, k + 1)}) \o q[k + 2]
      BY <2>4, <2>5, Zenon DEF NextRead
    <3>2. QED BY <2>6, <3>1, Zenon
  <2>8. QED BY <2>3, <2>7 DEF k, n, e
<1>5. CASE c \notin DOMAIN Named /\ n = 1 /\ e[1] = c
  <2>1. 1 \in 1 .. n
    BY <1>5
  <2>2. t[a + 1] = c
    BY <1>2, <1>5, <2>1
  <2>3. k <= Len(t) /\ k + 1 = a + n + 1
    BY <1>2, <1>3, <1>5
  <2> HIDE DEF k
  <2>4. ~(k > Len(t)) /\ CharAt(t, k) = c
    BY <1>3, <2>2, <2>3 DEF CharAt
  <2>5. c # 92
    BY <1>5, NamedApart
  <2>6. NextRead(t, k, q) = <<c>> \o q[k + 1]
    BY <2>4, <2>5 DEF NextRead
  <2>7. QED BY <2>3, <2>6 DEF k, n, e
<1>6. CASE n = 4 /\ e[1] = 92 /\ e[2] = 120 /\ e[3] = Hex(c \div 16) /\ e[4] = Hex(c % 16)
  <2>0. n = 4 /\ e[1] = 92 /\ e[2] = 120
    BY <1>6, Zenon
  <2>1. 1 \in 1 .. n /\ 2 \in 1 .. n /\ 3 \in 1 .. n /\ 4 \in 1 .. n
    BY <2>0
  <2>2. t[a + 1] = 92 /\ t[a + 2] = 120
    <3>1. t[a + 1] = e[1] /\ t[a + 2] = e[2]
      BY <1>2, <2>1
    <3>2. QED BY <2>0, <3>1
  <2>3. t[a + 3] = e[3] /\ t[a + 4] = e[4]
    BY <1>2, <2>1
  <2>4. /\ k <= Len(t) /\ k + 1 <= Len(t) /\ k + 2 <= Len(t) /\ k + 3 <= Len(t)
        /\ k + 1 = a + 2 /\ k + 2 = a + 3 /\ k + 3 = a + 4 /\ k + 4 = a + n + 1
    <3> DEFINE l == Len(t)
    <3>1. a + n <= l /\ l \in Nat /\ k = a + 1 /\ n = 4
      BY <1>2, <1>3, <2>0
    <3> HIDE DEF l, k
    <3>2. /\ k <= l /\ k + 1 <= l /\ k + 2 <= l /\ k + 3 <= l
          /\ k + 1 = a + 2 /\ k + 2 = a + 3 /\ k + 3 = a + 4 /\ k + 4 = a + n + 1
      BY <3>1
    <3>3. QED BY <3>2 DEF l
  <2> HIDE DEF k
  <2>5. ~(k > Len(t)) /\ CharAt(t, k) = 92 /\ CharAt(t, k + 1) = 120
    BY <1>3, <2>2, <2>4 DEF CharAt
  <2>6. CharAt(t, k + 2) = e[3] /\ CharAt(t, k + 3) = e[4]
    BY <2>3, <2>4 DEF CharAt
  <2>7. 16 * Digit(e[3]) + Digit(e[4]) = c
    BY <1>6, DigitsReadBack
  <2>8. NextRead(t, k, q) = <<c>> \o q[k + 4]
    <3>1. NextRead(t, k, q) =
            <<16 * Digit(CharAt(t, k + 2)) + Digit(CharAt(t, k + 3))>> \o q[k + 4]
      BY <2>5 DEF NextRead
    <3>2. QED BY <2>6, <2>7, <3>1
  <2>9. QED BY <2>4, <2>8 DEF k, n, e
<1>7. QED BY <1>1, <1>4, <1>5, <1>6

\* q holds what is read from every position of a .. l on.
Reads(t, a, l, q) == q = [k \in a .. l |-> NextRead(t, k, q)]

\* The recursion of Unescape has a solution (the least number of positions for
\* which there would be none has one);
LEMMA ReadsExist ==
  ASSUME NEW t, Len(t) \in Nat, NEW l, l = Len(t) + 4
  PROVE  \A m \in Nat : m <= l => \E q : Reads(t, l - m + 1, l, q)
<1> DEFINE Bad == {m \in Nat : m <= l /\ ~\E q : Reads(t, l - m + 1, l, q)}
<1>1. SUFFICES ASSUME Bad # {} PROVE FALSE
  OBVIOUS
<1>2. PICK m \in Bad : \A k \in Bad : m <= k
  <2>1. Bad \in SUBSET Nat
    OBVIOUS
  <2> HIDE DEF Bad
  <2>2. QED BY <1>1, <2>1, LeastMember
<1>3. m \in Nat /\ m <= l /\ ~\E q : Reads(t, l - m + 1, l, q)
  OBVIOUS
<1>4. m # 0
  <2>1. l - 0 + 1 .. l = {}
    OBVIOUS
  <2>2. Reads(t, l - 0 + 1, l, [k \in {} |-> 0])
    BY <2>1 DEF Reads
  <2>3. QED BY <1>3, <2>2
<1>5. m - 1 \in Nat /\ m - 1 <= l /\ ~(m <= m - 1)
  BY <1>3, <1>4
<1>6. PICK q : Reads(t, l - (m - 1) + 1, l, q)
  BY <1>2, <1>5
<1> DEFINE a == l - m + 1
           h == [k \in a .. l |-> IF k = a THEN NextRead(t, k, q) ELSE q[k]]
<1>7. a \in Nat /\ a <= l /\ l - (m - 1) + 1 = a + 1
  BY <1>3, <1>4
<1> HIDE DEF a
<1>8. \A k \in a + 1 .. l : h[k] = q[k] /\ q[k] = NextRead(t, k, q)
  <2>1. \A k \in a + 1 .. l : k \in a .. l /\ k # a
    BY <1>7
  <2>2. \A k \in a + 1 .. l : q[k] = NextRead(t, k, q)
    BY <1>6, <1>7 DEF Reads
  <2>3. QED BY <2>1, <2>2
<1>9. ASSUME NEW k \in a .. l PROVE h[k] = NextRead(t, k, h)
  <2>1. h[k] = NextRead(t, k, q)
    <3>1. CASE k = a
      BY <3>1
    <3>2. CASE k # a
      <4>1. k \in a + 1 .. l
        BY <1>7, <3>2
      <4> HIDE DEF h
      <4>2. QED BY <1>8, <4>1
    <3>3. QED BY <3>1, <3>2
  <2> HIDE DEF h
  <2>2. ASSUME ~(k > Len(t))
        PROVE  q[k + 1] = h[k + 1] /\ q[k + 2] = h[k + 2] /\ q[k + 4] = h[k + 4]
    <3>1. k + 1 \in a + 1 .. l /\ k + 2 \in a + 1 .. l /\ k + 4 \in a + 1 .. l
      BY <1>7, <2>2
    <3>2. QED BY <1>8, <3>1
  <2>3. NextRead(t, k, q) = NextRead(t, k, h)
    BY <2>2, NextReadSame
  <2>4. QED BY <2>1, <2>3
<1>10. Reads(t, a, l, h)
  <2>1. h = [k \in a .. l |-> h[k]]
    <3> DEFINE v(k) == IF k = a THEN NextRead(t, k, q) ELSE q[k]
    <3> HIDE DEF v
    <3>1. h = [k \in a .. l |-> v(k)]
      BY DEF v
    <3> HIDE DEF h
    <3>2. QED BY <3>1
  <2> HIDE DEF h
  <2>2. QED BY <1>9, <2>1 DEF Reads
<1>11. QED BY <1>3, <1>10 DEF a

\* it is what Unescape returns.
LEMMA UnescapeReads ==
  ASSUME NEW t, Len(t) \in Nat
  PROVE  \E q : Reads(t, 1, Len(t) + 4, q) /\ Unescape(t) = q[1]
<1> DEFINE c == CHOOSE q : q = [k \in 1 .. Len(t) + 4 |-> NextRead(t, k, q)]
<1>1. Unescape(t) = c[1]
  BY DEF Unescape, NextRead, CharAt, Digit
<1>2. \E q : q = [k \in 1 .. Len(t) + 4 |-> NextRead(t, k, q)]
  <2> DEFINE l == Len(t) + 4
  <2>1. l \in Nat /\ l <= l /\ l - l + 1 = 1
    OBVIOUS
  <2>2. \E q : Reads(t, l - l + 1, l, q)
    BY <2>1, ReadsExist
  <2>3. QED BY <2>1, <2>2 DEF Reads
<1>3. c = [k \in 1 .. Len(t) + 4 |-> NextRead(t, k, c)]
  BY <1>2
<1> HIDE DEF c
<1>4. QED BY <1>1, <1>3 DEF Reads

\* Escaped bytes read back as the bytes.
LEMMA EscapedReadsBack ==
  ASSUME NEW n \in Nat, NEW b, \A q \in 0 .. n - 1 : b[q] \in Byte
  PROVE  Unescape(FlattenSeq([k \in 1 .. n |-> Escape(b[k - 1])])) = [k \in 1 .. n |-> b[k - 1]]
<1> DEFINE row(k) == Escape(b[k - 1])
           rows == [k \in 1 .. n |-> row(k)]
           t == FlattenSeq(rows)
           rest(p) == [k \in 1 .. n - p |-> b[p + k - 1]]
<1>1. \A k \in 1 .. n : b[k - 1] \in Byte
  <2> TAKE k \in 1 .. n
  <2>1. k - 1 \in 0 .. n - 1
    OBVIOUS
  <2>2. QED BY <2>1
<1>2. \A k \in 1 .. n : row(k) \in Seq(Nat)
  BY <1>1, EscapeIs
<1> HIDE DEF row
<1>3. rows \in Rows /\ Len(rows) = n /\ \A k \in 1 .. n : rows[k] = row(k)
  BY <1>2 DEF Rows
<1> HIDE DEF rows
<1>4. PICK g \in [0 .. n -> Nat] : Ends(rows, n, g)
  <2>1. n \in Nat /\ n <= Len(rows)
    BY <1>3
  <2>2. QED BY <1>3, <2>1, EndsExist
<1>5. Whole(rows, n, g, t)
  BY <1>3, <1>4, FlattenWhole
<1>6. \A p \in 0 .. n : g[p] \in Nat /\ g[p] <= g[n]
  <2>1. n <= Len(rows) /\ n <= n
    BY <1>3
  <2>2. QED BY <1>3, <1>4, <2>1, EndsRise
<1> HIDE DEF t
<1>7. t \in Seq(Nat) /\ Len(t) = g[n] /\ Len(t) \in Nat
  <2>1. n \in 0 .. n
    OBVIOUS
  <2>2. QED BY <1>5, <1>6, <2>1 DEF Whole
<1>8. PICK q : Reads(t, 1, Len(t) + 4, q) /\ Unescape(t) = q[1]
  BY <1>7, UnescapeReads
<1>9. ASSUME NEW p \in 1 .. n, q[g[p] + 1] = rest(p)
      PROVE  q[g[p - 1] + 1] = rest(p - 1)
  <2> DEFINE c == b[p - 1]
             a == g[p - 1]
             e == Escape(c)
  <2>1. c \in Byte /\ p - 1 \in 0 .. n /\ p \in 0 .. n /\ rows[p] = e
    BY <1>1, <1>3 DEF row
  <2>2. a \in Nat /\ g[p] = a + Len(e) /\ g[p] <= Len(t)
    BY <1>4, <1>6, <1>7, <2>1 DEF Ends
  <2>3. \A r \in 1 .. Len(e) : t[a + r] = e[r]
    BY <1>5, <2>1 DEF Whole
  <2> HIDE DEF c, a
  <2>4. NextRead(t, a + 1, q) = <<c>> \o q[a + Len(e) + 1]
    BY <1>7, <2>1, <2>2, <2>3, NextReadEscape
  <2>5. q[a + 1] = NextRead(t, a + 1, q)
    <3>1. a + 1 \in 1 .. Len(t) + 4
      <4>1. Len(e) \in Nat
        BY <2>1, EscapeIs, LenProperties
      <4> HIDE DEF e
      <4>2. QED BY <1>7, <2>2, <4>1
    <3>2. QED BY <1>8, <3>1 DEF Reads
  <2>6. q[a + 1] = <<c>> \o rest(p)
    BY <1>9, <2>2, <2>4, <2>5
  <2>7. <<c>> \o rest(p) = rest(p - 1)
    <3> DEFINE u == rest(p)
               v == rest(p - 1)
               w == <<c>> \o u
    <3>1. \A k \in 1 .. n - p : b[p + k - 1] \in Nat
      <4> TAKE k \in 1 .. n - p
      <4>1. p + k - 1 \in 0 .. n - 1
        OBVIOUS
      <4>2. b[p + k - 1] \in Byte
        BY <4>1
      <4>3. \A x \in Byte : x \in Nat
        BY DEF Byte
      <4>4. QED BY <4>2, <4>3, Zenon
    <3>2. /\ u \in Seq(Nat) /\ Len(u) = n - p
          /\ \A k \in 1 .. n - p : u[k] = b[p + k - 1]
      BY <3>1
    <3> HIDE DEF u
    <3>3. <<c>> \in Seq(Nat) /\ Len(<<c>>) = 1 /\ <<c>>[1] = c
      BY <2>1 DEF Byte
    <3>4. /\ w \in Seq(Nat) /\ Len(w) = 1 + (n - p)
          /\ \A k \in 1 .. 1 + (n - p) : w[k] = IF k <= 1 THEN <<c>>[k] ELSE u[k - 1]
      BY <3>2, <3>3, ConcatProperties
    <3> HIDE DEF w
    <3>5. ASSUME NEW k \in 1 .. n - (p - 1) PROVE w[k] = b[(p - 1) + k - 1]
      <4>1. k \in 1 .. 1 + (n - p)
        OBVIOUS
      <4>2. CASE k = 1
        <5>1. (p - 1) + k - 1 = p - 1 /\ k <= 1
          BY <4>2
        <5>2. w[k] = c
          BY <3>3, <3>4, <4>1, <4>2
        <5>3. QED BY <5>1, <5>2 DEF c
      <4>3. CASE k # 1
        <5>1. k - 1 \in 1 .. n - p /\ ~(k <= 1) /\ p + (k - 1) - 1 = (p - 1) + k - 1
          BY <4>3
        <5>2. w[k] = u[k - 1]
          BY <3>4, <4>1, <5>1
        <5>3. QED BY <3>2, <5>1, <5>2
      <4>4. QED BY <4>2, <4>3
    <3>6. w = [k \in 1 .. n - (p - 1) |-> w[k]]
      <4>1. n - (p - 1) = 1 + (n - p)
        OBVIOUS
      <4>2. QED BY <3>4, <4>1
    <3>7. w = [k \in 1 .. n - (p - 1) |-> b[(p - 1) + k - 1]]
      BY <3>5, <3>6
    <3>8. QED BY <3>7 DEF w, u
  <2>8. QED BY <2>6, <2>7 DEF a
<1>10. q[g[n] + 1] = rest(n)
  <2>1. q[g[n] + 1] = NextRead(t, g[n] + 1, q)
    <3>1. g[n] + 1 \in 1 .. Len(t) + 4
      BY <1>7
    <3>2. QED BY <1>8, <3>1 DEF Reads
  <2>2. g[n] + 1 > Len(t)
    BY <1>7
  <2>3. rest(n) = <<>>
    OBVIOUS
  <2> HIDE DEF rest
  <2>4. QED BY <2>1, <2>2, <2>3 DEF NextRead
<1> HIDE DEF rest
<1>11. ASSUME NEW m \in 0 .. n PROVE q[g[n - m] + 1] = rest(n - m)
  <2> DEFINE Bad == {d \in Nat : d <= n /\ q[g[n - d] + 1] # rest(n - d)}
  <2>0. SUFFICES ASSUME q[g[n - m] + 1] # rest(n - m) PROVE FALSE
    OBVIOUS
  <2>1. Bad # {}
    <3>1. m \in Nat /\ m <= n
      OBVIOUS
    <3>2. m \in Bad
      BY <2>0, <3>1
    <3> HIDE DEF Bad
    <3>3. QED BY <3>2
  <2>2. PICK d \in Bad : \A k \in Bad : d <= k
    <3>1. Bad \in SUBSET Nat
      OBVIOUS
    <3> HIDE DEF Bad
    <3>2. QED BY <2>1, <3>1, LeastMember
  <2>3. d \in Nat /\ d <= n /\ q[g[n - d] + 1] # rest(n - d)
    OBVIOUS
  <2>4. d # 0
    <3>1. n - 0 = n
      OBVIOUS
    <3>2. QED BY <1>10, <2>3, <3>1
  <2>5. d - 1 \in Nat /\ d - 1 <= n /\ ~(d <= d - 1)
    BY <2>3, <2>4
  <2>6. q[g[n - (d - 1)] + 1] = rest(n - (d - 1))
    <3> DEFINE e == d - 1
    <3>1. e \in Nat /\ e <= n /\ ~(d <= e)
      BY <2>5
    <3> HIDE DEF e
    <3>2. e \notin Bad
      BY <2>2, <3>1
    <3>3. q[g[n - e] + 1] = rest(n - e)
      BY <3>1, <3>2
    <3>4. QED BY <3>3 DEF e
  <2>7. n - (d - 1) \in 1 .. n /\ (n - (d - 1)) - 1 = n - d
    BY <2>3, <2>4
  <2>8. q[g[(n - (d - 1)) - 1] + 1] = rest((n - (d - 1)) - 1)
    BY <1>9, <2>6, <2>7
  <2>9. QED BY <2>3, <2>7, <2>8
<1>12. q[1] = rest(0)
  <2>1. n \in 0 .. n /\ n - n = 0 /\ g[0] = 0
    BY <1>4 DEF Ends
  <2>2. q[g[n - n] + 1] = rest(n - n)
    BY <1>11, <2>1, Zenon
  <2>3. g[n - n] + 1 = 1
    BY <2>1
  <2>4. QED BY <2>1, <2>2, <2>3
<1>13. rest(0) = [k \in 1 .. n |-> b[k - 1]]
  <2>1. n - 0 = n /\ \A k \in 1 .. n : 0 + k - 1 = k - 1
    OBVIOUS
  <2>2. QED BY <2>1 DEF rest
<1>14. QED BY <1>8, <1>12, <1>13 DEF t, rows, row

-----------------------------------------------------------------------------
(* What a call of a printer shows.                                          *)

\* ReadBack and the places of the lines, of d in the place of shown.
Back(d) ==
  CASE d.form = "text" -> Unescape(d.text)
    [] d.form = "hex" -> Dumped(d.lines)
    [] OTHER -> <<>>

Placed(d) ==
  \A t \in DOMAIN d.lines : d.lines[t].at = Len(Dumped(SubSeq(d.lines, 1, t - 1)))

\* A placeholder has no bytes.
LEMMA LineShows ==
  ASSUME NEW form
  PROVE  /\ Line(form).form = form /\ Placed(Line(form))
         /\ form \notin {"text", "hex"} => Back(Line(form)) = <<>>
<1> DEFINE d == Line(form)
<1>1. d.form = form /\ d.lines = <<>>
  BY DEF Line, Shown
<1> HIDE DEF d
<1>2. Placed(d)
  BY <1>1 DEF Placed
<1>3. form \notin {"text", "hex"} => Back(d) = <<>>
  BY <1>1 DEF Back
<1>4. QED BY <1>1, <1>2, <1>3 DEF d

\* Escaped text has the bytes it is of, up to the limit.
LEMMA EscapedShows ==
  ASSUME NEW len \in Nat, NEW max \in Nat, NEW b, NEW n, n = AtMost(len, max),
         \A q \in 0 .. n - 1 : b[q] \in Byte
  PROVE  LET d == bun_print_escaped(b, len, max) IN
         d.form = "text" /\ Placed(d) /\ Back(d) = [k \in 1 .. n |-> b[k - 1]]
<1> DEFINE d == bun_print_escaped(b, len, max)
           t == FlattenSeq([k \in 1 .. n |-> Escape(b[k - 1])])
<1>1. n \in Nat
  BY DEF AtMost
<1>2. d = Shown("text", t, <<>>, len > max)
  BY DEF bun_print_escaped
<1>3. Unescape(t) = [k \in 1 .. n |-> b[k - 1]]
  BY <1>1, EscapedReadsBack
<1> HIDE DEF d, t
<1>4. d.form = "text" /\ d.text = t /\ d.lines = <<>>
  BY <1>2 DEF Shown
<1>5. Placed(d)
  BY <1>4 DEF Placed
<1>6. Back(d) = Unescape(t)
  BY <1>4 DEF Back
<1>7. QED BY <1>3, <1>4, <1>5, <1>6 DEF d

\* A payload snippet has the bytes it is of; shown as text, they are clean.
LEMMA PayloadShows ==
  ASSUME NEW len \in 0 .. PAYLOAD_SNIPPET_BYTES, NEW b, \A q \in 0 .. len - 1 : b[q] \in Byte
  PROVE  LET d == bun_print_payload_snippet(b, len, PAYLOAD_SNIPPET_BYTES) IN
         /\ d.form \in {"text", "hex", "empty"} /\ Placed(d)
         /\ Back(d) = [k \in 1 .. len |-> b[k - 1]]
         /\ d.form = "text" =>
              \A k \in 1 .. len : b[k - 1] \in Printable \cup {9, 10, 13}
<1> DEFINE max == PAYLOAD_SNIPPET_BYTES
           d == bun_print_payload_snippet(b, len, max)
           printable == bun_is_printable_ascii(b, AtMost(len, SNIFF_BYTES))
<1>1. max \in Nat /\ SNIFF_BYTES \in Nat /\ max <= SNIFF_BYTES
  BY SnippetAssumption, SniffAssumption
<1> HIDE DEF max
<1>2. len \in Nat /\ len <= max /\ len = AtMost(len, max) /\ len = AtMost(len, SNIFF_BYTES)
  <2>1. len \in Nat /\ len <= max
    BY <1>1 DEF max
  <2>2. QED BY <1>1, <2>1 DEF AtMost
<1>3. CASE len = 0
  <2>1. d = Line("empty")
    BY <1>3 DEF bun_print_payload_snippet
  <2> HIDE DEF d
  <2>2. d.form = "empty" /\ Placed(d) /\ Back(d) = <<>>
    <3>1. "empty" \notin {"text", "hex"}
      OBVIOUS
    <3>2. QED BY <2>1, <3>1, LineShows
  <2>3. <<>> = [k \in 1 .. len |-> b[k - 1]]
    BY <1>3
  <2>4. QED BY <2>2, <2>3 DEF d, max
<1>4. CASE len # 0 /\ printable
  <2>1. d = bun_print_escaped(b, len, max)
    BY <1>4 DEF bun_print_payload_snippet
  <2>2. d.form = "text" /\ Placed(d) /\ Back(d) = [k \in 1 .. len |-> b[k - 1]]
    <3> HIDE DEF d
    <3>1. \A q \in 0 .. len - 1 : b[q] \in Byte
      OBVIOUS
    <3>2. QED BY <1>1, <1>2, <2>1, <3>1, EscapedShows
  <2>3. \A q \in 0 .. len - 1 : b[q] \in Printable \cup {9, 10, 13}
    BY <1>2, <1>4 DEF bun_is_printable_ascii
  <2>4. \A k \in 1 .. len : b[k - 1] \in Printable \cup {9, 10, 13}
    <3> TAKE k \in 1 .. len
    <3>1. k - 1 \in 0 .. len - 1
      OBVIOUS
    <3>2. QED BY <2>3, <3>1
  <2> HIDE DEF d
  <2>5. QED BY <2>2, <2>4 DEF d, max
<1>5. CASE len # 0 /\ ~printable
  <2>1. d = bun_hex_dump(b, len, max)
    BY <1>5 DEF bun_print_payload_snippet
  <2> HIDE DEF d
  <2>2. \A q \in 0 .. len - 1 : b[q] \in Nat
    BY DEF Byte
  <2>3. d.form = "hex" /\ Dumped(d.lines) = [k \in 1 .. len |-> b[k - 1]] /\ Placed(d)
    BY <1>1, <1>2, <2>1, <2>2, HexReadsBack DEF Placed
  <2>4. Back(d) = [k \in 1 .. len |-> b[k - 1]]
    BY <2>3 DEF Back
  <2>5. d.form # "text"
    BY <2>3
  <2>6. QED BY <2>3, <2>4, <2>5 DEF d, max
<1>6. QED BY <1>3, <1>4, <1>5

-----------------------------------------------------------------------------
(* The invariant. What there is to show does not change in a call.          *)

\* Neither the content nor the limit changes.
LEMMA ArgsKept ==
  ASSUME UNCHANGED Args
  PROVE  Content' = Content /\ Limit' = Limit
BY DEF Args, Content, Limit, Raw, Expanded

\* Before anything is shown there is nothing to be wrong.
LEMMA NothingShown ==
  ASSUME shown = Line("nothing")
  PROVE  Faithful /\ TextClean
<1>1. shown.form = "nothing"
  BY LineShows
<1>2. QED BY <1>1 DEF Faithful, TextClean

\* A placeholder for something else than an empty payload claims nothing.
LEMMA PlaceholderFaithful ==
  ASSUME NEW form, form \notin {"text", "hex", "empty"}, shown' = Line(form)
  PROVE  Faithful' /\ TextClean'
<1>1. shown'.form = form
  BY LineShows
<1>2. QED BY <1>1 DEF Faithful, TextClean

\* Printing the first bytes of the content, up to the limit, is faithful.
LEMMA ShownFaithful ==
  ASSUME Content \in Seq(Nat), UNCHANGED Args, Limit \in Nat,
         NEW b, NEW n \in Nat, n = AtMost(Limit, Len(Content)),
         \A q \in 0 .. n - 1 : b[q] = Content[q + 1],
         Back(shown') = [k \in 1 .. n |-> b[k - 1]], Placed(shown')
  PROVE  Faithful'
<1>1. ReadBack' = Back(shown')
  BY DEF ReadBack, Back
<1>2. [k \in 1 .. n |-> b[k - 1]] = FirstBytes(Content, Limit)
  BY FirstBytesShown
<1>3. \A t \in DOMAIN shown'.lines :
        shown'.lines[t].at = Len(Dumped(SubSeq(shown'.lines, 1, t - 1)))
  BY DEF Placed
<1>4. Content' = Content /\ Limit' = Limit
  BY ArgsKept
<1>5. ReadBack' = FirstBytes(Content', Limit')
  BY <1>1, <1>2, <1>4
<1>6. QED BY <1>3, <1>5 DEF Faithful

\* Showing clean bytes only is clean.
LEMMA ShownClean ==
  ASSUME NEW b, NEW n \in Nat, Back(shown') = [k \in 1 .. n |-> b[k - 1]],
         shown'.form = "text" =>
           \A k \in 1 .. n : b[k - 1] \in Printable \cup {9, 10, 13}
  PROVE  TextClean'
<1>1. ReadBack' = Back(shown')
  BY DEF ReadBack, Back
<1>2. QED BY <1>1 DEF TextClean

\* As it begins: nothing read, written or shown.
LEMMA InvariantInit == Init => SnippetInvariant
<1>1. SUFFICES ASSUME Init PROVE SnippetInvariant
  OBVIOUS
<1>2. PICK s \in Shows : file = s.file /\ rec = s.rec
  BY <1>1 DEF Init
<1>3. IsFile(file) /\ rec \in BunAssetRecord /\ CountsFit(file, rec)
  BY <1>2, SnippetAssumption, CountAssumption
<1>4. /\ which \in {"name", "payload"} /\ phase = "enter"
      /\ want = 0 /\ out_pos = 0 /\ i = 0 /\ j = 0 /\ shown = Line("nothing")
  BY <1>1 DEF Init
<1>5. /\ DOMAIN input = 0 .. (IF which = "name" THEN NAME_SNIPPET_BYTES
                              ELSE 2 * PAYLOAD_SNIPPET_BYTES) - 1
      /\ DOMAIN decoded = 0 .. PAYLOAD_SNIPPET_BYTES - 1
  BY <1>1 DEF Init
<1>6. U8_MAX \in Nat /\ PAYLOAD_SNIPPET_BYTES \in Nat
  BY SnippetAssumption
<1>7. SnippetType
  BY <1>3, <1>4, <1>5, <1>6 DEF SnippetType
<1>8. Decoder /\ DecodedSoFar
  BY <1>4 DEF Decoder, DecodedSoFar
<1>9. Faithful /\ TextClean
  BY <1>4, NothingShown
<1>10. QED BY <1>4, <1>7, <1>8, <1>9 DEF SnippetInvariant

\* The name.
LEMMA NameStep == SnippetInvariant /\ Name => SnippetInvariant'
<1>1. SUFFICES ASSUME SnippetInvariant, Name PROVE SnippetInvariant'
  OBVIOUS
<1> DEFINE start == NameStart(file.header, rec).out
           n == AtMost(rec.name_length, NAME_SNIPPET_BYTES)
<1>2. /\ SnippetType /\ phase = "enter" /\ which = "name" /\ phase' = "done"
      /\ UNCHANGED Args /\ UNCHANGED <<decoded, out_pos, i, j>>
      /\ want = 0
  BY <1>1 DEF Name, SnippetInvariant, Placeholder, Show
<1>3. /\ start \in Nat /\ rec.name_length \in Nat /\ IsFile(file)
      /\ NAME_SNIPPET_BYTES \in Nat
  BY <1>2, StartTypes, FieldTypes, SnippetAssumption DEF SnippetType, IsFile
<1>4. n \in Nat /\ n <= rec.name_length
  BY <1>3 DEF AtMost
<1>5. \/ \E form \in {"not safely readable", "read failed"} : Placeholder(form)
      \/ Fill(start, n) /\ Show(bun_print_escaped(input', rec.name_length, NAME_SNIPPET_BYTES))
  BY <1>1 DEF Name
<1>6. Faithful' /\ TextClean' /\ want' \in Nat /\ DOMAIN input' = DOMAIN input
  <2>1. ASSUME NEW form \in {"not safely readable", "read failed"}, Placeholder(form)
        PROVE  Faithful' /\ TextClean' /\ want' \in Nat /\ DOMAIN input' = DOMAIN input
    <3>1. shown' = Line(form) /\ form \notin {"text", "hex", "empty"} /\ UNCHANGED <<input, want>>
      BY <2>1 DEF Placeholder, Show
    <3>2. QED BY <1>2, <3>1, PlaceholderFaithful
  <2>2. ASSUME Fill(start, n), Show(bun_print_escaped(input', rec.name_length, NAME_SNIPPET_BYTES))
        PROVE  Faithful' /\ TextClean' /\ want' \in Nat /\ DOMAIN input' = DOMAIN input
    <3>1. want' = n /\ DOMAIN input' = DOMAIN input
          /\ \A k \in 0 .. n - 1 : input'[k] = ByteAt(file, start + k)
      <4>1. DOMAIN input = 0 .. NAME_SNIPPET_BYTES - 1
        BY <1>2 DEF SnippetType
      <4>2. \A k \in 0 .. n - 1 : k \in DOMAIN input /\ k < n
        BY <1>3, <1>4, <4>1 DEF AtMost
      <4>3. QED BY <2>2, <4>2 DEF Fill
    <3>2. /\ Content = Raw(start, rec.name_length) /\ Limit = NAME_SNIPPET_BYTES
          /\ Content \in Seq(Nat) /\ Len(Content) = rec.name_length
      BY <1>2, <1>3, RawIs DEF Content, Limit
    <3>3. \A q \in 0 .. n - 1 : input'[q] = Content[q + 1] /\ input'[q] \in Byte
      <4> TAKE q \in 0 .. n - 1
      <4>1. q \in 0 .. rec.name_length - 1
        BY <1>3, <1>4
      <4>2. Content[q + 1] = ByteAt(file, start + q)
        BY <1>3, <3>2, <4>1, RawIs
      <4>3. QED BY <1>3, <3>1, <4>2, ByteAtType DEF Byte
    <3> DEFINE d == bun_print_escaped(input', rec.name_length, NAME_SNIPPET_BYTES)
    <3>4. shown' = d
      BY <2>2 DEF Show
    <3>5. d.form = "text" /\ Placed(d) /\ Back(d) = [k \in 1 .. n |-> input'[k - 1]]
      <4>1. \A q \in 0 .. n - 1 : input'[q] \in Byte
        BY <3>3
      <4>2. n = AtMost(rec.name_length, NAME_SNIPPET_BYTES)
        OBVIOUS
      <4> DEFINE len == rec.name_length
                 max == NAME_SNIPPET_BYTES
                 b == input'
      <4>3. len \in Nat /\ max \in Nat /\ n = AtMost(len, max) /\ \A q \in 0 .. n - 1 : b[q] \in Byte
        BY <1>3, <4>1, <4>2
      <4> HIDE DEF n, len, max, b
      <4>4. LET e == bun_print_escaped(b, len, max) IN
            e.form = "text" /\ Placed(e) /\ Back(e) = [k \in 1 .. n |-> b[k - 1]]
        BY <4>3, EscapedShows
      <4>5. QED BY <4>4 DEF len, max, b
    <3> HIDE DEF d
    <3>6. n = AtMost(Limit, Len(Content))
      BY <1>3, <3>2 DEF AtMost
    <3> HIDE DEF n
    <3>7. Faithful'
      BY <1>2, <1>3, <1>4, <3>2, <3>3, <3>4, <3>5, <3>6, ShownFaithful
    <3>8. TextClean'
      BY <1>2 DEF TextClean, Args
    <3>9. QED BY <1>4, <3>1, <3>7, <3>8
  <2>3. QED BY <1>5, <2>1, <2>2
<1>7. SnippetType'
  BY <1>2, <1>6 DEF SnippetType, Args
<1>8. QED BY <1>2, <1>6, <1>7 DEF SnippetInvariant, Decoder, DecodedSoFar

\* A buffer that holds the first bytes of the content is as DecodedSoFar has it.
LEMMA DecodedNext ==
  ASSUME Content \in Seq(Nat), UNCHANGED Args,
         DOMAIN decoded' = 0 .. PAYLOAD_SNIPPET_BYTES - 1,
         phase' = "run" => i' + 1 < want',
         out_pos' \in Nat, out_pos' <= Len(Content),
         \A q \in 0 .. out_pos' - 1 : decoded'[q] = Content[q + 1]
  PROVE  DecodedSoFar'
<1> DEFINE n == out_pos'
           b == decoded'
<1>1. n \in Nat /\ n = AtMost(n, Len(Content)) /\ \A q \in 0 .. n - 1 : b[q] = Content[q + 1]
  <2>1. n \in Nat /\ n <= Len(Content) /\ \A q \in 0 .. n - 1 : b[q] = Content[q + 1]
    OBVIOUS
  <2>2. Len(Content) \in Nat
    BY LenProperties
  <2> HIDE DEF n, b
  <2>3. QED BY <2>1, <2>2 DEF AtMost
<1> HIDE DEF n, b
<1>2. [k \in 1 .. n |-> b[k - 1]] = FirstBytes(Content, n)
  BY <1>1, FirstBytesShown
<1>3. Content' = Content
  BY ArgsKept
<1>4. [k \in 1 .. n |-> b[k - 1]] = FirstBytes(Content', n)
  BY <1>2, <1>3
<1>5. [k \in 1 .. out_pos' |-> decoded'[k - 1]] = FirstBytes(Content', out_pos')
  BY <1>4 DEF n, b
<1>6. QED BY <1>5 DEF DecodedSoFar

\* What a payload fills the buffer with.
LEMMA Filled ==
  ASSUME SnippetType, which = "payload", NEW start, NEW n \in Nat,
         n <= 2 * PAYLOAD_SNIPPET_BYTES, Fill(start, n)
  PROVE  /\ want' = n /\ DOMAIN input' = DOMAIN input
         /\ \A k \in 0 .. n - 1 : input'[k] = ByteAt(file, start + k)
<1>1. DOMAIN input = 0 .. 2 * PAYLOAD_SNIPPET_BYTES - 1
  BY DEF SnippetType
<1>2. PAYLOAD_SNIPPET_BYTES \in Nat
  BY SnippetAssumption
<1>3. \A k \in 0 .. n - 1 : k \in DOMAIN input /\ k < n
  BY <1>1, <1>2
<1>4. QED BY <1>3 DEF Fill

\* An empty payload has nothing to show.
LEMMA EmptyContent ==
  ASSUME SnippetType, which = "payload", rec.data_size = 0
  PROVE  Len(Content) = 0
<1> DEFINE start == DataStart(file.header, rec).out
<1>1. start \in Nat /\ 0 \in Nat /\ IsFile(file)
  BY StartTypes DEF SnippetType, IsFile
<1>2. CASE rec.compression = BUN_COMPRESSION_RLE
  <2>1. Content = Expanded(start, 0)
    BY <1>2 DEF Content
  <2> HIDE DEF start
  <2>2. Live(file, start, 0, 0)
    BY DEF Live
  <2>3. Len(Expanded(start, 0)) = Counts(file, start, 0)
    BY <1>1, <2>2, ExpandedIs
  <2>4. QED BY <1>1, <2>1, <2>3, CountsSteps
<1>3. CASE rec.compression # BUN_COMPRESSION_RLE
  BY <1>1, <1>3, RawIs DEF Content
<1>4. QED BY <1>2, <1>3

\* The payload.
LEMMA PayloadStep == SnippetInvariant /\ Payload => SnippetInvariant'
<1>1. SUFFICES ASSUME SnippetInvariant, Payload PROVE SnippetInvariant'
  OBVIOUS
<1> DEFINE start == DataStart(file.header, rec).out
           max == PAYLOAD_SNIPPET_BYTES
           n == SnippetInput
<1>2. /\ SnippetType /\ phase = "enter" /\ which = "payload"
      /\ UNCHANGED Args /\ UNCHANGED <<decoded, out_pos, i, j>>
      /\ want = 0 /\ out_pos = 0 /\ i = 0 /\ shown = Line("nothing")
  BY <1>1 DEF Payload, SnippetInvariant
<1>3. /\ start \in Nat /\ rec.data_size \in Nat /\ IsFile(file)
      /\ max \in Nat /\ max # 0
  BY <1>2, StartTypes, FieldTypes, SnippetAssumption DEF SnippetType, IsFile
<1>4. Content \in Seq(Nat) /\ Len(Content) \in Nat /\ Limit = max
  BY <1>2, ContentType DEF Limit
<1>5. n \in Nat /\ n <= 2 * max /\ n <= rec.data_size
  BY <1>3 DEF SnippetInput, AtMost
<1> DEFINE Rest == /\ phase' \in {"done", "pairs"} /\ want' \in Nat /\ DOMAIN input' = DOMAIN input
                   /\ Faithful' /\ TextClean'
                   /\ phase' # "done" => Decoder' /\ DecodedSoFar' /\ shown' = Line("nothing")
<1>6. ASSUME NEW form \in {"not safely readable", "unsupported compression", "read failed"},
             Placeholder(form)
      PROVE  Rest
  <2>1. /\ phase' = "done" /\ shown' = Line(form) /\ form \notin {"text", "hex", "empty"}
        /\ UNCHANGED <<input, want>>
    BY <1>6 DEF Placeholder, Show
  <2>2. Faithful' /\ TextClean'
    BY <2>1, PlaceholderFaithful
  <2>3. QED BY <1>2, <2>1, <2>2
<1>7. ASSUME rec.data_size = 0, Placeholder("empty")
      PROVE  Rest
  <2>1. phase' = "done" /\ shown' = Line("empty") /\ UNCHANGED <<input, want>>
    BY <1>7 DEF Placeholder, Show
  <2>2. Len(Content) = 0
    BY <1>2, <1>7, EmptyContent
  <2> DEFINE d == Line("empty")
  <2>3. d.form = "empty" /\ Placed(d) /\ Back(d) = <<>>
    <3>1. "empty" \notin {"text", "hex"}
      OBVIOUS
    <3>2. QED BY <3>1, LineShows
  <2> HIDE DEF d
  <2>4. Back(d) = [k \in 1 .. 0 |-> decoded[k - 1]]
    BY <2>3
  <2>5. 0 \in Nat /\ 0 = AtMost(Limit, Len(Content)) /\ \A q \in 0 .. 0 - 1 : decoded[q] = Content[q + 1]
    BY <1>3, <1>4, <2>2 DEF AtMost
  <2>6. Faithful'
    BY <1>2, <1>3, <1>4, <2>1, <2>3, <2>4, <2>5, ShownFaithful DEF d
  <2>7. TextClean'
    BY <2>1, <2>3 DEF TextClean, d
  <2>8. QED BY <1>2, <2>1, <2>6, <2>7
<1>8. ASSUME rec.compression = BUN_COMPRESSION_RLE, Fill(start, n),
             phase' = "pairs", UNCHANGED shown
      PROVE  Rest
  <2>1. /\ want' = n /\ DOMAIN input' = DOMAIN input
        /\ \A k \in 0 .. n - 1 : input'[k] = ByteAt(file, start + k)
    BY <1>2, <1>5, <1>8, Filled
  <2>2. Faithful' /\ TextClean'
    <3>1. (shown = Line("nothing") => Faithful /\ TextClean)'
      BY NothingShown, PTL
    <3>2. QED BY <1>2, <1>8, <3>1 DEF Line, Shown
  <2>3. Decoder'
    <3>1. SnippetInput' = n /\ DataStart(file.header, rec).out' = start
          /\ which' = "payload" /\ rec'.compression = BUN_COMPRESSION_RLE
      BY <1>2, <1>8 DEF SnippetInput, Args
    <3>2. 0 \div 2 = 0 /\ 0 % 2 = 0
      OBVIOUS
    <3>3. Counts(file', start, 0) = 0 /\ AtMost(0, max) = 0
      BY <1>2, <1>3, CountsSteps DEF AtMost, Args
    <3>4. \A p \in 0 .. 0 - 1 : FALSE
      OBVIOUS
    <3>5. QED BY <1>2, <1>8, <2>1, <3>1, <3>2, <3>3, <3>4 DEF Decoder, Args
  <2>4. DecodedSoFar'
    <3>1. \A q \in 0 .. out_pos' - 1 : decoded'[q] = Content[q + 1]
      BY <1>2
    <3>2. DOMAIN decoded' = 0 .. PAYLOAD_SNIPPET_BYTES - 1
      BY <1>2 DEF SnippetType
    <3>3. out_pos' \in Nat /\ out_pos' <= Len(Content) /\ (phase' = "run" => i' + 1 < want')
      BY <1>2, <1>4, <1>8
    <3>4. QED BY <1>2, <1>4, <3>1, <3>2, <3>3, DecodedNext
  <2>5. QED BY <1>2, <1>5, <1>8, <2>1, <2>2, <2>3, <2>4 DEF Line, Shown
<1>9. ASSUME rec.compression # BUN_COMPRESSION_RLE, Fill(start, n),
             Show(bun_print_payload_snippet(input', want', max))
      PROVE  Rest
  <2>1. /\ want' = n /\ DOMAIN input' = DOMAIN input
        /\ \A k \in 0 .. n - 1 : input'[k] = ByteAt(file, start + k)
    BY <1>2, <1>5, <1>9, Filled
  <2>2. /\ Content = Raw(start, rec.data_size) /\ Len(Content) = rec.data_size
    BY <1>2, <1>3, <1>9, RawIs DEF Content
  <2>3. n = AtMost(max, Len(Content)) /\ n <= max
    BY <1>3, <1>9, <2>2 DEF SnippetInput, AtMost
  <2> DEFINE b == input'
             m == n
  <2>4. \A q \in 0 .. m - 1 : b[q] = Content[q + 1] /\ b[q] \in Byte
    <3> TAKE q \in 0 .. m - 1
    <3>1. q \in 0 .. rec.data_size - 1
      BY <1>3, <1>5
    <3>2. Content[q + 1] = ByteAt(file, start + q)
      BY <1>3, <2>2, <3>1, RawIs
    <3>3. QED BY <1>3, <2>1, <3>2, ByteAtType DEF Byte
  <2>5. m \in 0 .. PAYLOAD_SNIPPET_BYTES /\ m \in Nat /\ m = AtMost(Limit, Len(Content))
    BY <1>4, <1>5, <2>3
  <2> DEFINE d == bun_print_payload_snippet(b, m, PAYLOAD_SNIPPET_BYTES)
  <2>6. shown' = d /\ phase' = "done"
    BY <1>9, <2>1 DEF Show
  <2> HIDE DEF b, m
  <2>7. /\ d.form \in {"text", "hex", "empty"} /\ Placed(d)
        /\ Back(d) = [k \in 1 .. m |-> b[k - 1]]
        /\ d.form = "text" =>
             \A k \in 1 .. m : b[k - 1] \in Printable \cup {9, 10, 13}
    BY <2>4, <2>5, PayloadShows
  <2> HIDE DEF d
  <2>8. Faithful'
    BY <1>2, <1>3, <1>4, <2>4, <2>5, <2>6, <2>7, ShownFaithful
  <2>9. TextClean'
    BY <2>5, <2>6, <2>7, ShownClean
  <2>10. QED BY <1>5, <2>1, <2>6, <2>8, <2>9
<1>10. \/ \E form \in {"not safely readable", "unsupported compression", "read failed"} :
            Placeholder(form)
       \/ rec.data_size = 0 /\ Placeholder("empty")
       \/ rec.compression = BUN_COMPRESSION_RLE /\ Fill(start, n) /\ phase' = "pairs" /\ UNCHANGED shown
       \/ rec.compression # BUN_COMPRESSION_RLE /\ Fill(start, n)
          /\ Show(bun_print_payload_snippet(input', want', max))
  BY <1>1 DEF Payload
<1> HIDE DEF Rest
<1>11. Rest
  BY <1>6, <1>7, <1>8, <1>9, <1>10
<1>12. SnippetType'
  BY <1>2, <1>11 DEF SnippetType, Args, Rest
<1>13. QED BY <1>2, <1>11, <1>12 DEF SnippetInvariant, Decoder, DecodedSoFar, Rest

-----------------------------------------------------------------------------
(* The decoder.                                                             *)

From == DataStart(file.header, rec).out
Pair == i \div 2
Taken == Counts(file, From, Pair)

\* What the buffer holds of the payload.
LEMMA BufferHolds ==
  ASSUME SnippetType, Decoder, phase \in {"pairs", "run", "decoded"}
  PROVE  /\ IsFile(file) /\ From \in Nat /\ rec.data_size \in Nat
         /\ want \in Nat /\ want <= rec.data_size
         /\ want = rec.data_size \/ want = 2 * PAYLOAD_SNIPPET_BYTES
         /\ Content = Expanded(From, rec.data_size)
         /\ i \in Nat /\ Pair \in Nat /\ i = 2 * Pair /\ Taken \in Nat
         /\ \A k \in 0 .. want - 1 : input[k] = ByteAt(file, From + k)
         /\ \A p \in 0 .. Pair - 1 :
              2 * p + 1 < want /\ ByteAt(file, From + 2 * p) # 0
<1>1. /\ From \in Nat /\ rec.data_size \in Nat /\ IsFile(file)
      /\ PAYLOAD_SNIPPET_BYTES \in Nat /\ i \in Nat
  BY StartTypes, FieldTypes, SnippetAssumption DEF SnippetType, IsFile, From
<1>2. /\ which = "payload" /\ rec.compression = BUN_COMPRESSION_RLE
      /\ want = SnippetInput /\ i % 2 = 0
      /\ \A k \in 0 .. want - 1 : input[k] = ByteAt(file, From + k)
      /\ \A p \in 0 .. Pair - 1 : 2 * p + 1 < want /\ ByteAt(file, From + 2 * p) # 0
  BY DEF Decoder, From, Pair
<1>3. want = AtMost(rec.data_size, 2 * PAYLOAD_SNIPPET_BYTES)
  BY <1>2 DEF SnippetInput
<1>4. /\ want \in Nat /\ want <= rec.data_size
      /\ want = rec.data_size \/ want = 2 * PAYLOAD_SNIPPET_BYTES
  BY <1>1, <1>3 DEF AtMost
<1>5. Pair \in Nat /\ i = 2 * Pair
  BY <1>1, <1>2 DEF Pair
<1>6. Taken \in Nat
  BY <1>1, <1>5, CountsSteps DEF Taken
<1>7. Content = Expanded(From, rec.data_size)
  BY <1>2 DEF Content, From
<1>8. QED BY <1>1, <1>2, <1>4, <1>5, <1>6, <1>7

\* The pairs taken are among those that Content writes out; at the end of the
\* buffer there are no more, or they fill what is shown.
LEMMA TakenAll ==
  ASSUME SnippetType, Decoder, phase \in {"pairs", "run", "decoded"}
  PROVE  /\ Content \in Seq(Nat) /\ Len(Content) \in Nat /\ Taken <= Len(Content)
         /\ ~(i + 1 < want) => Taken = Len(Content) \/ PAYLOAD_SNIPPET_BYTES <= Taken
<1> DEFINE n == rec.data_size
           h == n \div 2
<1>1. /\ IsFile(file) /\ From \in Nat /\ n \in Nat
      /\ want \in Nat /\ want <= n /\ (want = n \/ want = 2 * PAYLOAD_SNIPPET_BYTES)
      /\ Content = Expanded(From, n)
      /\ i \in Nat /\ Pair \in Nat /\ i = 2 * Pair /\ Taken \in Nat
      /\ \A p \in 0 .. Pair - 1 :
           2 * p + 1 < want /\ ByteAt(file, From + 2 * p) # 0
  BY BufferHolds
<1> HIDE DEF n
<1>2. PICK m \in Nat : Live(file, From, n, m)
  BY <1>1, LiveExists
<1>3. /\ Content \in Seq(Nat) /\ Len(Content) = Counts(file, From, m)
      /\ Len(Content) \in Nat
  BY <1>1, <1>2, ExpandedIs, CountsSteps
<1>4. h \in Nat /\ m <= h /\ (m < h => ByteAt(file, From + 2 * m) = 0)
  BY <1>1, <1>2 DEF Live
<1>5. Pair <= h
  <2>1. CASE Pair = 0
    BY <1>4, <2>1
  <2>2. CASE Pair # 0
    <3>1. Pair - 1 \in 0 .. Pair - 1
      BY <1>1, <2>2
    <3>2. 2 * (Pair - 1) + 1 < want
      BY <1>1, <3>1
    <3>3. QED BY <1>1, <3>2
  <2>3. QED BY <2>1, <2>2
<1> HIDE DEF h
<1>6. Pair <= m
  <2>1. SUFFICES ASSUME ~(Pair <= m) PROVE FALSE
    OBVIOUS
  <2>2. m \in 0 .. Pair - 1 /\ m < h
    BY <1>1, <1>4, <1>5, <2>1
  <2>3. ByteAt(file, From + 2 * m) # 0
    BY <1>1, <2>2
  <2>4. QED BY <1>4, <2>2, <2>3
<1>7. Taken <= Len(Content)
  BY <1>1, <1>3, <1>6, CountsMonotone DEF Taken
<1>8. ASSUME ~(i + 1 < want)
      PROVE  Taken = Len(Content) \/ PAYLOAD_SNIPPET_BYTES <= Taken
  <2>1. CASE want = n
    <3>1. Pair = h
      <4>1. h <= Pair
        BY <1>1, <1>8, <2>1 DEF h
      <4>2. QED BY <1>1, <1>4, <1>5, <4>1
    <3>2. Pair = m
      BY <1>1, <1>4, <1>6, <3>1
    <3>3. QED BY <1>3, <3>2 DEF Taken
  <2>2. CASE want = 2 * PAYLOAD_SNIPPET_BYTES
    <3>1. PAYLOAD_SNIPPET_BYTES \in Nat
      BY SnippetAssumption
    <3>2. PAYLOAD_SNIPPET_BYTES <= Pair
      BY <1>1, <1>8, <2>2, <3>1
    <3>3. Pair <= Taken
      BY <1>1, CountsAtLeast DEF Taken
    <3>4. QED BY <1>1, <3>1, <3>2, <3>3
  <2>3. QED BY <1>1, <2>1, <2>2
<1>9. QED BY <1>3, <1>7, <1>8

\* The pair that is next: with a count of zero, it ends the content; else the
\* content goes on with its byte, as often as it counts.
LEMMA NextPair ==
  ASSUME SnippetType, Decoder, phase \in {"pairs", "run"}, i + 1 < want
  PROVE  /\ input[i] \in 0 .. U8_MAX
         /\ Counts(file, From, Pair + 1) = Taken + input[i]
         /\ input[i] = ByteAt(file, From + 2 * Pair)
         /\ input[i] = 0 => Taken = Len(Content)
         /\ input[i] # 0 => /\ Taken + input[i] <= Len(Content)
                            /\ \A k \in 1 .. input[i] : Content[Taken + k] = input[i + 1]
<1> DEFINE n == rec.data_size
           h == n \div 2
<1>1. /\ IsFile(file) /\ From \in Nat /\ n \in Nat
      /\ want \in Nat /\ want <= n /\ Content = Expanded(From, n)
      /\ i \in Nat /\ Pair \in Nat /\ i = 2 * Pair /\ Taken \in Nat
      /\ \A k \in 0 .. want - 1 : input[k] = ByteAt(file, From + k)
      /\ \A p \in 0 .. Pair - 1 : ByteAt(file, From + 2 * p) # 0
  BY BufferHolds
<1>2. h \in Nat /\ Pair < h /\ Pair \in 0 .. h - 1
  BY <1>1
<1>3. /\ input[i] = ByteAt(file, From + 2 * Pair)
      /\ input[i + 1] = ByteAt(file, From + 2 * Pair + 1)
  <2>1. i \in 0 .. want - 1 /\ i + 1 \in 0 .. want - 1 /\ From + i = From + 2 * Pair
        /\ From + (i + 1) = From + 2 * Pair + 1
    BY <1>1
  <2>2. QED BY <1>1, <2>1
<1>4. input[i] \in Nat /\ input[i] <= U8_MAX
  <2>1. rec.compression = BUN_COMPRESSION_RLE /\ CountsFit(file, rec)
    BY DEF Decoder, SnippetType
  <2>2. ByteAt(file, From + 2 * Pair) <= U8_MAX
    BY <1>2, <2>1 DEF CountsFit, From
  <2>3. QED BY <1>1, <1>3, <2>2, ByteAtType
<1>5. Counts(file, From, Pair + 1) = Taken + input[i]
  BY <1>1, <1>3, CountsSteps DEF Taken
<1> HIDE DEF n
<1>6. PICK m \in Nat : Live(file, From, n, m)
  BY <1>1, LiveExists
<1>7. /\ Len(Content) = Counts(file, From, m)
      /\ \A p \in 0 .. m - 1 : \A k \in 1 .. ByteAt(file, From + 2 * p) :
           Content[Counts(file, From, p) + k] = ByteAt(file, From + 2 * p + 1)
  BY <1>1, <1>6, ExpandedIs
<1>8. /\ m <= h /\ (m < h => ByteAt(file, From + 2 * m) = 0)
      /\ \A p \in 0 .. m - 1 : ByteAt(file, From + 2 * p) # 0
  BY <1>2, <1>6 DEF Live
<1> HIDE DEF h
<1>9. Pair <= m
  <2>1. SUFFICES ASSUME ~(Pair <= m) PROVE FALSE
    OBVIOUS
  <2>2. m \in 0 .. Pair - 1 /\ m < h
    BY <1>1, <1>2, <1>8, <2>1
  <2>3. QED BY <1>1, <1>8, <2>2
<1>10. ASSUME input[i] = 0 PROVE Taken = Len(Content)
  <2>1. Pair \notin 0 .. m - 1
    BY <1>3, <1>8, <1>10
  <2>2. Pair = m
    BY <1>1, <1>9, <2>1
  <2>3. QED BY <1>7, <2>2 DEF Taken
<1>11. ASSUME input[i] # 0
       PROVE  /\ Taken + input[i] <= Len(Content)
              /\ \A k \in 1 .. input[i] : Content[Taken + k] = input[i + 1]
  <2>1. Pair # m
    BY <1>2, <1>3, <1>8, <1>11
  <2>2. Pair \in 0 .. m - 1 /\ Pair + 1 \in Nat /\ Pair + 1 <= m
    BY <1>1, <1>9, <2>1
  <2>3. Counts(file, From, Pair + 1) <= Counts(file, From, m)
    BY <1>1, <2>2, CountsMonotone
  <2>4. \A k \in 1 .. input[i] : Content[Taken + k] = input[i + 1]
    BY <1>3, <1>7, <2>2 DEF Taken
  <2>5. QED BY <1>5, <1>7, <2>3, <2>4
<1>12. QED BY <1>3, <1>4, <1>5, <1>10, <1>11

\* What the decoder writes are bytes of the file.
LEMMA ContentBytes ==
  ASSUME SnippetType, Decoder, phase \in {"pairs", "run", "decoded"}
  PROVE  \A k \in 1 .. Len(Content) : Content[k] \in Byte
<1>1. /\ IsFile(file) /\ From \in Nat /\ rec.data_size \in Nat
      /\ Content = Expanded(From, rec.data_size)
  BY BufferHolds
<1>2. PICK m \in Nat : Live(file, From, rec.data_size, m)
  BY <1>1, LiveExists
<1>3. QED BY <1>1, <1>2, ExpandedIs

\* What a step of the decoder may use.
LEMMA Decodes ==
  ASSUME SnippetInvariant, phase \in {"pairs", "run", "decoded"}
  PROVE  /\ SnippetType /\ Decoder /\ shown = Line("nothing")
         /\ which = "payload" /\ rec.compression = BUN_COMPRESSION_RLE
         /\ out_pos \in Nat /\ out_pos <= PAYLOAD_SNIPPET_BYTES
         /\ PAYLOAD_SNIPPET_BYTES \in Nat
         /\ out_pos <= Len(Content)
         /\ \A q \in 0 .. out_pos - 1 : decoded[q] = Content[q + 1]
<1>1. /\ SnippetType /\ Decoder /\ DecodedSoFar /\ shown = Line("nothing")
  BY DEF SnippetInvariant
<1>2. PAYLOAD_SNIPPET_BYTES \in Nat
  BY SnippetAssumption
<1>3. out_pos \in Nat /\ out_pos <= PAYLOAD_SNIPPET_BYTES
  BY <1>1, <1>2 DEF SnippetType
<1>4. [k \in 1 .. out_pos |-> decoded[k - 1]] = FirstBytes(Content, out_pos)
  BY <1>1 DEF DecodedSoFar
<1>5. Content \in Seq(Nat)
  BY <1>1, ContentType
<1>6. out_pos <= Len(Content) /\ \A q \in 0 .. out_pos - 1 : decoded[q] = Content[q + 1]
  BY <1>3, <1>4, <1>5, FirstBytesOnly
<1>7. which = "payload" /\ rec.compression = BUN_COMPRESSION_RLE
  BY <1>1 DEF Decoder
<1>8. QED BY <1>1, <1>2, <1>3, <1>6, <1>7

\* What a step of the decoder must show.
LEMMA DecodingKeeps ==
  ASSUME SnippetType, Decoder, phase \in {"pairs", "run", "decoded"},
         shown = Line("nothing"), Decoding,
         phase' \in {"pairs", "run", "decoded"},
         DOMAIN decoded' = DOMAIN decoded, i' \in Nat, j' \in 0 .. U8_MAX,
         out_pos' \in 0 .. PAYLOAD_SNIPPET_BYTES, out_pos' <= Len(Content),
         \A q \in 0 .. out_pos' - 1 : decoded'[q] = Content[q + 1],
         phase' = "run" => i' + 1 < want,
         Decoder'
  PROVE  SnippetInvariant'
<1>1. UNCHANGED Args /\ UNCHANGED <<input, want, shown>>
  BY DEF Decoding
<1>2. SnippetType'
  BY <1>1 DEF SnippetType, Args
<1>3. DecodedSoFar'
  <2>1. Content \in Seq(Nat)
    BY ContentType
  <2>2. DOMAIN decoded' = 0 .. PAYLOAD_SNIPPET_BYTES - 1
    BY DEF SnippetType
  <2>3. out_pos' \in Nat
    BY SnippetAssumption
  <2>4. phase' = "run" => i' + 1 < want'
    BY <1>1
  <2>5. QED BY <1>1, <2>1, <2>2, <2>3, <2>4, DecodedNext
<1>4. Faithful' /\ TextClean'
  <2>1. (shown = Line("nothing") => Faithful /\ TextClean)'
    BY NothingShown, PTL
  <2>2. QED BY <1>1, <2>1 DEF Line, Shown
<1>5. shown' = Line("nothing")
  BY <1>1
<1>6. QED BY <1>2, <1>3, <1>4, <1>5 DEF SnippetInvariant, Line, Shown

\* Decoder, of the next state, where the arguments and the buffer stay: said of
\* the places in the buffer that change.
LEMMA DecoderNext ==
  ASSUME SnippetType, Decoder, phase \in {"pairs", "run", "decoded"}, Decoding,
         NEW h \in Nat, i' = 2 * h,
         \A p \in 0 .. h - 1 : 2 * p + 1 < want /\ ByteAt(file, From + 2 * p) # 0,
         phase' = "pairs" => out_pos' = AtMost(Counts(file, From, h), PAYLOAD_SNIPPET_BYTES),
         phase' = "run" => /\ i' + 1 < want /\ input[i'] # 0
                           /\ j' <= input[i'] /\ out_pos' = Counts(file, From, h) + j',
         phase' = "decoded" => out_pos' = AtMost(Len(Content), PAYLOAD_SNIPPET_BYTES)
  PROVE  Decoder'
<1>1. UNCHANGED Args /\ UNCHANGED <<input, want>>
  BY DEF Decoding
<1>2. i' \div 2 = h /\ i' % 2 = 0
  OBVIOUS
<1>3. /\ which' = "payload" /\ rec'.compression = BUN_COMPRESSION_RLE
      /\ want' = SnippetInput' /\ DataStart(file.header, rec).out' = From /\ file' = file
  BY <1>1 DEF Decoder, SnippetInput, Args, From
<1>4. \A k \in 0 .. want' - 1 : input'[k] = ByteAt(file', From + k)
  BY <1>1, <1>3 DEF Decoder, From
<1>5. Content' = Content
  BY <1>1, ArgsKept
<1>6. QED BY <1>1, <1>2, <1>3, <1>4, <1>5 DEF Decoder

\* The count of the next pair.
LEMMA TakeCountStep == SnippetInvariant /\ TakeCount => SnippetInvariant'
<1>1. SUFFICES ASSUME SnippetInvariant, TakeCount PROVE SnippetInvariant'
  OBVIOUS
<1>2. /\ phase = "pairs" /\ i + 1 < want /\ out_pos < PAYLOAD_SNIPPET_BYTES
      /\ phase' = (IF input[i] = 0 THEN "decoded" ELSE "run") /\ j' = 0
      /\ Decoding /\ UNCHANGED <<decoded, out_pos, i>>
  BY <1>1 DEF TakeCount, MorePairs
<1>3. /\ SnippetType /\ Decoder /\ shown = Line("nothing")
      /\ out_pos \in Nat /\ out_pos <= PAYLOAD_SNIPPET_BYTES
      /\ PAYLOAD_SNIPPET_BYTES \in Nat /\ out_pos <= Len(Content)
      /\ \A q \in 0 .. out_pos - 1 : decoded[q] = Content[q + 1]
  BY <1>1, <1>2, Decodes
<1>4. /\ i \in Nat /\ Pair \in Nat /\ i = 2 * Pair /\ Taken \in Nat
      /\ \A p \in 0 .. Pair - 1 : 2 * p + 1 < want /\ ByteAt(file, From + 2 * p) # 0
  BY <1>2, <1>3, BufferHolds
<1>5. input[i] \in 0 .. U8_MAX /\ (input[i] = 0 => Taken = Len(Content))
  BY <1>2, <1>3, NextPair
<1>6. out_pos = AtMost(Taken, PAYLOAD_SNIPPET_BYTES) /\ out_pos = Taken
  <2>1. out_pos = AtMost(Taken, PAYLOAD_SNIPPET_BYTES)
    BY <1>2, <1>3 DEF Decoder, Taken, From, Pair
  <2>2. QED BY <1>2, <1>3, <1>4, <2>1 DEF AtMost
<1>7. j' \in 0 .. U8_MAX /\ (phase' = "run" => j' <= input[i])
  BY <1>2, <1>5, SnippetAssumption
<1>8. Decoder'
  <2>1. i' = 2 * Pair
    BY <1>2, <1>4
  <2>2. phase' # "pairs"
    BY <1>2
  <2>3. phase' = "run" => /\ i' + 1 < want /\ input[i'] # 0 /\ j' <= input[i']
                          /\ out_pos' = Counts(file, From, Pair) + j'
    BY <1>2, <1>3, <1>6, <1>7 DEF Taken
  <2>4. phase' = "decoded" => out_pos' = AtMost(Len(Content), PAYLOAD_SNIPPET_BYTES)
    BY <1>2, <1>5, <1>6
  <2>5. QED BY <1>2, <1>3, <1>4, <2>1, <2>2, <2>3, <2>4, DecoderNext
<1>9. phase' \in {"pairs", "run", "decoded"} /\ out_pos' \in 0 .. PAYLOAD_SNIPPET_BYTES
  BY <1>2, <1>3
<1>10. QED BY <1>2, <1>3, <1>4, <1>7, <1>8, <1>9, DecodingKeeps

\* A byte of the run.
LEMMA CopyByteStep == SnippetInvariant /\ CopyByte => SnippetInvariant'
<1>1. SUFFICES ASSUME SnippetInvariant, CopyByte PROVE SnippetInvariant'
  OBVIOUS
<1>2. /\ phase = "run" /\ j < input[i] /\ out_pos < PAYLOAD_SNIPPET_BYTES
      /\ out_pos' = out_pos + 1 /\ j' = (j + 1) % (U8_MAX + 1)
      /\ decoded' = [k \in DOMAIN decoded \cup {out_pos} |->
                       IF k = out_pos THEN input[i + 1] ELSE decoded[k]]
      /\ Decoding /\ UNCHANGED <<phase, i>>
  BY <1>1 DEF CopyByte, Copy
<1>3. /\ SnippetType /\ Decoder /\ shown = Line("nothing")
      /\ out_pos \in Nat /\ PAYLOAD_SNIPPET_BYTES \in Nat /\ out_pos <= Len(Content)
      /\ \A q \in 0 .. out_pos - 1 : decoded[q] = Content[q + 1]
  BY <1>1, <1>2, Decodes
<1>4. /\ i \in Nat /\ Pair \in Nat /\ i = 2 * Pair /\ Taken \in Nat
      /\ \A p \in 0 .. Pair - 1 : 2 * p + 1 < want /\ ByteAt(file, From + 2 * p) # 0
  BY <1>2, <1>3, BufferHolds
<1>5. /\ i + 1 < want /\ input[i] # 0 /\ j <= input[i] /\ out_pos = Taken + j
      /\ j \in Nat
  <2>1. /\ i + 1 < want /\ input[i] # 0 /\ j <= input[i]
        /\ out_pos = Counts(file, From, Pair) + j
    <3>1. phase \in {"pairs", "run", "decoded"} /\ phase = "run"
      BY <1>2
    <3>2. QED BY <1>3, <3>1 DEF Decoder, From, Pair
  <2>2. j \in 0 .. U8_MAX /\ U8_MAX \in Nat
    BY <1>3, SnippetAssumption DEF SnippetType
  <2>3. QED BY <2>1, <2>2 DEF Taken
<1>6. /\ input[i] \in 0 .. U8_MAX /\ Taken + input[i] <= Len(Content)
      /\ \A k \in 1 .. input[i] : Content[Taken + k] = input[i + 1]
  <2>1. phase \in {"pairs", "run"} /\ SnippetType /\ Decoder
    BY <1>2, <1>3
  <2>2. QED BY <1>5, <2>1, NextPair
<1>7. Len(Content) \in Nat
  BY <1>3, ContentType
<1>8. j' = j + 1 /\ j' \in 0 .. U8_MAX /\ j' <= input[i]
  <2>1. U8_MAX \in Nat
    BY SnippetAssumption
  <2>2. j + 1 \in 0 .. U8_MAX /\ j + 1 <= input[i]
    <3>1. input[i] \in 0 .. U8_MAX /\ j < input[i] /\ j \in Nat
      BY <1>2, <1>5, <1>6
    <3>2. QED BY <2>1, <3>1
  <2>3. (j + 1) % (U8_MAX + 1) = j + 1
    BY <2>1, <2>2
  <2>4. QED BY <1>2, <2>2, <2>3
<1>9. DOMAIN decoded' = DOMAIN decoded
  <2>1. out_pos \in DOMAIN decoded
    BY <1>2, <1>3 DEF SnippetType
  <2>2. QED BY <1>2, <2>1
<1>10. ASSUME NEW q \in 0 .. out_pos' - 1
       PROVE  decoded'[q] = Content[q + 1]
  <2>1. CASE q = out_pos
    <3>1. decoded'[q] = input[i + 1]
      BY <1>2, <2>1
    <3>2. j + 1 \in 1 .. input[i] /\ Taken + (j + 1) = q + 1
      BY <1>2, <1>4, <1>5, <1>6, <2>1
    <3>3. Content[Taken + (j + 1)] = input[i + 1]
      BY <1>6, <3>2
    <3>4. QED BY <3>1, <3>2, <3>3
  <2>2. CASE q # out_pos
    <3>1. q \in 0 .. out_pos - 1 /\ q \in DOMAIN decoded
      BY <1>2, <1>3, <2>2 DEF SnippetType
    <3>2. decoded'[q] = decoded[q]
      BY <1>2, <2>2, <3>1
    <3>3. QED BY <1>3, <3>1, <3>2
  <2>3. QED BY <2>1, <2>2
<1>11. out_pos' \in 0 .. PAYLOAD_SNIPPET_BYTES /\ out_pos' <= Len(Content)
  <2>1. out_pos + 1 <= Taken + input[i]
    BY <1>2, <1>4, <1>5, <1>6
  <2>2. QED BY <1>2, <1>3, <1>4, <1>6, <1>7, <2>1
<1>12. Decoder'
  <2>1. i' = 2 * Pair
    BY <1>2, <1>4
  <2>2. phase' = "run" => /\ i' + 1 < want /\ input[i'] # 0 /\ j' <= input[i']
                          /\ out_pos' = Counts(file, From, Pair) + j'
    BY <1>2, <1>4, <1>5, <1>8 DEF Taken
  <2>3. phase' = "run"
    BY <1>2
  <2>4. QED BY <1>2, <1>3, <1>4, <2>1, <2>2, <2>3, DecoderNext
<1>13. phase' \in {"pairs", "run", "decoded"} /\ i' \in Nat /\ (phase' = "run" => i' + 1 < want)
  BY <1>2, <1>4, <1>5
<1>14. QED BY <1>2, <1>3, <1>8, <1>9, <1>10, <1>11, <1>12, <1>13, DecodingKeeps

\* The end of a run.
LEMMA RunDoneStep == SnippetInvariant /\ RunDone => SnippetInvariant'
<1>1. SUFFICES ASSUME SnippetInvariant, RunDone PROVE SnippetInvariant'
  OBVIOUS
<1>2. /\ phase = "run" /\ (j >= input[i] \/ out_pos >= PAYLOAD_SNIPPET_BYTES)
      /\ i' = i + 2 /\ phase' = "pairs"
      /\ Decoding /\ UNCHANGED <<decoded, out_pos, j>>
  BY <1>1 DEF RunDone
<1>3. /\ SnippetType /\ Decoder /\ shown = Line("nothing")
      /\ out_pos \in Nat /\ out_pos <= PAYLOAD_SNIPPET_BYTES
      /\ PAYLOAD_SNIPPET_BYTES \in Nat /\ out_pos <= Len(Content)
      /\ \A q \in 0 .. out_pos - 1 : decoded[q] = Content[q + 1]
  BY <1>1, <1>2, Decodes
<1>4. /\ i \in Nat /\ Pair \in Nat /\ i = 2 * Pair /\ Taken \in Nat /\ want \in Nat
      /\ \A p \in 0 .. Pair - 1 : 2 * p + 1 < want /\ ByteAt(file, From + 2 * p) # 0
  BY <1>2, <1>3, BufferHolds
<1>5. /\ i + 1 < want /\ input[i] # 0 /\ j <= input[i] /\ out_pos = Taken + j
      /\ j \in Nat /\ j \in 0 .. U8_MAX
  BY <1>2, <1>3, SnippetAssumption DEF Decoder, SnippetType, Taken, From, Pair
<1>6. /\ input[i] \in Nat /\ input[i] = ByteAt(file, From + 2 * Pair)
      /\ Counts(file, From, Pair + 1) = Taken + input[i]
  BY <1>2, <1>3, <1>5, SnippetAssumption, NextPair
<1>7. out_pos = AtMost(Taken + input[i], PAYLOAD_SNIPPET_BYTES)
  <2> DEFINE c == input[i]
             t == Taken
             max == PAYLOAD_SNIPPET_BYTES
  <2>1. /\ c \in Nat /\ t \in Nat /\ max \in Nat /\ j \in Nat
        /\ j <= c /\ out_pos = t + j /\ out_pos <= max
        /\ j >= c \/ out_pos >= max
    BY <1>2, <1>3, <1>4, <1>5, <1>6
  <2> HIDE DEF c, t, max
  <2>2. out_pos = AtMost(t + c, max)
    BY <2>1 DEF AtMost
  <2>3. QED BY <2>2 DEF c, t, max
<1>8. \A p \in 0 .. (Pair + 1) - 1 : 2 * p + 1 < want /\ ByteAt(file, From + 2 * p) # 0
  <2> TAKE p \in 0 .. (Pair + 1) - 1
  <2>1. CASE p = Pair
    BY <1>4, <1>5, <1>6, <2>1
  <2>2. CASE p # Pair
    <3>1. p \in 0 .. Pair - 1
      BY <1>4, <2>2
    <3>2. QED BY <1>4, <3>1
  <2>3. QED BY <2>1, <2>2
<1>9. Decoder'
  <2>1. i' = 2 * (Pair + 1) /\ Pair + 1 \in Nat
    BY <1>2, <1>4
  <2>2. out_pos' = AtMost(Counts(file, From, Pair + 1), PAYLOAD_SNIPPET_BYTES)
    BY <1>2, <1>6, <1>7
  <2>3. phase' = "pairs"
    BY <1>2
  <2>4. QED BY <1>2, <1>3, <1>8, <2>1, <2>2, <2>3, DecoderNext
<1>10. /\ phase' \in {"pairs", "run", "decoded"} /\ i' \in Nat /\ phase' # "run"
       /\ out_pos' \in 0 .. PAYLOAD_SNIPPET_BYTES /\ j' \in 0 .. U8_MAX
  BY <1>2, <1>3, <1>4, <1>5
<1>11. QED BY <1>2, <1>3, <1>9, <1>10, DecodingKeeps

\* The end of the pairs.
LEMMA PairsDoneStep == SnippetInvariant /\ PairsDone => SnippetInvariant'
<1>1. SUFFICES ASSUME SnippetInvariant, PairsDone PROVE SnippetInvariant'
  OBVIOUS
<1>2. /\ phase = "pairs" /\ ~(i + 1 < want /\ out_pos < PAYLOAD_SNIPPET_BYTES)
      /\ phase' = "decoded" /\ Decoding /\ UNCHANGED <<decoded, out_pos, i, j>>
  BY <1>1 DEF PairsDone, MorePairs
<1>3. /\ SnippetType /\ Decoder /\ shown = Line("nothing")
      /\ out_pos \in Nat /\ out_pos <= PAYLOAD_SNIPPET_BYTES
      /\ PAYLOAD_SNIPPET_BYTES \in Nat /\ out_pos <= Len(Content)
      /\ \A q \in 0 .. out_pos - 1 : decoded[q] = Content[q + 1]
  BY <1>1, <1>2, Decodes
<1>4. /\ i \in Nat /\ Pair \in Nat /\ i = 2 * Pair /\ Taken \in Nat
      /\ \A p \in 0 .. Pair - 1 : 2 * p + 1 < want /\ ByteAt(file, From + 2 * p) # 0
  BY <1>2, <1>3, BufferHolds
<1>5. /\ Len(Content) \in Nat /\ Taken <= Len(Content)
      /\ ~(i + 1 < want) => Taken = Len(Content) \/ PAYLOAD_SNIPPET_BYTES <= Taken
  BY <1>2, <1>3, TakenAll
<1>6. out_pos = AtMost(Taken, PAYLOAD_SNIPPET_BYTES)
  BY <1>2, <1>3 DEF Decoder, Taken, From, Pair
<1>7. out_pos = AtMost(Len(Content), PAYLOAD_SNIPPET_BYTES)
  BY <1>2, <1>3, <1>4, <1>5, <1>6 DEF AtMost
<1>8. Decoder'
  <2>1. i' = 2 * Pair /\ phase' = "decoded"
    BY <1>2, <1>4
  <2>2. out_pos' = AtMost(Len(Content), PAYLOAD_SNIPPET_BYTES)
    BY <1>2, <1>7
  <2>3. QED BY <1>2, <1>3, <1>4, <2>1, <2>2, DecoderNext
<1>9. /\ phase' \in {"pairs", "run", "decoded"} /\ i' \in Nat /\ phase' # "run"
      /\ out_pos' \in 0 .. PAYLOAD_SNIPPET_BYTES /\ j' \in 0 .. U8_MAX
  BY <1>2, <1>3, <1>4 DEF SnippetType
<1>10. QED BY <1>2, <1>3, <1>8, <1>9, DecodingKeeps

\* What was decoded is shown.
LEMMA ShowDecodedStep == SnippetInvariant /\ ShowDecoded => SnippetInvariant'
<1>1. SUFFICES ASSUME SnippetInvariant, ShowDecoded PROVE SnippetInvariant'
  OBVIOUS
<1>2. /\ phase = "decoded" /\ phase' = "done"
      /\ shown' = bun_print_payload_snippet(decoded, out_pos, PAYLOAD_SNIPPET_BYTES)
      /\ UNCHANGED <<input, want, decoded, out_pos, i, j, Args>>
  BY <1>1 DEF ShowDecoded, Show
<1>3. /\ SnippetType /\ Decoder /\ which = "payload" /\ rec.compression = BUN_COMPRESSION_RLE
      /\ out_pos \in Nat /\ out_pos <= PAYLOAD_SNIPPET_BYTES
      /\ PAYLOAD_SNIPPET_BYTES \in Nat /\ out_pos <= Len(Content)
      /\ \A q \in 0 .. out_pos - 1 : decoded[q] = Content[q + 1]
  BY <1>1, <1>2, Decodes
<1>4. out_pos = AtMost(Len(Content), PAYLOAD_SNIPPET_BYTES)
  BY <1>2, <1>3 DEF Decoder
<1>5. Content \in Seq(Nat) /\ Len(Content) \in Nat /\ Limit = PAYLOAD_SNIPPET_BYTES
  BY <1>3, ContentType DEF Limit
<1>6. out_pos = AtMost(Limit, Len(Content)) /\ out_pos \in 0 .. PAYLOAD_SNIPPET_BYTES
  BY <1>3, <1>4, <1>5 DEF AtMost
<1>7. \A q \in 0 .. out_pos - 1 : decoded[q] \in Byte
  <2> TAKE q \in 0 .. out_pos - 1
  <2>1. q + 1 \in 1 .. Len(Content)
    BY <1>3, <1>5
  <2>2. Content[q + 1] \in Byte
    BY <1>2, <1>3, <2>1, ContentBytes
  <2>3. QED BY <1>3, <2>2
<1> DEFINE d == bun_print_payload_snippet(decoded, out_pos, PAYLOAD_SNIPPET_BYTES)
<1>8. /\ Placed(d) /\ Back(d) = [k \in 1 .. out_pos |-> decoded[k - 1]]
      /\ d.form = "text" =>
           \A k \in 1 .. out_pos : decoded[k - 1] \in Printable \cup {9, 10, 13}
  BY <1>6, <1>7, PayloadShows
<1> HIDE DEF d
<1>9. shown' = d /\ UNCHANGED Args
  BY <1>2 DEF d
<1>10. Faithful'
  BY <1>3, <1>5, <1>6, <1>8, <1>9, ShownFaithful
<1>11. TextClean'
  BY <1>3, <1>8, <1>9, ShownClean
<1>12. SnippetType'
  BY <1>2, <1>3 DEF SnippetType, Args
<1>13. QED BY <1>2, <1>10, <1>11, <1>12 DEF SnippetInvariant, Decoder, DecodedSoFar

-----------------------------------------------------------------------------

\* Every call of a printer, whatever the file, the record and the sizes of the
\* buffers, keeps the invariant at every step.
THEOREM SnippetInductive == Spec => []SnippetInvariant
<1>1. SnippetInvariant /\ UNCHANGED vars => SnippetInvariant'
  <2>1. SUFFICES ASSUME SnippetInvariant, UNCHANGED vars PROVE SnippetInvariant'
    OBVIOUS
  <2>2. UNCHANGED Args /\ UNCHANGED <<phase, input, want, decoded, out_pos, i, j, shown>>
    BY <2>1 DEF vars, Args
  <2>3. Content' = Content /\ Limit' = Limit
    BY <2>2, ArgsKept
  <2>4. SnippetType'
    BY <2>1, <2>2 DEF SnippetInvariant, SnippetType, Args
  <2>5. Decoder' /\ DecodedSoFar'
    BY <2>1, <2>2, <2>3 DEF SnippetInvariant, Decoder, DecodedSoFar, SnippetInput, Args
  <2>6. Faithful' /\ TextClean'
    BY <2>1, <2>2, <2>3 DEF SnippetInvariant, Faithful, TextClean, ReadBack, Args
  <2>7. QED BY <2>1, <2>2, <2>4, <2>5, <2>6 DEF SnippetInvariant
<1>2. SnippetInvariant /\ [Next]_vars => SnippetInvariant'
  BY <1>1, NameStep, PayloadStep, TakeCountStep, CopyByteStep, RunDoneStep,
     PairsDoneStep, ShowDecodedStep DEF Next, Step, Returned
<1>3. QED BY <1>2, InvariantInit, PTL DEF Spec

\* rle_decode_prefix never writes outside its buffer, reads only pairs that
\* were read, and has at every step the beginning of the expansion.
THEOREM DecoderStays == Spec => []DecodedSoFar
<1>1. SnippetInvariant => DecodedSoFar
  BY DEF SnippetInvariant
<1>2. QED BY <1>1, SnippetInductive, PTL

\* What is shown is the beginning of the name or payload, and can be read back.
THEOREM SnippetsFaithful == Spec => []Faithful
<1>1. SnippetInvariant => Faithful
  BY DEF SnippetInvariant
<1>2. QED BY <1>1, SnippetInductive, PTL

\* A payload that is shown as text has only characters of text.
THEOREM TextIsClean == Spec => []TextClean
<1>1. SnippetInvariant => TextClean
  BY DEF SnippetInvariant
<1>2. QED BY <1>1, SnippetInductive, PTL

=============================================================================
