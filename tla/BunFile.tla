------------------------------ MODULE BunFile ------------------------------
(* The file on disk as the parser's stdio calls deliver it. Decoding bytes   *)
(* into fields (read_u16_le and its siblings) is a bijection at this level:  *)
(* a file is given by the header it decodes to, the records it decodes to at *)
(* each position, and the bytes of its strings and payloads. Positions not   *)
(* listed hold zeros. The two views meet only in a malformed file whose      *)
(* sections overlap, where the bytes are simply arbitrary.                   *)
EXTENDS BunUtils

Byte == 0 .. 255

IsFile(f) ==
  /\ f.size \in offset_t
  /\ f.header \in BunHeader
  /\ \A p \in DOMAIN f.records : f.records[p] \in BunAssetRecord
  /\ \A p \in DOMAIN f.bytes : f.bytes[p] \in Byte

RecordAt(f, p) == IF p \in DOMAIN f.records THEN f.records[p] ELSE ZeroRecord
ByteAt(f, p) == IF p \in DOMAIN f.bytes THEN f.bytes[p] ELSE 0

\* Bytes an unfailing fread finds from position p on.
Available(f, p) == IF p <= f.size THEN f.size - p ELSE 0

\* The numbers of bytes a read of n at p may deliver: what the file holds of
\* them, or fewer when reads can fail (a device error, or the file truncated
\* after its size was taken).
Deliverable(f, p, n, failing) ==
  LET all == AtMost(n, Available(f, p))
  IN  IF failing THEN 0 .. all ELSE {all}

\* Sum of the count bytes of the first k RLE pairs of a payload at "from".
Counts(f, from, k) ==
  LET sum[j \in 0 .. k] ==
        IF j = 0 THEN 0 ELSE sum[j - 1] + ByteAt(f, from + 2 * (j - 1))
  IN  sum[k]

=============================================================================
