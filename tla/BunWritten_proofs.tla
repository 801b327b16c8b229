------------------------- MODULE BunWritten_proofs --------------------------
(* From what the scripts are given to what the parser prints and answers.     *)
(* What struct.pack writes the parser reads back, for every value of every    *)
(* field, the 64-bit ones included, which TLC cannot reach. What the scripts   *)
(* lay out stands where their headers and records say, so what is printed is  *)
(* what was written, and the exit code is what was asked for.                 *)
EXTENDS BunWritten, BunParse_proofs, FiniteSetTheorems

\* The rest of a number without its two lowest bytes.
High(n) == (n \div BASE) \div BASE

\* The values a field of 2, 4 or 8 bytes can hold.
Word16 == {n \in Nat : n < 65536}
Word32 == {n \in Nat : n < 4294967296}
Word64 == {n \in Nat : n < 18446744073709551616}

\* A number is its lowest digit and the rest.
LEMMA LowestDigit ==
  ASSUME NEW n \in Nat
  PROVE  /\ n \div BASE \in Nat /\ n % BASE \in Byte
         /\ n = (n % BASE) + BASE * (n \div BASE)
BY SMT DEF BASE, Byte

\* Two bytes are written, and they read as the number without its rest.
LEMMA Pack16 ==
  ASSUME NEW n \in Nat
  PROVE  /\ IsBuffer(pack_H(n), 2)
         /\ High(n) \in Nat
         /\ read_u16_le(pack_H(n), 0) + BASE * (BASE * High(n)) = n
         /\ read_u16_le(pack_H(n), 0) \in Word16
<1> DEFINE q == n \div BASE
           a == n % BASE
           b == q % BASE
<1>1. q \in Nat /\ a \in Byte /\ n = a + BASE * q
  BY LowestDigit
<1>2. High(n) \in Nat /\ b \in Byte /\ q = b + BASE * High(n)
  BY <1>1, LowestDigit DEF High
<1>3. pack_H(n) = <<a, b>>
  BY DEF pack_H
<1>4. read_u16_le(pack_H(n), 0) = a + BASE * b
  BY <1>3 DEF read_u16_le
<1>5. IsBuffer(pack_H(n), 2)
  BY <1>1, <1>2, <1>3 DEF IsBuffer
<1> HIDE DEF q, a, b
<1>6. a + BASE * b + BASE * (BASE * High(n)) = n
  BY <1>1, <1>2, SMT DEF BASE, Byte
<1>7. a + BASE * b \in Word16
  <2>1. a + 256 * b < 65536 /\ a + 256 * b \in Nat
    BY <1>1, <1>2, SMT DEF Byte
  <2> QED
    BY <2>1 DEF Word16, BASE
<1> QED
  BY <1>2, <1>4, <1>5, <1>6, <1>7

\* A field of two bytes is read back as it was written.
LEMMA Read16 ==
  ASSUME NEW n \in Word16
  PROVE  IsBuffer(pack_H(n), 2) /\ read_u16_le(pack_H(n), 0) = n
<1>1. n \in Nat
  BY DEF Word16
<1> DEFINE r == read_u16_le(pack_H(n), 0)
<1>2. /\ IsBuffer(pack_H(n), 2)
      /\ r \in Word16 /\ High(n) \in Nat /\ r + BASE * (BASE * High(n)) = n
  BY <1>1, Pack16
<1> HIDE DEF r
<1>3. r = n
  <2>1. n \in Nat /\ r \in Nat /\ n < 65536 /\ r < 65536
    BY <1>2 DEF Word16
  <2> QED
    BY <2>1, <1>2, SMT DEF BASE
<1> QED
  BY <1>2, <1>3 DEF r

-----------------------------------------------------------------------------
(* Reading from a concatenation.                                            *)

\* Lengths add up.
LEMMA Cat ==
  ASSUME NEW n \in Nat, NEW m \in Nat, NEW s, NEW t, IsBuffer(s, n), IsBuffer(t, m)
  PROVE  IsBuffer(s \o t, n + m)
BY DEF IsBuffer

\* A read that ends within the first part does not see the second.
LEMMA ReadFront ==
  ASSUME NEW n \in Nat, NEW m \in Nat, NEW s, NEW t, IsBuffer(s, n), IsBuffer(t, m),
         NEW o \in Nat
  PROVE  /\ o + 2 <= n => read_u16_le(s \o t, o) = read_u16_le(s, o)
         /\ o + 4 <= n => read_u32_le(s \o t, o) = read_u32_le(s, o)
         /\ o + 8 <= n => read_u64_le(s \o t, o) = read_u64_le(s, o)
<1>1. ASSUME NEW k \in Nat, k + 2 <= n
      PROVE  read_u16_le(s \o t, k) = read_u16_le(s, k)
  <2>1. (s \o t)[k + 1] = s[k + 1] /\ (s \o t)[k + 2] = s[k + 2]
    BY <1>1 DEF IsBuffer
  <2> QED
    BY <2>1, Zenon DEF read_u16_le
<1>2. ASSUME NEW k \in Nat, k + 4 <= n
      PROVE  read_u32_le(s \o t, k) = read_u32_le(s, k)
  <2>1. /\ read_u16_le(s \o t, k) = read_u16_le(s, k)
        /\ read_u16_le(s \o t, k + 2) = read_u16_le(s, k + 2)
    BY <1>1, <1>2
  <2> QED
    BY <2>1, Zenon DEF read_u32_le
<1>3. ASSUME o + 8 <= n
      PROVE  read_u64_le(s \o t, o) = read_u64_le(s, o)
  <2>1. /\ read_u32_le(s \o t, o) = read_u32_le(s, o)
        /\ read_u32_le(s \o t, o + 4) = read_u32_le(s, o + 4)
    BY <1>2, <1>3
  <2> QED
    BY <2>1, Zenon DEF read_u64_le
<1> QED
  BY <1>1, <1>2, <1>3

\* A read at the start of the second part sees it alone.
LEMMA ReadRest ==
  ASSUME NEW n \in Nat, NEW m \in Nat, NEW s, NEW t, IsBuffer(s, n), IsBuffer(t, m)
  PROVE  /\ m >= 2 => read_u16_le(s \o t, n) = read_u16_le(t, 0)
         /\ m >= 4 => read_u32_le(s \o t, n) = read_u32_le(t, 0)
         /\ m >= 8 => read_u64_le(s \o t, n) = read_u64_le(t, 0)
<1>1. ASSUME NEW k \in Nat, k + 2 <= m
      PROVE  read_u16_le(s \o t, n + k) = read_u16_le(t, k)
  <2>1. (s \o t)[n + k + 1] = t[k + 1] /\ (s \o t)[n + k + 2] = t[k + 2]
    BY <1>1 DEF IsBuffer
  <2> QED
    BY <2>1, Zenon DEF read_u16_le
<1>2. ASSUME NEW k \in Nat, k + 4 <= m
      PROVE  read_u32_le(s \o t, n + k) = read_u32_le(t, k)
  <2>1. /\ read_u16_le(s \o t, n + k) = read_u16_le(t, k)
        /\ read_u16_le(s \o t, n + (k + 2)) = read_u16_le(t, k + 2)
    BY <1>1, <1>2
  <2>2. n + (k + 2) = n + k + 2
    BY <1>2
  <2> QED
    BY <2>1, <2>2, Zenon DEF read_u32_le
<1>3. ASSUME m >= 8
      PROVE  read_u64_le(s \o t, n) = read_u64_le(t, 0)
  <2>1. /\ read_u32_le(s \o t, n + 0) = read_u32_le(t, 0)
        /\ read_u32_le(s \o t, n + 4) = read_u32_le(t, 4)
    BY <1>2, <1>3
  <2>2. n + 0 = n /\ 0 + 4 = 4
    OBVIOUS
  <2> QED
    BY <2>1, <2>2, Zenon DEF read_u64_le
<1>4. n + 0 = n
  OBVIOUS
<1> QED
  BY <1>1, <1>2, <1>3, <1>4

\* Two halves of a field of four bytes, read together.
LEMMA Halves32 ==
  ASSUME NEW s, NEW t, IsBuffer(s, 2), IsBuffer(t, 2)
  PROVE  /\ IsBuffer(s \o t, 4)
         /\ read_u32_le(s \o t, 0) = read_u16_le(s, 0) + BASE * (BASE * read_u16_le(t, 0))
<1>1. IsBuffer(s \o t, 2 + 2)
  BY Cat
<1>2. read_u16_le(s \o t, 0) = read_u16_le(s, 0)
  BY ReadFront
<1>3. read_u16_le(s \o t, 2) = read_u16_le(t, 0)
  BY ReadRest
<1> QED
  BY <1>1, <1>2, <1>3 DEF read_u32_le

\* The same of a field of eight bytes.
LEMMA Halves64 ==
  ASSUME NEW s, NEW t, IsBuffer(s, 4), IsBuffer(t, 4)
  PROVE  /\ IsBuffer(s \o t, 8)
         /\ read_u64_le(s \o t, 0)
              = read_u32_le(s, 0) + BASE * (BASE * (BASE * (BASE * read_u32_le(t, 0))))
<1>1. IsBuffer(s \o t, 4 + 4)
  BY Cat
<1>2. read_u32_le(s \o t, 0) = read_u32_le(s, 0)
  BY ReadFront
<1>3. read_u32_le(s \o t, 4) = read_u32_le(t, 0)
  BY ReadRest
<1> QED
  BY <1>1, <1>2, <1>3 DEF read_u64_le

-----------------------------------------------------------------------------
(* Four and eight bytes.                                                    *)

\* Four bytes are written, and they read as the number without its rest.
LEMMA Pack32 ==
  ASSUME NEW n \in Nat
  PROVE  /\ IsBuffer(pack_I(n), 4)
         /\ High(High(n)) \in Nat
         /\ read_u32_le(pack_I(n), 0) \in Nat
         /\ read_u32_le(pack_I(n), 0)
              + BASE * (BASE * (BASE * (BASE * High(High(n))))) = n
<1> DEFINE low == read_u16_le(pack_H(n), 0)
           mid == read_u16_le(pack_H(High(n)), 0)
<1>1. /\ IsBuffer(pack_H(n), 2) /\ High(n) \in Nat
      /\ low \in Word16 /\ low + BASE * (BASE * High(n)) = n
  BY Pack16
<1>2. /\ IsBuffer(pack_H(High(n)), 2)
      /\ High(High(n)) \in Nat
      /\ mid \in Word16 /\ mid + BASE * (BASE * High(High(n))) = High(n)
  BY <1>1, Pack16
<1>3. pack_I(n) = pack_H(n) \o pack_H(High(n))
  BY DEF pack_I, High
<1>4. /\ IsBuffer(pack_I(n), 4)
      /\ read_u32_le(pack_I(n), 0) = low + BASE * (BASE * mid)
  BY <1>1, <1>2, <1>3, Halves32, Zenon
<1> HIDE DEF low, mid
<1>5. low \in Nat /\ mid \in Nat
  BY <1>1, <1>2 DEF Word16
<1>6. /\ low + BASE * (BASE * mid) \in Nat
      /\ low + BASE * (BASE * mid)
           + BASE * (BASE * (BASE * (BASE * High(High(n))))) = n
  BY <1>1, <1>2, <1>5, SMT DEF BASE
<1> QED
  BY <1>2, <1>4, <1>6, Zenon

\* A field of four bytes is read back as it was written.
LEMMA Read32 ==
  ASSUME NEW n \in Word32
  PROVE  /\ IsBuffer(pack_I(n), 4)
         /\ read_u32_le(pack_I(n), 0) = n
<1> DEFINE r == read_u32_le(pack_I(n), 0)
<1>1. n \in Nat /\ n < 4294967296
  BY DEF Word32
<1>2. /\ IsBuffer(pack_I(n), 4)
      /\ r \in Nat /\ High(High(n)) \in Nat
      /\ r + BASE * (BASE * (BASE * (BASE * High(High(n))))) = n
  BY <1>1, Pack32
<1> HIDE DEF r
<1>3. High(High(n)) = 0
  BY <1>1, <1>2, SMT DEF BASE
<1>4. r = n
  BY <1>1, <1>2, <1>3, SMT DEF BASE
<1> QED
  BY <1>2, <1>4 DEF r

\* A field of eight bytes is read back as it was written.
LEMMA Read64 ==
  ASSUME NEW n \in Word64
  PROVE  /\ IsBuffer(pack_Q(n), 8)
         /\ read_u64_le(pack_Q(n), 0) = n
<1> DEFINE rest == High(High(n))
           r == read_u32_le(pack_I(n), 0)
<1>1. n \in Nat /\ n < 18446744073709551616
  BY DEF Word64
<1>2. /\ IsBuffer(pack_I(n), 4) /\ rest \in Nat /\ r \in Nat
      /\ r + BASE * (BASE * (BASE * (BASE * rest))) = n
  BY <1>1, Pack32
<1>3. pack_Q(n) = pack_I(n) \o pack_I(rest)
  BY DEF pack_Q, High
<1> HIDE DEF r, rest
<1>4. rest < 4294967296
  BY <1>1, <1>2, SMT DEF BASE
<1>5. /\ IsBuffer(pack_I(rest), 4)
      /\ read_u32_le(pack_I(rest), 0) = rest
  BY <1>2, <1>4, Read32 DEF Word32
<1>6. /\ IsBuffer(pack_Q(n), 8)
      /\ read_u64_le(pack_Q(n), 0) = r + BASE * (BASE * (BASE * (BASE * rest)))
  BY <1>2, <1>3, <1>5, Halves64, Zenon DEF r
<1> QED
  BY <1>2, <1>6, Zenon

-----------------------------------------------------------------------------
(* Structures.                                                              *)

\* A header and a record with every field within its width.
FileHeader ==
  [magic : Word32, version_major : Word16, version_minor : Word16,
   asset_count : Word32, asset_table_offset : Word64,
   string_table_offset : Word64, string_table_size : Word64,
   data_section_offset : Word64, data_section_size : Word64, reserved : Word64]

FileRecord ==
  [name_offset : Word32, name_length : Word32, data_offset : Word64,
   data_size : Word64, uncompressed_size : Word64, compression : Word32,
   type : Word32, checksum : Word32, flags : Word32]

\* The header bun_parse_header decodes (bun_parse.c 106-115) is the one that
\* write_header packed (bunfile_generator.py 114-128), whatever its values, and
\* it takes 60 bytes.
THEOREM HeaderRoundTrip ==
  ASSUME NEW h \in FileHeader
  PROVE  IsBuffer(write_header(h), 60) /\ DecodeHeader(write_header(h)) = h
<1> DEFINE p1 == pack_I(h.magic)
           p2 == p1 \o pack_H(h.version_major)
           p3 == p2 \o pack_H(h.version_minor)
           p4 == p3 \o pack_I(h.asset_count)
           p5 == p4 \o pack_Q(h.asset_table_offset)
           p6 == p5 \o pack_Q(h.string_table_offset)
           p7 == p6 \o pack_Q(h.string_table_size)
           p8 == p7 \o pack_Q(h.data_section_offset)
           p9 == p8 \o pack_Q(h.data_section_size)
           p10 == p9 \o pack_Q(h.reserved)
<1>0. /\ IsBuffer(pack_I(h.magic), 4) /\ read_u32_le(pack_I(h.magic), 0) = h.magic
      /\ IsBuffer(pack_H(h.version_major), 2) /\ read_u16_le(pack_H(h.version_major), 0) = h.version_major
      /\ IsBuffer(pack_H(h.version_minor), 2) /\ read_u16_le(pack_H(h.version_minor), 0) = h.version_minor
      /\ IsBuffer(pack_I(h.asset_count), 4) /\ read_u32_le(pack_I(h.asset_count), 0) = h.asset_count
      /\ IsBuffer(pack_Q(h.asset_table_offset), 8) /\ read_u64_le(pack_Q(h.asset_table_offset), 0) = h.asset_table_offset
      /\ IsBuffer(pack_Q(h.string_table_offset), 8) /\ read_u64_le(pack_Q(h.string_table_offset), 0) = h.string_table_offset
      /\ IsBuffer(pack_Q(h.string_table_size), 8) /\ read_u64_le(pack_Q(h.string_table_size), 0) = h.string_table_size
      /\ IsBuffer(pack_Q(h.data_section_offset), 8) /\ read_u64_le(pack_Q(h.data_section_offset), 0) = h.data_section_offset
      /\ IsBuffer(pack_Q(h.data_section_size), 8) /\ read_u64_le(pack_Q(h.data_section_size), 0) = h.data_section_size
      /\ IsBuffer(pack_Q(h.reserved), 8) /\ read_u64_le(pack_Q(h.reserved), 0) = h.reserved
  BY Read16, Read32, Read64 DEF FileHeader
<1> HIDE DEF p1, p2, p3, p4, p5, p6, p7, p8, p9, p10
<1>1. /\ IsBuffer(p1, 4)
      /\ read_u32_le(p1, 0) = h.magic
  BY <1>0 DEF p1
<1>2. /\ IsBuffer(p2, 6)
      /\ read_u32_le(p2, 0) = h.magic
      /\ read_u16_le(p2, 4) = h.version_major
  BY <1>0, <1>1, Cat, ReadFront, ReadRest DEF p2
<1>3. /\ IsBuffer(p3, 8)
      /\ read_u32_le(p3, 0) = h.magic
      /\ read_u16_le(p3, 4) = h.version_major
      /\ read_u16_le(p3, 6) = h.version_minor
  BY <1>0, <1>2, Cat, ReadFront, ReadRest DEF p3
<1>4. /\ IsBuffer(p4, 12)
      /\ read_u32_le(p4, 0) = h.magic
      /\ read_u16_le(p4, 4) = h.version_major
      /\ read_u16_le(p4, 6) = h.version_minor
      /\ read_u32_le(p4, 8) = h.asset_count
  BY <1>0, <1>3, Cat, ReadFront, ReadRest DEF p4
<1>5. /\ IsBuffer(p5, 20)
      /\ read_u32_le(p5, 0) = h.magic
      /\ read_u16_le(p5, 4) = h.version_major
      /\ read_u16_le(p5, 6) = h.version_minor
      /\ read_u32_le(p5, 8) = h.asset_count
      /\ read_u64_le(p5, 12) = h.asset_table_offset
  BY <1>0, <1>4, Cat, ReadFront, ReadRest DEF p5
<1>6. /\ IsBuffer(p6, 28)
      /\ read_u32_le(p6, 0) = h.magic
      /\ read_u16_le(p6, 4) = h.version_major
      /\ read_u16_le(p6, 6) = h.version_minor
      /\ read_u32_le(p6, 8) = h.asset_count
      /\ read_u64_le(p6, 12) = h.asset_table_offset
      /\ read_u64_le(p6, 20) = h.string_table_offset
  BY <1>0, <1>5, Cat, ReadFront, ReadRest DEF p6
<1>7. /\ IsBuffer(p7, 36)
      /\ read_u32_le(p7, 0) = h.magic
      /\ read_u16_le(p7, 4) = h.version_major
      /\ read_u16_le(p7, 6) = h.version_minor
      /\ read_u32_le(p7, 8) = h.asset_count
      /\ read_u64_le(p7, 12) = h.asset_table_offset
      /\ read_u64_le(p7, 20) = h.string_table_offset
      /\ read_u64_le(p7, 28) = h.string_table_size
  BY <1>0, <1>6, Cat, ReadFront, ReadRest DEF p7
<1>8. /\ IsBuffer(p8, 44)
      /\ read_u32_le(p8, 0) = h.magic
      /\ read_u16_le(p8, 4) = h.version_major
      /\ read_u16_le(p8, 6) = h.version_minor
      /\ read_u32_le(p8, 8) = h.asset_count
      /\ read_u64_le(p8, 12) = h.asset_table_offset
      /\ read_u64_le(p8, 20) = h.string_table_offset
      /\ read_u64_le(p8, 28) = h.string_table_size
      /\ read_u64_le(p8, 36) = h.data_section_offset
  BY <1>0, <1>7, Cat, ReadFront, ReadRest DEF p8
<1>9. /\ IsBuffer(p9, 52)
      /\ read_u32_le(p9, 0) = h.magic
      /\ read_u16_le(p9, 4) = h.version_major
      /\ read_u16_le(p9, 6) = h.version_minor
      /\ read_u32_le(p9, 8) = h.asset_count
      /\ read_u64_le(p9, 12) = h.asset_table_offset
      /\ read_u64_le(p9, 20) = h.string_table_offset
      /\ read_u64_le(p9, 28) = h.string_table_size
      /\ read_u64_le(p9, 36) = h.data_section_offset
      /\ read_u64_le(p9, 44) = h.data_section_size
  BY <1>0, <1>8, Cat, ReadFront, ReadRest DEF p9
<1>10. /\ IsBuffer(p10, 60)
      /\ read_u32_le(p10, 0) = h.magic
      /\ read_u16_le(p10, 4) = h.version_major
      /\ read_u16_le(p10, 6) = h.version_minor
      /\ read_u32_le(p10, 8) = h.asset_count
      /\ read_u64_le(p10, 12) = h.asset_table_offset
      /\ read_u64_le(p10, 20) = h.string_table_offset
      /\ read_u64_le(p10, 28) = h.string_table_size
      /\ read_u64_le(p10, 36) = h.data_section_offset
      /\ read_u64_le(p10, 44) = h.data_section_size
      /\ read_u64_le(p10, 52) = h.reserved
  BY <1>0, <1>9, Cat, ReadFront, ReadRest DEF p10
<1>11. write_header(h) = p10
  BY Zenon DEF write_header, p1, p2, p3, p4, p5, p6, p7, p8, p9, p10
<1>12. DecodeHeader(p10) = h
  BY <1>10 DEF DecodeHeader, FileHeader
<1> QED
  BY <1>10, <1>11, <1>12, Zenon

\* The record read_asset_record_from_buf decodes (bun_parse.c 18-30) is the one
\* write_asset_record packed (bunfile_generator.py 163-176), in 48 bytes.
THEOREM RecordRoundTrip ==
  ASSUME NEW r \in FileRecord
  PROVE  IsBuffer(write_asset_record(r), 48) /\ read_asset_record_from_buf(write_asset_record(r)) = r
<1> DEFINE p1 == pack_I(r.name_offset)
           p2 == p1 \o pack_I(r.name_length)
           p3 == p2 \o pack_Q(r.data_offset)
           p4 == p3 \o pack_Q(r.data_size)
           p5 == p4 \o pack_Q(r.uncompressed_size)
           p6 == p5 \o pack_I(r.compression)
           p7 == p6 \o pack_I(r.type)
           p8 == p7 \o pack_I(r.checksum)
           p9 == p8 \o pack_I(r.flags)
<1>0. /\ IsBuffer(pack_I(r.name_offset), 4) /\ read_u32_le(pack_I(r.name_offset), 0) = r.name_offset
      /\ IsBuffer(pack_I(r.name_length), 4) /\ read_u32_le(pack_I(r.name_length), 0) = r.name_length
      /\ IsBuffer(pack_Q(r.data_offset), 8) /\ read_u64_le(pack_Q(r.data_offset), 0) = r.data_offset
      /\ IsBuffer(pack_Q(r.data_size), 8) /\ read_u64_le(pack_Q(r.data_size), 0) = r.data_size
      /\ IsBuffer(pack_Q(r.uncompressed_size), 8) /\ read_u64_le(pack_Q(r.uncompressed_size), 0) = r.uncompressed_size
      /\ IsBuffer(pack_I(r.compression), 4) /\ read_u32_le(pack_I(r.compression), 0) = r.compression
      /\ IsBuffer(pack_I(r.type), 4) /\ read_u32_le(pack_I(r.type), 0) = r.type
      /\ IsBuffer(pack_I(r.checksum), 4) /\ read_u32_le(pack_I(r.checksum), 0) = r.checksum
      /\ IsBuffer(pack_I(r.flags), 4) /\ read_u32_le(pack_I(r.flags), 0) = r.flags
  BY Read16, Read32, Read64 DEF FileRecord
<1> HIDE DEF p1, p2, p3, p4, p5, p6, p7, p8, p9
<1>1. /\ IsBuffer(p1, 4)
      /\ read_u32_le(p1, 0) = r.name_offset
  BY <1>0 DEF p1
<1>2. /\ IsBuffer(p2, 8)
      /\ read_u32_le(p2, 0) = r.name_offset
      /\ read_u32_le(p2, 4) = r.name_length
  BY <1>0, <1>1, Cat, ReadFront, ReadRest DEF p2
<1>3. /\ IsBuffer(p3, 16)
      /\ read_u32_le(p3, 0) = r.name_offset
      /\ read_u32_le(p3, 4) = r.name_length
      /\ read_u64_le(p3, 8) = r.data_offset
  BY <1>0, <1>2, Cat, ReadFront, ReadRest DEF p3
<1>4. /\ IsBuffer(p4, 24)
      /\ read_u32_le(p4, 0) = r.name_offset
      /\ read_u32_le(p4, 4) = r.name_length
      /\ read_u64_le(p4, 8) = r.data_offset
      /\ read_u64_le(p4, 16) = r.data_size
  BY <1>0, <1>3, Cat, ReadFront, ReadRest DEF p4
<1>5. /\ IsBuffer(p5, 32)
      /\ read_u32_le(p5, 0) = r.name_offset
      /\ read_u32_le(p5, 4) = r.name_length
      /\ read_u64_le(p5, 8) = r.data_offset
      /\ read_u64_le(p5, 16) = r.data_size
      /\ read_u64_le(p5, 24) = r.uncompressed_size
  BY <1>0, <1>4, Cat, ReadFront, ReadRest DEF p5
<1>6. /\ IsBuffer(p6, 36)
      /\ read_u32_le(p6, 0) = r.name_offset
      /\ read_u32_le(p6, 4) = r.name_length
      /\ read_u64_le(p6, 8) = r.data_offset
      /\ read_u64_le(p6, 16) = r.data_size
      /\ read_u64_le(p6, 24) = r.uncompressed_size
      /\ read_u32_le(p6, 32) = r.compression
  BY <1>0, <1>5, Cat, ReadFront, ReadRest DEF p6
<1>7. /\ IsBuffer(p7, 40)
      /\ read_u32_le(p7, 0) = r.name_offset
      /\ read_u32_le(p7, 4) = r.name_length
      /\ read_u64_le(p7, 8) = r.data_offset
      /\ read_u64_le(p7, 16) = r.data_size
      /\ read_u64_le(p7, 24) = r.uncompressed_size
      /\ read_u32_le(p7, 32) = r.compression
      /\ read_u32_le(p7, 36) = r.type
  BY <1>0, <1>6, Cat, ReadFront, ReadRest DEF p7
<1>8. /\ IsBuffer(p8, 44)
      /\ read_u32_le(p8, 0) = r.name_offset
      /\ read_u32_le(p8, 4) = r.name_length
      /\ read_u64_le(p8, 8) = r.data_offset
      /\ read_u64_le(p8, 16) = r.data_size
      /\ read_u64_le(p8, 24) = r.uncompressed_size
      /\ read_u32_le(p8, 32) = r.compression
      /\ read_u32_le(p8, 36) = r.type
      /\ read_u32_le(p8, 40) = r.checksum
  BY <1>0, <1>7, Cat, ReadFront, ReadRest DEF p8
<1>9. /\ IsBuffer(p9, 48)
      /\ read_u32_le(p9, 0) = r.name_offset
      /\ read_u32_le(p9, 4) = r.name_length
      /\ read_u64_le(p9, 8) = r.data_offset
      /\ read_u64_le(p9, 16) = r.data_size
      /\ read_u64_le(p9, 24) = r.uncompressed_size
      /\ read_u32_le(p9, 32) = r.compression
      /\ read_u32_le(p9, 36) = r.type
      /\ read_u32_le(p9, 40) = r.checksum
      /\ read_u32_le(p9, 44) = r.flags
  BY <1>0, <1>8, Cat, ReadFront, ReadRest DEF p9
<1>10. write_asset_record(r) = p9
  BY Zenon DEF write_asset_record, p1, p2, p3, p4, p5, p6, p7, p8, p9
<1>11. read_asset_record_from_buf(p9) = r
  BY <1>9 DEF read_asset_record_from_buf, FileRecord
<1> QED
  BY <1>9, <1>10, <1>11, Zenon

-----------------------------------------------------------------------------
(* BunParse on such files. What FromDisk says survives every step.          *)

\* The file is one of those the instance has, and is not changed.
OnDisk == disk \in Files /\ FromDisk

\* Initially nothing is read.
LEMMA InitOnDisk == Init => OnDisk
<1>1. SUFFICES ASSUME Init PROVE OnDisk
  OBVIOUS
<1>2. /\ disk \in Files /\ pc = "start" /\ ~out.header /\ touched.use = "none"
  BY <1>1 DEF Init
<1>3. QED BY <1>2 DEF OnDisk, FromDisk, InBody

\* A step outside the loop's body changes nothing it speaks of.
LEMMA QuietOnDisk ==
  ASSUME OnDisk, UNCHANGED <<disk, header, out>>, pc' \notin {"header", "name"},
         ~InBody'
  PROVE  OnDisk'
BY DEF OnDisk, FromDisk

\* The same when the exit or a report is printed.
LEMMA ReportedOnDisk ==
  ASSUME OnDisk, UNCHANGED <<disk, header>>, out'.header = out.header,
         pc' \notin {"header", "name"}, ~InBody'
  PROVE  OnDisk'
BY DEF OnDisk, FromDisk

\* A step within the body that leaves the record, the output and touched alone,
\* or reads for another use.
LEMMA BodyOnDisk ==
  ASSUME OnDisk, InBody, pc' \notin {"header", "name"},
         UNCHANGED <<disk, header, out, i, rec>>,
         touched' = touched \/ touched'.use \notin {"name", "payload"}
  PROVE  OnDisk'
<1>1. disk' \in Files
  BY DEF OnDisk
<1>2. PayloadShown' = PayloadShown
  BY DEF PayloadShown
<1>3. CASE touched' = touched
  BY <1>1, <1>2, <1>3 DEF OnDisk, FromDisk, LastRead
<1>4. CASE touched'.use \notin {"name", "payload"}
  BY <1>1, <1>4 DEF OnDisk, FromDisk
<1>5. QED BY <1>3, <1>4

\* The header in memory is the file's when bun_parse_header has loaded it.
LEMMA HeaderOnDisk ==
  ASSUME ParseInvariant, OnDisk, BunParseHeader
  PROVE  OnDisk'
<1>1. /\ pc = "header" /\ pc' \in {"table", "report"} /\ UNCHANGED <<disk>>
      /\ out'.header = ctx'.header_loaded
      /\ TooSmall \/ HeaderUnreadable \/ HeaderRead
  <2>1. /\ pc = "header" /\ UNCHANGED <<disk>> /\ out' = [out EXCEPT !.header = ctx'.header_loaded]
        /\ TooSmall \/ HeaderUnreadable \/ HeaderRead
        /\ pc' = IF result' = BUN_OK THEN "table" ELSE "report"
    BY DEF BunParseHeader, Goto
  <2>2. out \in Output
    BY DEF ParseInvariant, TypeOK
  <2>3. out'.header = ctx'.header_loaded
    BY <2>1, <2>2 DEF Output
  <2>4. QED BY <2>1, <2>3
<1>2. /\ ctx.file_size = disk.size /\ ~ctx.header_loaded /\ ctx \in BunParseContext
  BY <1>1 DEF ParseInvariant, Fresh, OnDisk, FromDisk, TypeOK
<1>3. out'.header => header' = disk'.header /\ disk'.size >= BUN_HEADER_SIZE
  <2>1. CASE TooSmall
    <3>1. ctx' = add_error(ctx, Check(TRUE, BUN_MALFORMED, "file too small", <<>>))
      BY <2>1 DEF TooSmall
    <3>2. ctx'.header_loaded = ctx.header_loaded
      BY <1>2, <3>1 DEF add_error, BunParseContext
    <3>3. QED BY <1>1, <1>2, <3>2
  <2>2. CASE HeaderUnreadable
    BY <1>1, <1>2, <2>2 DEF HeaderUnreadable
  <2>3. CASE HeaderRead
    BY <1>1, <1>2, <2>3 DEF HeaderRead
  <2>4. QED BY <1>1, <2>1, <2>2, <2>3
<1>4. QED BY <1>1, <1>3 DEF OnDisk, FromDisk, InBody

\* A record is read at its slot.
LEMMA RecordOnDisk ==
  ASSUME ParseInvariant, OnDisk, ReadRecord
  PROVE  OnDisk'
<1>1. /\ pc = "record" /\ pc' = "name" /\ UNCHANGED <<disk, header, i>>
      /\ touched' = [use |-> "record", from |-> stream.pos, len |-> BUN_ASSET_RECORD_SIZE]
      /\ out' = [out EXCEPT !.records = AtMost(@ + 1, UINT32_MAX)]
  BY DEF ReadRecord, ReadAt, Goto
<1>2. stream.pos = header.asset_table_offset + i * BUN_ASSET_RECORD_SIZE
  BY <1>1 DEF ParseInvariant, RecordSlot
<1>3. out'.header = out.header
  BY <1>1 DEF ParseInvariant, TypeOK, Output
<1>4. QED BY <1>1, <1>2, <1>3 DEF OnDisk, FromDisk, LastRead

\* What a snippet printer leaves behind: a read where it should be, or the
\* read before it and a gap.
LEMMA SnippetReads ==
  ASSUME out \in Output, NEW use, NEW safe, NEW start, NEW n, Snippet(use, safe, start, n)
  PROVE  /\ out'.header = out.header
         /\ \/ touched' = touched
            \/ start.ok /\ touched' = [use |-> use, from |-> start.out, len |-> n]
BY DEF Snippet, ReadAt, Output

\* The name's snippet is read at the name.
LEMMA NameOnDisk ==
  ASSUME ParseInvariant, OnDisk, PrintName
  PROVE  OnDisk'
<1>1. /\ pc = "name" /\ pc' = "payload" /\ UNCHANGED <<disk, header, i, rec>>
      /\ Snippet("name", name_range_safe(header, rec), NameStart(header, rec),
                 AtMost(rec.name_length, NAME_SNIPPET_BYTES))
  BY DEF PrintName, Goto
<1>2. out \in Output /\ header \in BunHeader /\ rec \in BunAssetRecord
  BY DEF ParseInvariant, TypeOK
<1>3. /\ out'.header = out.header
      /\ \/ touched' = touched
         \/ /\ NameStart(header, rec).ok
            /\ touched' = [use |-> "name", from |-> NameStart(header, rec).out,
                           len |-> AtMost(rec.name_length, NAME_SNIPPET_BYTES)]
  BY <1>1, <1>2, SnippetReads
<1>4. touched' = touched => touched'.use = "record"
  BY <1>1 DEF OnDisk, FromDisk, LastRead
<1>5. touched' # touched =>
        touched' = [use |-> "name", from |-> header.string_table_offset + rec.name_offset,
                    len |-> AtMost(rec.name_length, NAME_SNIPPET_BYTES)]
  BY <1>2, <1>3, StartTypes
<1>6. QED BY <1>1, <1>3, <1>4, <1>5 DEF OnDisk, FromDisk, LastRead

\* The payload's snippet is read at the payload; when it is not, the last read
\* is still the record's or the name's.
LEMMA PayloadOnDisk ==
  ASSUME ParseInvariant, OnDisk, PrintPayload
  PROVE  OnDisk'
<1>1. /\ pc = "payload" /\ pc' = "validate" /\ UNCHANGED <<disk, header, i, rec>>
      /\ Snippet("payload", data_range_safe(header, rec), DataStart(header, rec), PayloadShown)
  BY DEF PrintPayload, Goto
<1>2. out \in Output /\ header \in BunHeader /\ rec \in BunAssetRecord
  BY DEF ParseInvariant, TypeOK
<1>3. /\ out'.header = out.header
      /\ \/ touched' = touched
         \/ /\ DataStart(header, rec).ok
            /\ touched' = [use |-> "payload", from |-> DataStart(header, rec).out,
                           len |-> PayloadShown]
  BY <1>1, <1>2, SnippetReads
<1>4. touched' # touched =>
        touched' = [use |-> "payload", from |-> header.data_section_offset + rec.data_offset,
                    len |-> PayloadShown]
  BY <1>2, <1>3, StartTypes
<1>5. PayloadShown' = PayloadShown /\ InBody
  BY <1>1 DEF PayloadShown, InBody
<1>6. CASE touched' = touched
  BY <1>1, <1>3, <1>5, <1>6 DEF OnDisk, FromDisk, LastRead
<1>7. CASE touched' # touched
  BY <1>1, <1>3, <1>4, <1>5, <1>7 DEF OnDisk, FromDisk, LastRead
<1>8. QED BY <1>6, <1>7

\* The checks of a record and of its name read for another use.
LEMMA ChecksOnDisk ==
  ASSUME OnDisk, ValidateRecord \/ ValidateName
  PROVE  OnDisk'
<1>1. CASE ValidateRecord
  <2>1. InBody /\ pc' = "chars" /\ UNCHANGED <<disk, header, i, rec, out>>
    BY <1>1 DEF ValidateRecord, Goto, InBody
  <2>2. touched' = touched \/ \E p, n : touched' = [use |-> "rle", from |-> p, len |-> n]
    BY <1>1, Zenon DEF ValidateRecord, ScanPayload, ReadAt
  <2>3. touched' = touched \/ touched'.use = "rle"
    BY <2>2
  <2>4. QED BY <2>1, <2>3, BodyOnDisk
<1>2. CASE ValidateName
  <2>1. InBody /\ pc' = "reseek" /\ UNCHANGED <<disk, header, i, rec, out>>
    BY <1>2 DEF ValidateName, Goto, InBody
  <2>2. touched' = touched \/ \E p, n : touched' = [use |-> "chars", from |-> p, len |-> n]
    BY <1>2, Zenon DEF ValidateName, ScanName, ReadAt
  <2>3. touched' = touched \/ touched'.use = "chars"
    BY <2>2
  <2>4. QED BY <2>1, <2>3, BodyOnDisk
<1>3. QED BY <1>1, <1>2

\* The rest of the program reads nothing.
LEMMA OthersOnDisk ==
  ASSUME ParseInvariant, OnDisk,
         \/ Usage \/ BunOpen \/ SeekTable \/ RecordUnreadable \/ Reseek
         \/ AssetsDone \/ Report \/ BunClose
  PROVE  OnDisk'
<1>1. CASE SeekTable \/ RecordUnreadable \/ Reseek \/ AssetsDone \/ BunClose
  <2>1. /\ UNCHANGED <<disk, header, out>>
        /\ pc' \in {"record", "report", "done"}
    BY <1>1 DEF SeekTable, RecordUnreadable, Reseek, AssetsDone, BunClose, Goto, Return
  <2>2. QED BY <2>1, QuietOnDisk DEF InBody
<1>2. CASE Usage \/ Report
  <2>1. /\ UNCHANGED <<disk, header>> /\ pc' \in {"close", "done"}
        /\ \E e : out' = [out EXCEPT !.stderr = e]
    BY <1>2 DEF Usage, Report, Goto
  <2>2. out'.header = out.header
    BY <2>1 DEF ParseInvariant, TypeOK, Output
  <2>3. QED BY <2>1, <2>2, ReportedOnDisk DEF InBody
<1>3. CASE BunOpen
  <2>1. CASE Opened
    <3>1. UNCHANGED <<disk, header, out>> /\ pc' = "header" /\ ~ctx'.header_loaded
      BY <1>3, <2>1 DEF BunOpen, Opened, Goto, ZeroContext
    <3>2. QED BY <3>1 DEF OnDisk, FromDisk, InBody
  <2>2. CASE NotOpened
    <3>1. /\ UNCHANGED <<disk, header>> /\ pc' = "done"
          /\ out' = [out EXCEPT !.stderr = "open"]
      BY <1>3, <2>2 DEF BunOpen, NotOpened, Goto
    <3>2. out'.header = out.header
      BY <3>1 DEF ParseInvariant, TypeOK, Output
    <3>3. QED BY <3>1, <3>2, ReportedOnDisk DEF InBody
  <2>3. QED BY <1>3, <2>1, <2>2 DEF BunOpen
<1>4. QED BY <1>1, <1>2, <1>3

\* A step that changes nothing.
LEMMA StutterOnDisk ==
  ASSUME OnDisk, UNCHANGED vars
  PROVE  OnDisk'
BY DEF vars, OnDisk, FromDisk, InBody, LastRead, PayloadShown

\* The header in memory and the last read stay what the file and the record in
\* hand say, through every step and failure of the program.
THEOREM KnowsItsReads == Spec => []OnDisk
<1>1. ParseInvariant /\ OnDisk /\ [Next]_vars => OnDisk'
  <2> SUFFICES ASSUME ParseInvariant, OnDisk, [Next]_vars PROVE OnDisk'
    OBVIOUS
  <2>1. CASE Step
    BY <2>1, HeaderOnDisk, RecordOnDisk, NameOnDisk, PayloadOnDisk, ChecksOnDisk, OthersOnDisk
    DEF Step
  <2>2. CASE Exited
    BY <2>2, StutterOnDisk DEF Exited
  <2>3. CASE UNCHANGED vars
    BY <2>3, StutterOnDisk
  <2>4. QED BY <2>1, <2>2, <2>3 DEF Next
<1>2. QED BY InitOnDisk, Inductive, <1>1, PTL DEF Spec

\* What the checks of the printed values stand on (FromDisk), by itself.
THEOREM ReadsKnown == Spec => []FromDisk
BY KnowsItsReads, PTL DEF OnDisk

-----------------------------------------------------------------------------
(* What is written one after the other, and where it stands then.           *)

\* The bytes s stand at offset "at" of the bytes b.
Holds(b, at, s) ==
  /\ at \in Nat /\ at + Len(s) <= Len(b)
  /\ \A r \in 1 .. Len(s) : b[at + r] = s[r]

\* What follows does not move what is there;
LEMMA HoldsFront ==
  ASSUME NEW b \in Seq(Byte), NEW t \in Seq(Byte), NEW s \in Seq(Byte), NEW at,
         Holds(b, at, s)
  PROVE  Holds(b \o t, at, s)
<1>1. /\ Len(b) \in Nat /\ Len(t) \in Nat /\ Len(s) \in Nat /\ at \in Nat
      /\ at + Len(s) <= Len(b)
  BY LenProperties DEF Holds
<1>2. /\ Len(b \o t) = Len(b) + Len(t)
      /\ \A k \in 1 .. Len(b) : (b \o t)[k] = b[k]
  BY <1>1, ConcatProperties
<1>3. \A r \in 1 .. Len(s) : at + r \in 1 .. Len(b)
  BY <1>1
<1>4. \A r \in 1 .. Len(s) : (b \o t)[at + r] = s[r]
  BY <1>2, <1>3, Zenon DEF Holds
<1>5. at + Len(s) <= Len(b \o t)
  BY <1>1, <1>2
<1>6. QED BY <1>1, <1>4, <1>5 DEF Holds

\* what is appended stands at the end;
LEMMA HoldsRest ==
  ASSUME NEW b \in Seq(Byte), NEW t \in Seq(Byte)
  PROVE  Holds(b \o t, Len(b), t)
<1>1. /\ Len(b) \in Nat /\ Len(t) \in Nat
      /\ Len(b \o t) = Len(b) + Len(t)
      /\ \A k \in Len(b) + 1 .. Len(b) + Len(t) : (b \o t)[k] = t[k - Len(b)]
  BY LenProperties, ConcatProperties
<1>2. ASSUME NEW r \in 1 .. Len(t) PROVE (b \o t)[Len(b) + r] = t[r]
  <2>1. Len(b) + r \in Len(b) + 1 .. Len(b) + Len(t) /\ (Len(b) + r) - Len(b) = r
    BY <1>1
  <2>2. QED BY <1>1, <2>1
<1>3. QED BY <1>1, <1>2 DEF Holds

\* what begins a file stands at 0;
LEMMA HoldsFirst ==
  ASSUME NEW b \in Seq(Byte)
  PROVE  Holds(b, 0, b)
BY LenProperties DEF Holds

\* and a part of a part is a part.
LEMMA HoldsWithin ==
  ASSUME NEW b \in Seq(Byte), NEW s \in Seq(Byte), NEW u \in Seq(Byte), NEW at, NEW o,
         Holds(b, at, s), Holds(s, o, u)
  PROVE  Holds(b, at + o, u)
<1>1. /\ at \in Nat /\ o \in Nat /\ Len(b) \in Nat /\ Len(s) \in Nat /\ Len(u) \in Nat
      /\ at + Len(s) <= Len(b) /\ o + Len(u) <= Len(s)
  BY LenProperties DEF Holds
<1>2. ASSUME NEW r \in 1 .. Len(u) PROVE b[(at + o) + r] = u[r]
  <2>1. o + r \in 1 .. Len(s) /\ (at + o) + r = at + (o + r)
    BY <1>1
  <2>2. b[at + (o + r)] = s[o + r] /\ s[o + r] = u[r]
    BY <2>1, Zenon DEF Holds
  <2>3. QED BY <2>1, <2>2
<1>3. at + o \in Nat /\ at + o + Len(u) <= Len(b)
  BY <1>1
<1>4. QED BY <1>2, <1>3 DEF Holds

\* What stands somewhere can be taken out.
LEMMA TakenOut ==
  ASSUME NEW b \in Seq(Byte), NEW s \in Seq(Byte), NEW at, Holds(b, at, s)
  PROVE  SubSeq(b, at + 1, at + Len(s)) = s
<1>1. /\ at \in Nat /\ Len(b) \in Nat /\ Len(s) \in Nat /\ at + Len(s) <= Len(b)
  BY LenProperties DEF Holds
<1> DEFINE c == SubSeq(b, at + 1, at + Len(s))
<1>2. /\ Len(c) = Len(s) /\ c \in Seq(Byte)
      /\ \A k \in 1 .. Len(s) : c[k] = b[at + k]
  <2>1. /\ at + 1 \in 1 .. Len(b) + 1 /\ at + Len(s) \in at .. Len(b)
        /\ at + Len(s) - (at + 1) + 1 = Len(s)
        /\ \A k \in 1 .. Len(s) : (at + 1) + k - 1 = at + k
    BY <1>1
  <2>2. QED BY <1>1, <2>1
<1> HIDE DEF c
<1>3. c = s
  BY <1>2, SeqEqual DEF Holds
<1>4. QED BY <1>3 DEF c

-----------------------------------------------------------------------------
(* Rows of bytes.                                                           *)

\* A sequence of elements that are all in another set is a sequence over it.
LEMMA SeqInto ==
  ASSUME NEW S, NEW T, NEW s \in Seq(S), \A k \in 1 .. Len(s) : s[k] \in T
  PROVE  s \in Seq(T)
<1>1. Len(s) \in Nat /\ s = [k \in 1 .. Len(s) |-> s[k]]
  BY LenProperties, Zenon
<1>2. [k \in 1 .. Len(s) |-> s[k]] \in [1 .. Len(s) -> T]
  OBVIOUS
<1>3. s \in UNION {[1 .. n -> T] : n \in Nat}
  BY <1>1, <1>2, Zenon
<1>4. QED BY <1>3, SeqDef, Zenon

\* Bytes are numbers.
LEMMA ByteRows ==
  ASSUME NEW rows \in Seq(Seq(Byte))
  PROVE  rows \in Rows /\ Len(rows) \in Nat
<1>1. Byte \subseteq Nat
  BY DEF Byte
<1>2. ASSUME NEW s \in Seq(Byte) PROVE s \in Seq(Nat)
  <2>1. \A k \in 1 .. Len(s) : s[k] \in Nat
    BY <1>1, ElementOfSeq
  <2>2. QED BY <2>1, SeqInto, Zenon
<1>3. \A k \in 1 .. Len(rows) : rows[k] \in Seq(Nat)
  BY <1>2, ElementOfSeq
<1>4. rows \in Seq(Seq(Nat)) /\ Len(rows) \in Nat
  BY <1>3, SeqInto, LenProperties, Zenon
<1>5. QED BY <1>4 DEF Rows

\* Rows of bytes make bytes.
LEMMA FlattenBytes ==
  ASSUME NEW rows \in Seq(Seq(Byte))
  PROVE  FlattenSeq(rows) \in Seq(Byte)
<1> DEFINE n == Len(rows)
           s == FlattenSeq(rows)
<1>1. rows \in Rows /\ n \in Nat
  BY ByteRows
<1>2. PICK g \in [0 .. n -> Nat] : Ends(rows, n, g)
  <2>1. n <= n
    BY <1>1
  <2>2. QED BY <1>1, <2>1, EndsExist
<1>3. Whole(rows, n, g, s)
  BY <1>1, <1>2, FlattenWhole
<1> HIDE DEF s
<1>4. ASSUME NEW k \in 1 .. Len(s) PROVE s[k] \in Byte
  <2>1. k \in 1 .. g[n]
    BY <1>3 DEF Whole
  <2>2. PICK p \in 1 .. n : \E r \in 1 .. Len(rows[p]) : k = g[p - 1] + r
    BY <1>3, <2>1 DEF Whole
  <2>3. PICK r \in 1 .. Len(rows[p]) : k = g[p - 1] + r
    BY <2>2
  <2>4. s[k] = rows[p][r]
    BY <1>3, <2>3 DEF Whole
  <2>5. rows[p] \in Seq(Byte)
    BY ElementOfSeq
  <2>6. QED BY <2>4, <2>5, ElementOfSeq
<1>5. s \in Seq(Nat)
  BY <1>3 DEF Whole
<1>6. s \in Seq(Byte)
  BY <1>4, <1>5, SeqInto, Zenon
<1>7. QED BY <1>6 DEF s

\* Every row stands in the whole after the rows before it.
LEMMA FlattenHolds ==
  ASSUME NEW rows \in Seq(Seq(Byte)), NEW k \in 1 .. Len(rows)
  PROVE  Holds(FlattenSeq(rows), Len(FlattenSeq(SubSeq(rows, 1, k - 1))), rows[k])
<1> DEFINE n == Len(rows)
           s == FlattenSeq(rows)
           before == SubSeq(rows, 1, k - 1)
<1>1. rows \in Rows /\ n \in Nat
  BY ByteRows
<1>2. PICK g \in [0 .. n -> Nat] : Ends(rows, n, g)
  <2>1. n <= n
    BY <1>1
  <2>2. QED BY <1>1, <2>1, EndsExist
<1>3. Whole(rows, n, g, s)
  BY <1>1, <1>2, FlattenWhole
<1>4. k \in Nat /\ k - 1 \in Nat /\ k - 1 \in 0 .. n /\ k \in 0 .. n /\ k <= n
  BY <1>1
<1>5. /\ before \in Seq(Seq(Byte)) /\ Len(before) = k - 1
      /\ \A j \in 1 .. k - 1 : before[j] = rows[j]
  BY <1>1, <1>4
<1> DEFINE h == [p \in 0 .. k - 1 |-> g[p]]
<1>6. h \in [0 .. Len(before) -> Nat] /\ h[k - 1] = g[k - 1]
  <2>1. h \in [0 .. k - 1 -> Nat] /\ h[k - 1] = g[k - 1]
    BY <1>4
  <2> HIDE DEF h, before
  <2>2. QED BY <1>5, <2>1
<1>7. Ends(before, Len(before), h)
  <2>1. h[0] = 0
    BY <1>2, <1>4 DEF Ends
  <2>2. ASSUME NEW p \in 1 .. k - 1 PROVE h[p] = h[p - 1] + Len(before[p])
    <3>1. p \in 1 .. n /\ p \in 0 .. k - 1 /\ p - 1 \in 0 .. k - 1
      BY <1>1, <1>4
    <3>2. QED BY <1>2, <1>5, <3>1 DEF Ends
  <2> HIDE DEF h, before
  <2>3. QED BY <1>5, <2>1, <2>2 DEF Ends
<1>8. Len(FlattenSeq(before)) = g[k - 1]
  <2> HIDE DEF h, before
  <2>1. before \in Rows
    BY <1>5, ByteRows
  <2>2. Whole(before, Len(before), h, FlattenSeq(before))
    BY <1>6, <1>7, <2>1, FlattenWhole
  <2>3. QED BY <1>5, <1>6, <2>2 DEF Whole
<1> HIDE DEF s, before, h
<1>9. g[k] = g[k - 1] + Len(rows[k]) /\ g[k] <= g[n] /\ g[k - 1] \in Nat
  <2>1. \A p \in 0 .. n : g[p] <= g[n]
    <3>1. n <= n
      BY <1>1
    <3>2. QED BY <1>1, <1>2, <3>1, EndsRise
  <2>2. QED BY <1>2, <1>4, <2>1 DEF Ends
<1>10. Holds(s, g[k - 1], rows[k])
  <2>1. Len(s) = g[n] /\ \A r \in 1 .. Len(rows[k]) : s[g[k - 1] + r] = rows[k][r]
    BY <1>3 DEF Whole
  <2>2. QED BY <1>9, <2>1 DEF Holds
<1>11. QED BY <1>8, <1>10 DEF s, before

-----------------------------------------------------------------------------
(* The parts of a script's file.                                            *)

\* What a script is given for an asset: any bytes, and numbers.
Input ==
  [name : Seq(Byte), payload : Seq(Byte), compression : Nat, uncompressed_size : Nat,
   type : Nat, checksum : Nat, flags : Nat]

\* Names, or payloads, one after the other: each is where the cursor of
\* _simple_valid is when its record is made.
LEMMA ConcatHolds ==
  ASSUME NEW assets \in Seq(Input), NEW f \in {"name", "payload"}
  PROVE  /\ Concat(assets, f) \in Seq(Byte) /\ Len(Concat(assets, f)) \in Nat
         /\ \A k \in 1 .. Len(assets) :
              Holds(Concat(assets, f), Len(Concat(SubSeq(assets, 1, k - 1), f)), assets[k][f])
<1> DEFINE n == Len(assets)
           rows == [k \in DOMAIN assets |-> assets[k][f]]
<1>1. n \in Nat /\ DOMAIN assets = 1 .. n
  OBVIOUS
<1>2. \A k \in 1 .. n : assets[k][f] \in Seq(Byte)
  <2>1. \A k \in 1 .. n : assets[k] \in Input
    BY ElementOfSeq
  <2>2. QED BY <2>1 DEF Input
<1>3. rows \in Seq(Seq(Byte)) /\ Len(rows) = n /\ \A k \in 1 .. n : rows[k] = assets[k][f]
  BY <1>1, <1>2
<1>4. Concat(assets, f) = FlattenSeq(rows)
  BY Zenon DEF Concat
<1>5. ASSUME NEW k \in 1 .. n
      PROVE  Concat(SubSeq(assets, 1, k - 1), f) = FlattenSeq(SubSeq(rows, 1, k - 1))
  <2> DEFINE before == SubSeq(assets, 1, k - 1)
             fs == [j \in DOMAIN before |-> before[j][f]]
             rs == SubSeq(rows, 1, k - 1)
  <2>1. k - 1 \in Nat /\ k - 1 \in 0 .. n /\ \A j \in 1 .. k - 1 : j \in 1 .. n
    BY <1>1
  <2>2. /\ DOMAIN before = 1 .. k - 1
        /\ \A j \in 1 .. k - 1 : before[j] = assets[j]
    BY <1>1, <2>1
  <2> HIDE DEF before, rows
  <2>3. rs = [j \in 1 .. k - 1 |-> rows[j]]
    BY <1>1, <1>3, <2>1
  <2>4. fs = [j \in 1 .. k - 1 |-> rows[j]]
    <3>1. \A j \in 1 .. k - 1 : before[j][f] = rows[j]
      BY <1>3, <2>1, <2>2
    <3>2. QED BY <2>2, <3>1
  <2>5. Concat(before, f) = FlattenSeq(fs)
    BY Zenon DEF Concat
  <2> HIDE DEF fs, rs
  <2>6. QED BY <2>3, <2>4, <2>5 DEF before, rs
<1> HIDE DEF rows
<1>6. FlattenSeq(rows) \in Seq(Byte)
  BY <1>3, FlattenBytes
<1>7. ASSUME NEW k \in 1 .. n
      PROVE  Holds(FlattenSeq(rows), Len(FlattenSeq(SubSeq(rows, 1, k - 1))), assets[k][f])
  BY <1>3, FlattenHolds
<1>8. QED BY <1>4, <1>5, <1>6, <1>7, LenProperties

\* Records one after the other: 48 bytes each, so the k-th is where the parser
\* looks for it.
LEMMA RecordsHold ==
  ASSUME NEW rs \in Seq(FileRecord)
  PROVE  /\ WriteRecords(rs) \in Seq(Byte) /\ Len(WriteRecords(rs)) = 48 * Len(rs)
         /\ \A k \in 1 .. Len(rs) :
              Holds(WriteRecords(rs), 48 * (k - 1), write_asset_record(rs[k]))
<1> DEFINE n == Len(rs)
           rows == [k \in DOMAIN rs |-> write_asset_record(rs[k])]
           g == [p \in 0 .. n |-> 48 * p]
<1>1. n \in Nat /\ DOMAIN rs = 1 .. n
  OBVIOUS
<1>2. ASSUME NEW k \in 1 .. n
      PROVE  write_asset_record(rs[k]) \in Seq(Byte) /\ Len(write_asset_record(rs[k])) = 48
  <2>1. rs[k] \in FileRecord
    BY ElementOfSeq
  <2>2. IsBuffer(write_asset_record(rs[k]), 48)
    BY <2>1, RecordRoundTrip
  <2>3. QED BY <2>2 DEF IsBuffer
<1>3. /\ rows \in Seq(Seq(Byte)) /\ Len(rows) = n
      /\ \A k \in 1 .. n : rows[k] = write_asset_record(rs[k])
  BY <1>1, <1>2
<1>4. WriteRecords(rs) = FlattenSeq(rows)
  BY Zenon DEF WriteRecords
<1> HIDE DEF rows
<1>5. g \in [0 .. n -> Nat] /\ Ends(rows, n, g)
  <2>1. g \in [0 .. n -> Nat] /\ g[0] = 0
    BY <1>1
  <2>2. ASSUME NEW p \in 1 .. n PROVE g[p] = g[p - 1] + Len(rows[p])
    <3>1. g[p] = 48 * p /\ g[p - 1] = 48 * (p - 1)
      BY <1>1
    <3>2. Len(rows[p]) = 48
      BY <1>2, <1>3
    <3> HIDE DEF g
    <3>3. QED BY <1>1, <3>1, <3>2
  <2> HIDE DEF g
  <2>3. QED BY <2>1, <2>2 DEF Ends
<1>6. \A k \in 0 .. n : g[k] = 48 * k
  BY <1>1
<1> HIDE DEF g
<1>7. Whole(rows, n, g, FlattenSeq(rows))
  BY <1>3, <1>5, ByteRows, FlattenWhole
<1>8. FlattenSeq(rows) \in Seq(Byte)
  BY <1>3, FlattenBytes
<1>9. Len(FlattenSeq(rows)) = 48 * n
  BY <1>1, <1>6, <1>7 DEF Whole
<1>10. ASSUME NEW k \in 1 .. n
       PROVE  Holds(FlattenSeq(rows), 48 * (k - 1), write_asset_record(rs[k]))
  <2>1. k - 1 \in 0 .. n /\ g[k - 1] = 48 * (k - 1) /\ rows[k] = write_asset_record(rs[k])
    BY <1>1, <1>3, <1>6
  <2>2. \A r \in 1 .. Len(rows[k]) : FlattenSeq(rows)[g[k - 1] + r] = rows[k][r]
    BY <1>7 DEF Whole
  <2>3. 48 * (k - 1) \in Nat /\ 48 * (k - 1) + 48 <= 48 * n
    BY <1>1
  <2>4. Len(rows[k]) = 48
    BY <1>2, <1>3
  <2>5. 48 * (k - 1) + Len(rows[k]) <= Len(FlattenSeq(rows))
    BY <1>9, <2>3, <2>4
  <2>6. \A r \in 1 .. Len(rows[k]) : FlattenSeq(rows)[48 * (k - 1) + r] = rows[k][r]
    BY <2>1, <2>2
  <2>7. Holds(FlattenSeq(rows), 48 * (k - 1), rows[k])
    BY <2>3, <2>5, <2>6 DEF Holds
  <2>8. QED BY <2>1, <2>7
<1>11. QED BY <1>4, <1>8, <1>9, <1>10

\* align4 goes up to the next multiple of 4, and no further.
LEMMA AlignedUp ==
  ASSUME NEW n \in Nat
  PROVE  /\ align4(n) \in Nat /\ n <= align4(n) /\ align4(n) <= n + 3
         /\ align4(n) % 4 = 0
         /\ n % 4 = 0 => align4(n) = n
BY DEF align4

\* Padding is bytes, as many as are asked for.
LEMMA PaddingIs ==
  ASSUME NEW n \in Nat
  PROVE  /\ write_padding(n) \in Seq(Byte) /\ Len(write_padding(n)) = n
         /\ write_padded(n) = write_padding(n)
<1>1. n >= 0 /\ 0 \in Byte
  BY DEF Byte
<1>2. write_padding(n) = [k \in 1 .. n |-> 0]
  BY <1>1 DEF write_padding
<1>3. write_padding(n) \in Seq(Byte) /\ Len(write_padding(n)) = n
  BY <1>1, <1>2
<1>4. n = 0 => write_padding(n) = <<>>
  BY <1>3
<1>5. write_padded(n) = write_padding(n)
  BY <1>4 DEF write_padded
<1>6. QED BY <1>3, <1>5

-----------------------------------------------------------------------------
(* The whole file.                                                          *)

\* The sizes of the structures as the scripts and bun.h have them.
RealSizes == BUN_HEADER_SIZE = 60 /\ BUN_ASSET_RECORD_SIZE = 48

\* struct.pack takes every value: none is too large for its field.
Packed(w) ==
  /\ w.header \in FileHeader
  /\ w.records \in Seq(FileRecord)

\* The header stands at 0, and the records stand in the table it gives.
Laid(w) ==
  /\ w.bytes \in Seq(Byte)
  /\ Holds(w.bytes, 0, write_header(w.header))
  /\ \A k \in 1 .. Len(w.records) :
       Holds(w.bytes, w.header.asset_table_offset + 48 * (k - 1),
             write_asset_record(w.records[k]))

\* Every name and payload is as long as its record says, and stands where the
\* record says in its section.
Owned(w) ==
  /\ Len(w.assets) = Len(w.records)
  /\ \A k \in 1 .. Len(w.assets) :
       /\ w.assets[k] \in Input
       /\ w.records[k].name_length = Len(w.assets[k].name)
       /\ w.records[k].data_size = Len(w.assets[k].payload)
       /\ Holds(w.bytes, w.header.string_table_offset + w.records[k].name_offset,
                w.assets[k].name)
       /\ Holds(w.bytes, w.header.data_section_offset + w.records[k].data_offset,
                w.assets[k].payload)

\* One more part behind the bytes that are there.
LEMMA Appended ==
  ASSUME NEW n \in Nat, NEW m \in Nat, NEW b, NEW t, IsBuffer(b, n), IsBuffer(t, m)
  PROVE  /\ IsBuffer(b \o t, n + m)
         /\ Holds(b \o t, n, t)
         /\ \A s \in Seq(Byte) : \A at : Holds(b, at, s) => Holds(b \o t, at, s)
<1>1. b \in Seq(Byte) /\ Len(b) = n /\ t \in Seq(Byte)
  BY DEF IsBuffer
<1>2. QED BY <1>1, Cat, HoldsRest, HoldsFront

\* The header of _simple_valid, with its alignments carried out: the header
\* ends and records end at multiples of 4, so there is no padding but behind
\* the names and behind the payloads.
SimpleHeader(assets, edit) ==
  LET strings == 60 + 48 * Len(assets)
      strings_size == align4(Len(Concat(assets, "name")))
  IN  Overridden(Layout(Len(assets), 60, strings, strings_size, strings + strings_size,
                        align4(Len(Concat(assets, "payload")))), edit)

SimpleBytes(assets, edit) ==
  LET names == Concat(assets, "name")
      payloads == Concat(assets, "payload")
  IN  write_header(SimpleHeader(assets, edit)) \o write_padding(0)
        \o WriteRecords(Records(assets)) \o write_padding(0)
        \o names \o write_padding(align4(Len(names)) - Len(names)) \o write_padding(0)
        \o payloads \o write_padding(align4(Len(payloads)) - Len(payloads))

\* The alignments of a table at 60, of records and of a string table.
LEMMA NoGaps ==
  ASSUME NEW n \in Nat, NEW l \in Nat
  PROVE  /\ align4(60) = 60
         /\ align4(60 + n * 48) = 60 + 48 * n
         /\ align4(60 + 48 * n + align4(l)) = 60 + 48 * n + align4(l)
<1>1. align4(l) \in Nat /\ align4(l) % 4 = 0
  BY AlignedUp
<1>2. 60 \in Nat /\ 60 % 4 = 0
  OBVIOUS
<1>3. 60 + n * 48 \in Nat /\ (60 + n * 48) % 4 = 0 /\ 60 + n * 48 = 60 + 48 * n
  OBVIOUS
<1>4. 60 + 48 * n + align4(l) \in Nat /\ (60 + 48 * n + align4(l)) % 4 = 0
  BY <1>1
<1>5. QED BY <1>2, <1>3, <1>4, AlignedUp

\* That is what the script writes.
LEMMA SimpleIs ==
  ASSUME NEW assets \in Seq(Input), NEW edit, RealSizes
  PROVE  simple_valid(assets, edit)
           = Written(SimpleBytes(assets, edit), SimpleHeader(assets, edit), Records(assets), assets)
<1> DEFINE n == Len(assets)
           names == Concat(assets, "name")
           payloads == Concat(assets, "payload")
           s == align4(Len(names))
           d == align4(Len(payloads))
           h == Overridden(Layout(n, align4(60), align4(align4(60) + n * 48), s,
                                  align4(align4(align4(60) + n * 48) + s), d), edit)
<1>1. n \in Nat /\ Len(names) \in Nat /\ Len(payloads) \in Nat
  BY ConcatHolds, LenProperties
<1>2. simple_valid(assets, edit)
        = Written(write_header(h) \o write_padding(align4(60) - 60)
                    \o WriteRecords(Records(assets))
                    \o write_padding(align4(align4(60) + n * 48) - (align4(60) + n * 48))
                    \o names \o write_padding(s - Len(names))
                    \o write_padding(align4(align4(align4(60) + n * 48) + s)
                                       - (align4(align4(60) + n * 48) + s))
                    \o payloads \o write_padding(d - Len(payloads)),
                  h, Records(assets), assets)
  BY DEF simple_valid, RealSizes
<1> HIDE DEF names, payloads
<1>3. /\ align4(60) = 60 /\ 60 - 60 = 0
      /\ align4(60 + n * 48) = 60 + 48 * n /\ (60 + 48 * n) - (60 + n * 48) = 0
      /\ align4(60 + 48 * n + s) = 60 + 48 * n + s
      /\ (60 + 48 * n + s) - (60 + 48 * n + s) = 0
  <2>1. s \in Nat
    BY <1>1, AlignedUp
  <2> HIDE DEF s
  <2>2. 60 - 60 = 0 /\ (60 + 48 * n) - (60 + n * 48) = 0
        /\ (60 + 48 * n + s) - (60 + 48 * n + s) = 0
    BY <1>1, <2>1
  <2>3. QED BY <1>1, <2>2, NoGaps DEF s
<1>4. h = SimpleHeader(assets, edit)
  BY <1>3 DEF SimpleHeader, names, payloads
<1> HIDE DEF h
<1>5. simple_valid(assets, edit)
        = Written(write_header(h) \o write_padding(0)
                    \o WriteRecords(Records(assets)) \o write_padding(0)
                    \o names \o write_padding(s - Len(names)) \o write_padding(0)
                    \o payloads \o write_padding(d - Len(payloads)),
                  h, Records(assets), assets)
  BY <1>2, <1>3
<1>6. QED BY <1>4, <1>5 DEF SimpleBytes, names, payloads

\* Where the parts of that are.
LEMMA SimplePlaces ==
  ASSUME NEW assets \in Seq(Input), NEW edit,
         SimpleHeader(assets, edit) \in FileHeader, Records(assets) \in Seq(FileRecord)
  PROVE  LET b == SimpleBytes(assets, edit)
             names == Concat(assets, "name")
             payloads == Concat(assets, "payload")
             strings == 60 + 48 * Len(assets)
             data == strings + align4(Len(names))
         IN  /\ b \in Seq(Byte) /\ Len(b) = data + align4(Len(payloads))
             /\ Holds(b, 0, write_header(SimpleHeader(assets, edit)))
             /\ Holds(b, 60, WriteRecords(Records(assets)))
             /\ Holds(b, strings, names)
             /\ Holds(b, data, payloads)
<1> DEFINE n == Len(assets)
           wh == write_header(SimpleHeader(assets, edit))
           wr == WriteRecords(Records(assets))
           names == Concat(assets, "name")
           payloads == Concat(assets, "payload")
           l == Len(names)
           m == Len(payloads)
           s == align4(l)
           d == align4(m)
           none == write_padding(0)
           after_names == write_padding(s - l)
           after_payloads == write_padding(d - m)
           b1 == wh \o none
           b2 == b1 \o wr
           b3 == b2 \o none
           b4 == b3 \o names
           b5 == b4 \o after_names
           b6 == b5 \o none
           b7 == b6 \o payloads
           b8 == b7 \o after_payloads
<1>1. n \in Nat /\ l \in Nat /\ m \in Nat /\ names \in Seq(Byte) /\ payloads \in Seq(Byte)
  BY ConcatHolds, LenProperties
<1>2. wh \in Seq(Byte) /\ Len(wh) = 60
  BY HeaderRoundTrip DEF IsBuffer
<1>3. wr \in Seq(Byte) /\ Len(wr) = 48 * n
  <2>1. Len(Records(assets)) = n
    BY DEF Records
  <2>2. QED BY <2>1, RecordsHold
<1>4. s \in Nat /\ d \in Nat /\ s - l \in Nat /\ d - m \in Nat
  <2>1. s \in Nat /\ d \in Nat /\ l <= s /\ m <= d
    BY <1>1, AlignedUp
  <2> HIDE DEF l, m, s, d
  <2>2. QED BY <1>1, <2>1
<1>5. /\ IsBuffer(none, 0)
      /\ IsBuffer(after_names, s - l)
      /\ IsBuffer(after_payloads, d - m)
  BY <1>4, PaddingIs DEF IsBuffer
<1>6. SimpleBytes(assets, edit) = b8
  BY Zenon DEF SimpleBytes
<1> DEFINE r == 48 * n
           e2 == 60 + r
           e3 == e2 + l
           e4 == e2 + s
           e5 == e4 + m
           e6 == e4 + d
<1>7. /\ 0 \in Nat /\ 60 \in Nat /\ r \in Nat /\ e2 \in Nat /\ e3 \in Nat /\ e4 \in Nat
      /\ e5 \in Nat
      /\ 60 + 0 = 60 /\ 60 + r = e2 /\ e2 + 0 = e2 /\ e2 + l = e3 /\ e3 + (s - l) = e4
      /\ e4 + 0 = e4 /\ e4 + m = e5 /\ e5 + (d - m) = e6
  <2> HIDE DEF n, l, m, s, d
  <2>1. QED BY <1>1, <1>4
<1>0. IsBuffer(names, l) /\ IsBuffer(payloads, m) /\ IsBuffer(wr, r)
  BY <1>1, <1>3 DEF IsBuffer
<1> HIDE DEF n, wh, wr, names, payloads, l, m, s, d, none, after_names, after_payloads,
             b1, b2, b3, b4, b5, b6, b7, b8, r, e2, e3, e4, e5, e6
<1>8. IsBuffer(b1, 60) /\ Holds(b1, 0, wh)
  <2>1. IsBuffer(wh, 60) /\ Holds(wh, 0, wh)
    BY <1>2, HoldsFirst DEF IsBuffer
  <2>2. QED BY <1>2, <1>5, <1>7, <2>1, Appended DEF b1
<1>9. /\ IsBuffer(b2, e2)
      /\ Holds(b2, 0, wh)
      /\ Holds(b2, 60, wr)
  <2>1. /\ IsBuffer(b1 \o wr, 60 + r) /\ Holds(b1 \o wr, 60, wr)
        /\ \A u \in Seq(Byte) : \A at : Holds(b1, at, u) => Holds(b1 \o wr, at, u)
    BY <1>0, <1>7, <1>8, Appended, Zenon
  <2>2. QED BY <1>1, <1>2, <1>3, <1>7, <1>8, <2>1, Zenon DEF b2
<1>10. /\ IsBuffer(b3, e2)
       /\ Holds(b3, 0, wh)
       /\ Holds(b3, 60, wr)
  <2>1. /\ IsBuffer(b2 \o none, e2 + 0) /\ Holds(b2 \o none, e2, none)
        /\ \A u \in Seq(Byte) : \A at : Holds(b2, at, u) => Holds(b2 \o none, at, u)
    BY <1>5, <1>7, <1>9, Appended, Zenon
  <2>2. QED BY <1>1, <1>2, <1>3, <1>7, <1>9, <2>1, Zenon DEF b3
<1>11. /\ IsBuffer(b4, e3)
       /\ Holds(b4, 0, wh)
       /\ Holds(b4, 60, wr)
       /\ Holds(b4, e2, names)
  <2>1. /\ IsBuffer(b3 \o names, e2 + l) /\ Holds(b3 \o names, e2, names)
        /\ \A u \in Seq(Byte) : \A at : Holds(b3, at, u) => Holds(b3 \o names, at, u)
    BY <1>0, <1>1, <1>7, <1>10, Appended, Zenon
  <2>2. QED BY <1>1, <1>2, <1>3, <1>7, <1>10, <2>1, Zenon DEF b4
<1>12. /\ IsBuffer(b5, e4)
       /\ Holds(b5, 0, wh)
       /\ Holds(b5, 60, wr)
       /\ Holds(b5, e2, names)
  <2>1. /\ IsBuffer(b4 \o after_names, e3 + (s - l)) /\ Holds(b4 \o after_names, e3, after_names)
        /\ \A u \in Seq(Byte) : \A at : Holds(b4, at, u) => Holds(b4 \o after_names, at, u)
    BY <1>4, <1>5, <1>7, <1>11, Appended, Zenon
  <2>2. QED BY <1>1, <1>2, <1>3, <1>7, <1>11, <2>1, Zenon DEF b5
<1>13. /\ IsBuffer(b6, e4)
       /\ Holds(b6, 0, wh)
       /\ Holds(b6, 60, wr)
       /\ Holds(b6, e2, names)
  <2>1. /\ IsBuffer(b5 \o none, e4 + 0) /\ Holds(b5 \o none, e4, none)
        /\ \A u \in Seq(Byte) : \A at : Holds(b5, at, u) => Holds(b5 \o none, at, u)
    BY <1>5, <1>7, <1>12, Appended, Zenon
  <2>2. QED BY <1>1, <1>2, <1>3, <1>7, <1>12, <2>1, Zenon DEF b6
<1>14. /\ IsBuffer(b7, e5)
       /\ Holds(b7, 0, wh)
       /\ Holds(b7, 60, wr)
       /\ Holds(b7, e2, names)
       /\ Holds(b7, e4, payloads)
  <2>1. /\ IsBuffer(b6 \o payloads, e4 + m) /\ Holds(b6 \o payloads, e4, payloads)
        /\ \A u \in Seq(Byte) : \A at : Holds(b6, at, u) => Holds(b6 \o payloads, at, u)
    BY <1>0, <1>1, <1>7, <1>13, Appended, Zenon
  <2>2. QED BY <1>1, <1>2, <1>3, <1>7, <1>13, <2>1, Zenon DEF b7
<1>15. /\ IsBuffer(b8, e6)
       /\ Holds(b8, 0, wh)
       /\ Holds(b8, 60, wr)
       /\ Holds(b8, e2, names)
       /\ Holds(b8, e4, payloads)
  <2>1. /\ IsBuffer(b7 \o after_payloads, e5 + (d - m)) /\ Holds(b7 \o after_payloads, e5, after_payloads)
        /\ \A u \in Seq(Byte) : \A at : Holds(b7, at, u) => Holds(b7 \o after_payloads, at, u)
    BY <1>4, <1>5, <1>7, <1>14, Appended, Zenon
  <2>2. QED BY <1>1, <1>2, <1>3, <1>7, <1>14, <2>1, Zenon DEF b8
<1>16. QED BY <1>6, <1>15 DEF IsBuffer, n, wh, wr, names, payloads, l, m, s, d, r, e2, e4, e6

\* The fields of the header that no keyword overrides.
Computed == {"asset_count", "asset_table_offset", "string_table_offset", "string_table_size",
             "data_section_offset", "data_section_size"}

\* The header _simple_valid makes: the offsets and sizes it computes, and the
\* keywords it was given in the other fields.
LEMMA SimpleFields ==
  ASSUME NEW assets \in Seq(Input), NEW edit, DOMAIN edit \cap Computed = {}
  PROVE  LET h == SimpleHeader(assets, edit)
             strings == 60 + 48 * Len(assets)
             strings_size == align4(Len(Concat(assets, "name")))
         IN  /\ h.asset_count = Len(assets) /\ h.asset_table_offset = 60
             /\ h.string_table_offset = strings /\ h.string_table_size = strings_size
             /\ h.data_section_offset = strings + strings_size
             /\ h.data_section_size = align4(Len(Concat(assets, "payload")))
             /\ "magic" \notin DOMAIN edit => h.magic = BUN_MAGIC
             /\ "version_major" \notin DOMAIN edit => h.version_major = 1
             /\ "version_minor" \notin DOMAIN edit => h.version_minor = 0
BY DEF SimpleHeader, Overridden, Layout, Computed

\* The records, one for each asset.
LEMMA SimpleRecords ==
  ASSUME NEW assets \in Seq(Input)
  PROVE  /\ Len(Records(assets)) = Len(assets)
         /\ \A k \in 1 .. Len(assets) :
              /\ assets[k] \in Input
              /\ Records(assets)[k]
                   = Record(assets[k], Len(Concat(SubSeq(assets, 1, k - 1), "name")),
                            Len(Concat(SubSeq(assets, 1, k - 1), "payload")))
<1>1. Len(assets) \in Nat /\ DOMAIN assets = 1 .. Len(assets)
  OBVIOUS
<1>2. \A k \in 1 .. Len(assets) : assets[k] \in Input
  BY ElementOfSeq
<1>3. QED BY <1>1, <1>2 DEF Records

\* What _simple_valid writes is laid out as its header and its records say, and
\* every asset has its own bytes, whatever the assets are.
THEOREM SimpleLaid ==
  ASSUME NEW assets \in Seq(Input), NEW edit, DOMAIN edit \cap Computed = {}, RealSizes,
         Packed(simple_valid(assets, edit))
  PROVE  /\ Laid(simple_valid(assets, edit)) /\ Owned(simple_valid(assets, edit))
         /\ simple_valid(assets, edit).header.asset_count = Len(assets)
<1> DEFINE n == Len(assets)
           h == SimpleHeader(assets, edit)
           rs == Records(assets)
           b == SimpleBytes(assets, edit)
           w == simple_valid(assets, edit)
           names == Concat(assets, "name")
           payloads == Concat(assets, "payload")
           strings == 60 + 48 * n
           data == strings + align4(Len(names))
<1>1. w.bytes = b /\ w.header = h /\ w.records = rs /\ w.assets = assets
  BY SimpleIs DEF Written
<1>2. h \in FileHeader /\ rs \in Seq(FileRecord)
  BY <1>1 DEF Packed
<1>3. /\ b \in Seq(Byte) /\ Holds(b, 0, write_header(h)) /\ Holds(b, 60, WriteRecords(rs))
      /\ Holds(b, strings, names) /\ Holds(b, data, payloads)
  BY <1>2, SimplePlaces
<1>4. /\ h.asset_count = n /\ h.asset_table_offset = 60
      /\ h.string_table_offset = strings /\ h.data_section_offset = data
  BY SimpleFields
<1>5. /\ Len(rs) = n
      /\ \A k \in 1 .. n : /\ assets[k] \in Input
                           /\ rs[k] = Record(assets[k],
                                        Len(Concat(SubSeq(assets, 1, k - 1), "name")),
                                        Len(Concat(SubSeq(assets, 1, k - 1), "payload")))
  BY SimpleRecords
<1>6. /\ names \in Seq(Byte) /\ payloads \in Seq(Byte)
      /\ \A k \in 1 .. n :
           /\ Holds(names, Len(Concat(SubSeq(assets, 1, k - 1), "name")), assets[k].name)
           /\ Holds(payloads, Len(Concat(SubSeq(assets, 1, k - 1), "payload")), assets[k].payload)
  BY ConcatHolds
<1> HIDE DEF n, h, rs, b, w, names, payloads, strings, data
<1>7. ASSUME NEW k \in 1 .. n
      PROVE  Holds(b, 60 + 48 * (k - 1), write_asset_record(rs[k]))
  <2>1. /\ WriteRecords(rs) \in Seq(Byte)
        /\ Holds(WriteRecords(rs), 48 * (k - 1), write_asset_record(rs[k]))
    BY <1>2, <1>5, RecordsHold
  <2>2. write_asset_record(rs[k]) \in Seq(Byte)
    <3>1. rs[k] \in FileRecord
      BY <1>2, <1>5, ElementOfSeq
    <3>2. QED BY <3>1, RecordRoundTrip DEF IsBuffer
  <2>3. QED BY <1>3, <2>1, <2>2, HoldsWithin, Zenon
<1>8. ASSUME NEW k \in 1 .. n
      PROVE  /\ assets[k] \in Input
             /\ rs[k].name_length = Len(assets[k].name)
             /\ rs[k].data_size = Len(assets[k].payload)
             /\ Holds(b, strings + rs[k].name_offset, assets[k].name)
             /\ Holds(b, data + rs[k].data_offset, assets[k].payload)
  <2>1. assets[k] \in Input /\ assets[k].name \in Seq(Byte) /\ assets[k].payload \in Seq(Byte)
    BY <1>5 DEF Input
  <2> DEFINE p == Len(Concat(SubSeq(assets, 1, k - 1), "name"))
             q == Len(Concat(SubSeq(assets, 1, k - 1), "payload"))
  <2>2. rs[k] = Record(assets[k], p, q)
    BY <1>5
  <2>3. Holds(names, p, assets[k].name) /\ Holds(payloads, q, assets[k].payload)
    BY <1>6
  <2> HIDE DEF p, q
  <2>4. /\ rs[k].name_offset = p /\ rs[k].name_length = Len(assets[k].name)
        /\ rs[k].data_offset = q /\ rs[k].data_size = Len(assets[k].payload)
    BY <2>2 DEF Record
  <2>5. Holds(b, strings + p, assets[k].name)
    BY <1>3, <1>6, <2>1, <2>3, HoldsWithin, Zenon
  <2>6. Holds(b, data + q, assets[k].payload)
    BY <1>3, <1>6, <2>1, <2>3, HoldsWithin, Zenon
  <2>7. QED BY <2>1, <2>4, <2>5, <2>6
<1>9. Laid(w)
  BY <1>1, <1>3, <1>4, <1>5, <1>7 DEF Laid
<1>10. Owned(w)
  <2>1. Len(w.assets) = n /\ Len(w.records) = n
    BY <1>1, <1>5 DEF n
  <2>2. ASSUME NEW k \in 1 .. n
        PROVE  /\ w.assets[k] \in Input
               /\ w.records[k].name_length = Len(w.assets[k].name)
               /\ w.records[k].data_size = Len(w.assets[k].payload)
               /\ Holds(w.bytes, w.header.string_table_offset + w.records[k].name_offset,
                        w.assets[k].name)
               /\ Holds(w.bytes, w.header.data_section_offset + w.records[k].data_offset,
                        w.assets[k].payload)
    BY <1>1, <1>4, <1>8
  <2>3. QED BY <2>1, <2>2 DEF Owned
<1>11. QED BY <1>1, <1>4, <1>9, <1>10 DEF w, n

-----------------------------------------------------------------------------
(* The generator.                                                           *)

\* One row is itself.
LEMMA ConcatOne ==
  ASSUME NEW a \in Input, NEW f \in {"name", "payload"}
  PROVE  Concat(<<a>>, f) = a[f]
<1> DEFINE rows == [k \in DOMAIN <<a>> |-> <<a>>[k][f]]
<1>1. a[f] \in Seq(Byte)
  BY DEF Input
<1>2. rows \in Seq(Seq(Byte)) /\ Len(rows) = 1 /\ rows[1] = a[f]
  <2>1. DOMAIN <<a>> = 1 .. 1 /\ <<a>>[1] = a
    OBVIOUS
  <2>2. QED BY <1>1, <2>1
<1>3. Concat(<<a>>, f) = FlattenSeq(rows)
  BY Zenon DEF Concat
<1> HIDE DEF rows
<1>4. rows \in Rows /\ rows # <<>>
  BY <1>2, ByteRows
<1>5. PICK g : Joins(rows, 1, g) /\ FlattenSeq(rows) = g[1]
  BY <1>2, <1>4, FlattenJoins
<1>6. g[1] = rows[1]
  BY <1>5 DEF Joins
<1>7. QED BY <1>2, <1>3, <1>5, <1>6

\* main of bunfile_generator.py writes, byte for byte, what _simple_valid of
\* make_fixtures.py writes for the same asset, although it has a formula of its
\* own for the data section and skips its paddings instead of asserting them.
THEOREM ScriptsAgree ==
  ASSUME NEW a \in Input, RealSizes
  PROVE  minimal(a) = simple_valid(<<a>>, <<>>)
<1> DEFINE l == Len(a.name)
           m == Len(a.payload)
           s == align4(l)
           d == align4(m)
           h == Layout(1, align4(60), align4(align4(60) + 48), s,
                       align4(align4(align4(60) + 48) + l), d)
<1>1. l \in Nat /\ m \in Nat /\ <<a>> \in Seq(Input) /\ Len(<<a>>) = 1
  BY LenProperties DEF Input
<1>2. Concat(<<a>>, "name") = a.name /\ Concat(<<a>>, "payload") = a.payload
  BY ConcatOne
<1>3. minimal(a)
        = Written(write_header(h) \o write_padded(align4(60) - 60)
                    \o WriteRecords(Records(<<a>>))
                    \o write_padded(align4(align4(60) + 48) - (align4(60) + 48))
                    \o a.name \o write_padded(s - l)
                    \o write_padded(align4(align4(align4(60) + 48) + l)
                                      - (align4(align4(60) + 48) + s))
                    \o a.payload \o write_padded(d - m),
                  h, Records(<<a>>), <<a>>)
  BY DEF minimal, RealSizes
<1>4. s \in Nat /\ d \in Nat /\ s - l \in Nat /\ d - m \in Nat
  <2>1. s \in Nat /\ d \in Nat /\ l <= s /\ m <= d
    BY <1>1, AlignedUp
  <2> HIDE DEF l, m, s, d
  <2>2. QED BY <1>1, <2>1
<1>5. align4(60) = 60 /\ align4(60 + 48) = 108 /\ align4(108 + l) = 108 + s
  <2>1. align4(60) = 60 /\ align4(60 + 48) = 108
    BY DEF align4
  <2> HIDE DEF l
  <2>2. align4(108 + l) = 108 + align4(l)
    BY <1>1 DEF align4
  <2>3. QED BY <2>1, <2>2
<1>6. /\ 60 - 60 = 0 /\ 108 - (60 + 48) = 0 /\ (108 + s) - (108 + s) = 0
      /\ 60 + 48 * 1 = 108
  <2> HIDE DEF s
  <2>1. QED BY <1>4
<1>7. /\ write_padded(0) = write_padding(0)
      /\ write_padded(s - l) = write_padding(s - l)
      /\ write_padded(d - m) = write_padding(d - m)
  BY <1>4, PaddingIs
<1>8. SimpleHeader(<<a>>, <<>>) = h
  <2>1. SimpleHeader(<<a>>, <<>>) = Overridden(Layout(1, 60, 108, s, 108 + s, d), <<>>)
    BY <1>1, <1>2, <1>6 DEF SimpleHeader
  <2>2. h = Layout(1, 60, 108, s, 108 + s, d)
    BY <1>5
  <2> HIDE DEF h, s, d
  <2>3. DOMAIN <<>> = {}
    OBVIOUS
  <2>4. Overridden(Layout(1, 60, 108, s, 108 + s, d), <<>>) = Layout(1, 60, 108, s, 108 + s, d)
    BY <2>3 DEF Overridden, Layout
  <2>5. QED BY <2>1, <2>2, <2>4
<1>9. SimpleBytes(<<a>>, <<>>)
        = write_header(h) \o write_padding(0)
            \o WriteRecords(Records(<<a>>)) \o write_padding(0)
            \o a.name \o write_padding(s - l) \o write_padding(0)
            \o a.payload \o write_padding(d - m)
  BY <1>2, <1>8 DEF SimpleBytes
<1>10. minimal(a) = Written(SimpleBytes(<<a>>, <<>>), h, Records(<<a>>), <<a>>)
  <2> DEFINE x == align4(60) - 60
             y == align4(align4(60) + 48) - (align4(60) + 48)
             z == align4(align4(align4(60) + 48) + l) - (align4(align4(60) + 48) + s)
  <2>1. x = 0 /\ y = 0 /\ z = 0
    <3> HIDE DEF l, s
    <3>1. QED BY <1>5, <1>6
  <2>2. minimal(a)
          = Written(write_header(h) \o write_padded(x)
                      \o WriteRecords(Records(<<a>>)) \o write_padded(y)
                      \o a.name \o write_padded(s - l) \o write_padded(z)
                      \o a.payload \o write_padded(d - m),
                    h, Records(<<a>>), <<a>>)
    BY <1>3
  <2> HIDE DEF l, m, s, d, h, x, y, z
  <2>3. QED BY <1>7, <1>9, <2>1, <2>2
<1>11. QED BY <1>1, <1>8, <1>10, SimpleIs

-----------------------------------------------------------------------------
(* Reading it back.                                                         *)

\* What is read at a place of bytes that stand somewhere is the same there.
LEMMA ReadHeld ==
  ASSUME NEW b \in Seq(Byte), NEW s \in Seq(Byte), Holds(b, 0, s), NEW o \in Nat
  PROVE  /\ o + 2 <= Len(s) => read_u16_le(b, o) = read_u16_le(s, o)
         /\ o + 4 <= Len(s) => read_u32_le(b, o) = read_u32_le(s, o)
         /\ o + 8 <= Len(s) => read_u64_le(b, o) = read_u64_le(s, o)
<1>0. Len(s) \in Nat /\ \A r \in 1 .. Len(s) : b[r] = s[r]
  BY LenProperties DEF Holds
<1>1. ASSUME NEW k \in Nat, k + 2 <= Len(s)
      PROVE  read_u16_le(b, k) = read_u16_le(s, k)
  <2>1. k + 1 \in 1 .. Len(s) /\ k + 2 \in 1 .. Len(s)
    BY <1>0, <1>1
  <2>2. QED BY <1>0, <2>1, Zenon DEF read_u16_le
<1>2. ASSUME NEW k \in Nat, k + 4 <= Len(s)
      PROVE  read_u32_le(b, k) = read_u32_le(s, k)
  <2>1. k + 2 \in Nat /\ k + 2 <= Len(s) /\ (k + 2) + 2 <= Len(s)
    BY <1>0, <1>2
  <2>2. read_u16_le(b, k) = read_u16_le(s, k) /\ read_u16_le(b, k + 2) = read_u16_le(s, k + 2)
    BY <1>1, <2>1
  <2>3. QED BY <2>2, Zenon DEF read_u32_le
<1>3. ASSUME o + 8 <= Len(s)
      PROVE  read_u64_le(b, o) = read_u64_le(s, o)
  <2>1. o + 4 \in Nat /\ o + 4 <= Len(s) /\ (o + 4) + 4 <= Len(s)
    BY <1>0, <1>3
  <2>2. read_u32_le(b, o) = read_u32_le(s, o) /\ read_u32_le(b, o + 4) = read_u32_le(s, o + 4)
    BY <1>2, <2>1
  <2>3. QED BY <2>2, Zenon DEF read_u64_le
<1>4. QED BY <1>1, <1>2, <1>3

\* A header that stands at 0 is the one that is decoded.
LEMMA HeaderHeld ==
  ASSUME NEW b \in Seq(Byte), NEW h \in FileHeader, Holds(b, 0, write_header(h))
  PROVE  DecodeHeader(b) = h /\ Len(b) >= 60
<1> DEFINE s == write_header(h)
<1>1. s \in Seq(Byte) /\ Len(s) = 60 /\ DecodeHeader(s) = h
  BY HeaderRoundTrip DEF IsBuffer
<1> HIDE DEF s
<1>2. Holds(b, 0, s)
  BY DEF s
<1>3. DecodeHeader(b) = DecodeHeader(s)
  <2>1. /\ read_u32_le(b, 0) = read_u32_le(s, 0) /\ read_u16_le(b, 4) = read_u16_le(s, 4)
        /\ read_u16_le(b, 6) = read_u16_le(s, 6) /\ read_u32_le(b, 8) = read_u32_le(s, 8)
        /\ read_u64_le(b, 12) = read_u64_le(s, 12) /\ read_u64_le(b, 20) = read_u64_le(s, 20)
        /\ read_u64_le(b, 28) = read_u64_le(s, 28) /\ read_u64_le(b, 36) = read_u64_le(s, 36)
        /\ read_u64_le(b, 44) = read_u64_le(s, 44) /\ read_u64_le(b, 52) = read_u64_le(s, 52)
    <3>1. ASSUME NEW o \in Nat
          PROVE  /\ o + 2 <= 60 => read_u16_le(b, o) = read_u16_le(s, o)
                 /\ o + 4 <= 60 => read_u32_le(b, o) = read_u32_le(s, o)
                 /\ o + 8 <= 60 => read_u64_le(b, o) = read_u64_le(s, o)
      BY <1>1, <1>2, ReadHeld
    <3>2. read_u32_le(b, 0) = read_u32_le(s, 0) /\ read_u32_le(b, 8) = read_u32_le(s, 8)
      BY <3>1
    <3>3. read_u16_le(b, 4) = read_u16_le(s, 4) /\ read_u16_le(b, 6) = read_u16_le(s, 6)
      BY <3>1
    <3>4. /\ read_u64_le(b, 12) = read_u64_le(s, 12) /\ read_u64_le(b, 20) = read_u64_le(s, 20)
          /\ read_u64_le(b, 28) = read_u64_le(s, 28) /\ read_u64_le(b, 36) = read_u64_le(s, 36)
          /\ read_u64_le(b, 44) = read_u64_le(s, 44) /\ read_u64_le(b, 52) = read_u64_le(s, 52)
      BY <3>1
    <3>5. QED BY <3>2, <3>3, <3>4
  <2>2. QED BY <2>1, Zenon DEF DecodeHeader
<1>4. Len(b) >= 60
  BY <1>1, <1>2, LenProperties DEF Holds
<1>5. QED BY <1>1, <1>3, <1>4

\* A record that stands at a place is the one that is decoded from there.
LEMMA RecordHeld ==
  ASSUME NEW b \in Seq(Byte), NEW r \in FileRecord, NEW p, Holds(b, p, write_asset_record(r))
  PROVE  /\ read_asset_record_from_buf(SubSeq(b, p + 1, p + 48)) = r
         /\ p \in Nat /\ p + 48 <= Len(b)
<1>1. /\ write_asset_record(r) \in Seq(Byte) /\ Len(write_asset_record(r)) = 48
      /\ read_asset_record_from_buf(write_asset_record(r)) = r
  BY RecordRoundTrip DEF IsBuffer
<1>2. SubSeq(b, p + 1, p + 48) = write_asset_record(r)
  BY <1>1, TakenOut
<1>3. QED BY <1>1, <1>2 DEF Holds

-----------------------------------------------------------------------------
(* The file the parser reads.                                               *)

\* A file that holds the bytes a script has written.
ReadFrom(f) ==
  LET o == FileOf(f.written.bytes)
  IN  f.size = o.size /\ f.header = o.header /\ f.records = o.records /\ f.bytes = o.bytes

\* What the parser reads at the places where it looks is what was written: the
\* header, the records and, when the script was given assets, their bytes. Only
\* a header that is malformed may count other records than were written.
Faithful(f) ==
  LET w == f.written IN
  /\ ReadFrom(f) /\ Packed(w) /\ Laid(w)
  /\ w.header.asset_count = Len(w.records) \/ HeaderMalformed(f)
  /\ w.assets # <<>> => Owned(w)

\* Size, header and bytes.
LEMMA FileIs ==
  ASSUME NEW f, Faithful(f), RealSizes
  PROVE  LET w == f.written IN
         /\ w.bytes \in Seq(Byte) /\ f.size = Len(w.bytes) /\ DecodeHeader(w.bytes) = w.header
         /\ f.header = [x \in DOMAIN ZeroHeader |-> w.header[x]]
         /\ \A p \in Nat : p < Len(w.bytes) => ByteAt(f, p) = w.bytes[p + 1]
<1> DEFINE w == f.written
           b == w.bytes
           o == FileOf(b)
<1>1. b \in Seq(Byte) /\ w.header \in FileHeader /\ Holds(b, 0, write_header(w.header))
  BY DEF Faithful, Packed, Laid
<1>2. DecodeHeader(b) = w.header /\ Len(b) >= 60 /\ Len(b) \in Nat
  BY <1>1, HeaderHeld, LenProperties, Zenon
<1>3. /\ f.size = o.size /\ f.header = o.header /\ f.bytes = o.bytes
  BY DEF Faithful, ReadFrom
<1> HIDE DEF b
<1>4. /\ o.size = Len(b) /\ o.bytes = [p \in 0 .. Len(b) - 1 |-> b[p + 1]]
      /\ o.header = [x \in DOMAIN ZeroHeader |->
                       (IF Len(b) < BUN_HEADER_SIZE THEN ZeroHeader ELSE DecodeHeader(b))[x]]
  BY DEF FileOf
<1>5. ~(Len(b) < BUN_HEADER_SIZE)
  BY <1>2 DEF RealSizes
<1>6. ASSUME NEW p \in Nat, p < Len(b) PROVE ByteAt(f, p) = b[p + 1]
  BY <1>2, <1>3, <1>4, <1>6 DEF ByteAt
<1>7. f.header = [x \in DOMAIN ZeroHeader |-> w.header[x]]
  BY <1>2, <1>3, <1>4, <1>5
<1>8. QED BY <1>1, <1>2, <1>3, <1>4, <1>6, <1>7 DEF b

\* The places of a table where records are read.
Slots(b, h) ==
  {p \in h.asset_table_offset .. Len(b) - BUN_ASSET_RECORD_SIZE :
     /\ (p - h.asset_table_offset) % BUN_ASSET_RECORD_SIZE = 0
     /\ (p - h.asset_table_offset) \div BUN_ASSET_RECORD_SIZE < h.asset_count}

\* The k-th entry is the record that was written k-th.
LEMMA EntryIs ==
  ASSUME NEW f, Faithful(f), RealSizes, ~HeaderMalformed(f), NEW k \in Nat,
         k < f.header.asset_count
  PROVE  LET w == f.written
             p == w.header.asset_table_offset + k * 48
         IN  /\ k + 1 \in 1 .. Len(w.records)
             /\ Entry(f, k) = [x \in DOMAIN ZeroRecord |-> w.records[k + 1][x]]
             /\ read_asset_record_from_buf(SubSeq(w.bytes, p + 1, p + 48)) = w.records[k + 1]
             /\ w.records[k + 1] \in FileRecord
<1> DEFINE w == f.written
           b == w.bytes
           t == w.header.asset_table_offset
           p == t + k * 48
           r == w.records[k + 1]
           q == t + 48 * ((k + 1) - 1)
<1>1. /\ b \in Seq(Byte) /\ w.header \in FileHeader /\ w.records \in Seq(FileRecord)
      /\ \A j \in 1 .. Len(w.records) :
           Holds(b, t + 48 * (j - 1), write_asset_record(w.records[j]))
      /\ w.header.asset_count = Len(w.records)
  BY DEF Faithful, Packed, Laid
<1>2. /\ f.header = [x \in DOMAIN ZeroHeader |-> w.header[x]]
      /\ f.size = Len(b) /\ DecodeHeader(b) = w.header
  BY FileIs
<1>3. t \in Nat /\ Len(b) \in Nat /\ Len(w.records) \in Nat
  BY <1>1, LenProperties DEF FileHeader, Word64
<1>4. f.header.asset_count = w.header.asset_count /\ f.header.asset_table_offset = t
  BY <1>2 DEF ZeroHeader
<1>5. k + 1 \in 1 .. Len(w.records) /\ k < w.header.asset_count
  BY <1>1, <1>3, <1>4
<1>6. r \in FileRecord
  BY <1>1, <1>5, ElementOfSeq
<1>7. q = p /\ p \in Nat
  BY <1>3
<1>8. Holds(b, p, write_asset_record(r))
  BY <1>1, <1>5, <1>7
<1> HIDE DEF b, t, p, r, q
<1>9. read_asset_record_from_buf(SubSeq(b, p + 1, p + 48)) = r /\ p + 48 <= Len(b)
  BY <1>1, <1>6, <1>8, RecordHeld
<1>10. f.records = [x \in Slots(b, f.header) |->
                      [y \in DOMAIN ZeroRecord |->
                         read_asset_record_from_buf(
                           SubSeq(b, x + 1, x + BUN_ASSET_RECORD_SIZE))[y]]]
  <2> DEFINE whole == IF Len(b) < BUN_HEADER_SIZE THEN ZeroHeader ELSE DecodeHeader(b)
             h == [x \in DOMAIN ZeroHeader |-> whole[x]]
  <2>1. /\ FileOf(b).header = h
        /\ FileOf(b).records = [x \in Slots(b, h) |->
                      [y \in DOMAIN ZeroRecord |->
                         read_asset_record_from_buf(
                           SubSeq(b, x + 1, x + BUN_ASSET_RECORD_SIZE))[y]]]
    BY DEF FileOf, Slots
  <2>2. f.header = FileOf(b).header /\ f.records = FileOf(b).records
    BY DEF Faithful, ReadFrom, b
  <2> HIDE DEF whole, h
  <2>3. QED BY <2>1, <2>2
<1>11. p \in Slots(b, f.header)
  <2>1. /\ p - t = k * 48 /\ (k * 48) % 48 = 0 /\ (k * 48) \div 48 = k
        /\ t <= p /\ p <= Len(b) - 48
    BY <1>3, <1>7, <1>9 DEF p
  <2>2. QED BY <1>1, <1>3, <1>4, <1>5, <1>7, <2>1 DEF Slots, RealSizes
<1>12. Entry(f, k) = f.records[p]
  <2>1. f.header.asset_table_offset + k * BUN_ASSET_RECORD_SIZE = p
    BY <1>4 DEF RealSizes, p
  <2>2. QED BY <1>10, <1>11, <2>1 DEF Entry, RecordAt
<1>13. f.records[p] = [y \in DOMAIN ZeroRecord |-> r[y]]
  BY <1>9, <1>10, <1>11 DEF RealSizes
<1>14. QED BY <1>5, <1>6, <1>9, <1>12, <1>13 DEF b, t, p, r

\* The bytes of the file where something stands.
LEMMA BytesHeld ==
  ASSUME Faithful(disk), RealSizes, NEW s \in Seq(Byte), NEW p, NEW n \in Nat,
         Holds(disk.written.bytes, p, s)
  PROVE  Bytes(p, AtMost(n, Len(s))) = Beginning(s, n)
<1> DEFINE b == disk.written.bytes
           m == AtMost(n, Len(s))
<1>1. /\ b \in Seq(Byte) /\ Len(b) \in Nat /\ Len(s) \in Nat /\ p \in Nat
      /\ p + Len(s) <= Len(b)
  BY LenProperties DEF Holds, Faithful, Laid
<1>2. m \in Nat /\ m <= Len(s)
  BY <1>1 DEF AtMost
<1>3. \A x \in Nat : x < Len(b) => ByteAt(disk, x) = b[x + 1]
  BY FileIs
<1>4. \A r \in 1 .. Len(s) : b[p + r] = s[r]
  BY DEF Holds
<1> HIDE DEF b, m
<1>5. ASSUME NEW k \in 1 .. m PROVE ByteAt(disk, p + k - 1) = s[k]
  <2>1. /\ p + k - 1 \in Nat /\ p + k - 1 < Len(b) /\ (p + k - 1) + 1 = p + k
        /\ k \in 1 .. Len(s)
    BY <1>1, <1>2
  <2>2. ByteAt(disk, p + k - 1) = b[(p + k - 1) + 1]
    BY <1>3, <2>1
  <2>3. QED BY <1>4, <2>1, <2>2
<1>6. SubSeq(s, 1, m) = [k \in 1 .. m |-> s[k]]
  BY <1>1, <1>2
<1>7. Bytes(p, m) = [k \in 1 .. m |-> ByteAt(disk, p + k - 1)]
  BY Zenon DEF Bytes
<1>8. Bytes(p, m) = SubSeq(s, 1, m)
  BY <1>5, <1>6, <1>7
<1>9. QED BY <1>8 DEF Beginning, m

\* In the loop's body the header and the record in hand are the written ones.
LEMMA InHand ==
  ASSUME Faithful(disk), RealSizes, ParseInvariant, InBody
  PROVE  LET w == disk.written
             r == w.records[i + 1]
             p == w.header.asset_table_offset + i * 48
         IN  /\ i + 1 \in 1 .. Len(w.records) /\ r \in FileRecord
             /\ header = [x \in DOMAIN ZeroHeader |-> w.header[x]]
             /\ rec = [x \in DOMAIN ZeroRecord |-> r[x]]
             /\ read_asset_record_from_buf(SubSeq(w.bytes, p + 1, p + 48)) = r
<1>1. /\ header = disk.header /\ ~HeaderMalformed(disk)
      /\ i < header.asset_count /\ rec = Entry(disk, i)
  BY DEF ParseInvariant, HeaderKnown, Counting, InLoop
<1>2. i \in Nat
  BY WidthAssumption DEF ParseInvariant, TypeOK, u32
<1>3. disk.header = [x \in DOMAIN ZeroHeader |-> disk.written.header[x]]
  BY FileIs
<1>4. QED BY <1>1, <1>2, <1>3, EntryIs

\* The snippets' bytes are the asset's.
LEMMA OwnBytesNow ==
  ASSUME Faithful(disk), RealSizes, ParseInvariant, FromDisk
  PROVE  OwnBytes
<1> SUFFICES ASSUME InBody, disk.written.assets # <<>>, touched.use \in {"name", "payload"}
             PROVE  Bytes(touched.from, touched.len) =
                      IF touched.use = "name"
                        THEN Beginning(disk.written.assets[i + 1].name, NAME_SNIPPET_BYTES)
                        ELSE Beginning(disk.written.assets[i + 1].payload, PayloadShown)
  BY Zenon DEF OwnBytes
<1> DEFINE w == disk.written
           a == w.assets[i + 1]
           r == w.records[i + 1]
           s == w.header.string_table_offset
           d == w.header.data_section_offset
<1>1. /\ i + 1 \in 1 .. Len(w.records) /\ r \in FileRecord
      /\ header = [x \in DOMAIN ZeroHeader |-> w.header[x]]
      /\ rec = [x \in DOMAIN ZeroRecord |-> r[x]]
  BY InHand
<1>2. /\ header.string_table_offset = s /\ header.data_section_offset = d
      /\ rec.name_offset = r.name_offset /\ rec.name_length = r.name_length
      /\ rec.data_offset = r.data_offset /\ rec.data_size = r.data_size
  BY <1>1 DEF ZeroHeader, ZeroRecord
<1>3. /\ a \in Input /\ r.name_length = Len(a.name) /\ r.data_size = Len(a.payload)
      /\ Holds(w.bytes, s + r.name_offset, a.name)
      /\ Holds(w.bytes, d + r.data_offset, a.payload)
  BY <1>1 DEF Faithful, Owned
<1>4. /\ a.name \in Seq(Byte) /\ Len(a.name) \in Nat
      /\ a.payload \in Seq(Byte) /\ Len(a.payload) \in Nat
      /\ NAME_SNIPPET_BYTES \in Nat /\ PAYLOAD_SNIPPET_BYTES \in Nat
  BY <1>3, LenProperties, ParseAssumption DEF Input
<1> HIDE DEF a, r, s, d
<1>5. CASE touched.use = "name"
  <2>1. touched = [use |-> "name", from |-> s + r.name_offset,
                   len |-> AtMost(Len(a.name), NAME_SNIPPET_BYTES)]
    BY <1>2, <1>3, <1>5 DEF FromDisk, LastRead
  <2>2. AtMost(Len(a.name), NAME_SNIPPET_BYTES) = AtMost(NAME_SNIPPET_BYTES, Len(a.name))
    BY <1>4 DEF AtMost
  <2>3. Bytes(touched.from, touched.len) = Beginning(a.name, NAME_SNIPPET_BYTES)
    BY <1>3, <1>4, <2>1, <2>2, BytesHeld
  <2>4. QED BY <1>5, <2>3 DEF a
<1>6. CASE touched.use = "payload"
  <2>1. touched = [use |-> "payload", from |-> d + r.data_offset, len |-> PayloadShown]
    BY <1>2, <1>6 DEF FromDisk, LastRead
  <2>2. /\ PayloadShown \in Nat
        /\ PayloadShown = AtMost(PayloadShown, Len(a.payload))
    BY <1>2, <1>3, <1>4 DEF PayloadShown, AtMost
  <2>3. Bytes(touched.from, touched.len) = Beginning(a.payload, PayloadShown)
    BY <1>3, <1>4, <2>1, <2>2, BytesHeld
  <2>4. QED BY <1>6, <2>3 DEF a
<1>7. QED BY <1>5, <1>6

\* A structure printed line by line shows each of its fields, by its name.
LEMMA HeaderLabelled ==
  ASSUME NEW h \in FileHeader
  PROVE  Printed(bun_print_header(h)) = Labelled(h)
<1>1. DOMAIN bun_print_header(h) = 1 .. 10
  BY DEF bun_print_header
<1>2. DOMAIN h = {"magic", "version_major", "version_minor", "asset_count",
                  "asset_table_offset", "string_table_offset", "string_table_size",
                  "data_section_offset", "data_section_size", "reserved"}
  BY DEF FileHeader
<1>3. QED BY <1>1, <1>2 DEF Printed, Labelled, bun_print_header

\* The same of the lines printed for a record.
LEMMA RecordLabelled ==
  ASSUME NEW r \in FileRecord
  PROVE  Printed(bun_print_asset_record(r)) = Labelled(r)
<1>1. DOMAIN bun_print_asset_record(r) = 1 .. 9
  BY DEF bun_print_asset_record
<1>2. DOMAIN r = {"name_offset", "name_length", "data_offset", "data_size",
                  "uncompressed_size", "compression", "type", "checksum", "flags"}
  BY DEF FileRecord
<1>3. QED BY <1>1, <1>2 DEF Printed, Labelled, bun_print_asset_record

\* Every field that is printed is the one that was written.
LEMMA AsWrittenNow ==
  ASSUME Faithful(disk), RealSizes, ParseInvariant, FromDisk
  PROVE  AsWritten
<1> DEFINE w == disk.written
           r == w.records[i + 1]
           b == SubSeq(w.bytes, touched.from + 1, touched.from + touched.len)
<1>1. /\ w.header \in FileHeader /\ DecodeHeader(w.bytes) = w.header
      /\ disk.header = [x \in DOMAIN ZeroHeader |-> w.header[x]]
  BY FileIs DEF Faithful, Packed
<1>2. ASSUME out.header
      PROVE  /\ Same(header, w.header)
             /\ Printed(bun_print_header(DecodeHeader(w.bytes))) = Labelled(w.header)
  <2>1. header = disk.header
    BY <1>2 DEF FromDisk
  <2>2. Same(header, w.header)
    BY <1>1, <2>1 DEF Same
  <2>3. QED BY <1>1, <2>2, HeaderLabelled
<1>3. ASSUME pc = "name"
      PROVE  /\ Same(rec, r)
             /\ Printed(bun_print_asset_record(read_asset_record_from_buf(b))) = Labelled(r)
  <2> DEFINE p == w.header.asset_table_offset + i * 48
  <2>1. /\ r \in FileRecord /\ rec = [x \in DOMAIN ZeroRecord |-> r[x]]
        /\ header = [x \in DOMAIN ZeroHeader |-> w.header[x]]
        /\ read_asset_record_from_buf(SubSeq(w.bytes, p + 1, p + 48)) = r
    BY <1>3, InHand DEF InBody
  <2>2. header.asset_table_offset = w.header.asset_table_offset
    BY <2>1 DEF ZeroHeader
  <2>3. touched.from = p /\ touched.len = 48
    BY <1>3, <2>2 DEF FromDisk, LastRead, RealSizes
  <2>4. Same(rec, r)
    BY <2>1 DEF Same
  <2>5. b = SubSeq(w.bytes, p + 1, p + 48)
    BY <2>3
  <2> HIDE DEF b, p
  <2>6. QED BY <2>1, <2>4, <2>5, RecordLabelled
<1>4. QED BY <1>2, <1>3, Zenon DEF AsWritten

-----------------------------------------------------------------------------
(* What the scripts make is faithful.                                       *)

\* A fixture put together by hand, its table behind its header.
LEMMA HandLaid ==
  ASSUME NEW h \in FileHeader, NEW rs \in Seq(FileRecord), NEW rest \in Seq(Byte),
         h.asset_table_offset >= 60, RealSizes
  PROVE  /\ Packed(by_hand(h, rs, rest)) /\ Laid(by_hand(h, rs, rest))
         /\ by_hand(h, rs, rest).assets = <<>>
<1> DEFINE wh == write_header(h)
           wr == WriteRecords(rs)
           t == h.asset_table_offset
           pad == write_padding(t - 60)
           l == Len(wr)
           b1 == wh \o pad
           b2 == b1 \o wr
           b3 == b2 \o rest
           m == Len(rest)
           w == by_hand(h, rs, rest)
<1>1. /\ w.bytes = b3 /\ w.header = h /\ w.records = rs /\ w.assets = <<>>
  BY Zenon DEF by_hand, Written, RealSizes
<1>2. t \in Nat /\ t - 60 \in Nat /\ 60 + (t - 60) = t
  BY DEF FileHeader, Word64
<1>3. IsBuffer(wh, 60) /\ Holds(wh, 0, wh)
  BY HeaderRoundTrip, HoldsFirst DEF IsBuffer
<1>4. IsBuffer(pad, t - 60)
  BY <1>2, PaddingIs DEF IsBuffer
<1>5. wr \in Seq(Byte) /\ IsBuffer(wr, l) /\ l \in Nat
  BY RecordsHold, LenProperties DEF IsBuffer
<1>6. IsBuffer(rest, m) /\ m \in Nat
  BY LenProperties DEF IsBuffer
<1> HIDE DEF wh, wr, t, pad, l, b1, b2, b3, m, w
<1>7. IsBuffer(b1, t) /\ Holds(b1, 0, wh)
  <2>1. IsBuffer(b1, 60 + (t - 60)) /\ Holds(b1, 0, wh)
    <3>1. 60 \in Nat /\ wh \in Seq(Byte)
      BY <1>3 DEF IsBuffer
    <3>2. /\ IsBuffer(wh \o pad, 60 + (t - 60))
          /\ \A s \in Seq(Byte) : \A at : Holds(wh, at, s) => Holds(wh \o pad, at, s)
      BY <1>2, <1>3, <1>4, <3>1, Appended, Zenon
    <3>3. QED BY <1>3, <3>1, <3>2, Zenon DEF b1
  <2>2. QED BY <1>2, <2>1
<1>8. IsBuffer(b2, t + l) /\ Holds(b2, 0, wh) /\ Holds(b2, t, wr)
  BY <1>2, <1>3, <1>5, <1>7, Appended DEF b2, IsBuffer
<1>9. b3 \in Seq(Byte) /\ Holds(b3, 0, wh) /\ Holds(b3, t, wr)
  <2>1. t + l \in Nat
    BY <1>2, <1>5
  <2>2. QED BY <1>3, <1>5, <1>6, <1>8, <2>1, Appended DEF b3, IsBuffer
<1>10. ASSUME NEW k \in 1 .. Len(rs)
       PROVE  Holds(b3, t + 48 * (k - 1), write_asset_record(rs[k]))
  <2>1. Holds(wr, 48 * (k - 1), write_asset_record(rs[k]))
    BY RecordsHold DEF wr
  <2>2. write_asset_record(rs[k]) \in Seq(Byte)
    <3>1. rs[k] \in FileRecord
      BY ElementOfSeq
    <3>2. QED BY <3>1, RecordRoundTrip DEF IsBuffer
  <2>3. QED BY <1>5, <1>9, <2>1, <2>2, HoldsWithin, Zenon
<1>11. Packed(w) /\ Laid(w)
  BY <1>1, <1>9, <1>10 DEF Packed, Laid, wh, t
<1>12. QED BY <1>1, <1>11 DEF w

\* The keyword arguments of _simple_valid that the fixtures use.
Keywords ==
  UNION {[D -> Nat] : D \in SUBSET {"magic", "version_major", "version_minor", "reserved"}}

\* The functions that lay out a file, on any arguments that struct.pack takes.
\* A header by hand counts the records that follow it, or is malformed.
Scripted(f) ==
  LET w == f.written IN
  \/ /\ \E assets \in Seq(Input) : \E edit \in Keywords : w = simple_valid(assets, edit)
     /\ Packed(w)
  \/ (\E a \in Input : w = minimal(a)) /\ Packed(w)
  \/ \E h \in FileHeader : \E rs \in Seq(FileRecord) : \E rest \in Seq(Byte) :
       /\ w = by_hand(h, rs, rest) /\ h.asset_table_offset >= 60
       /\ h.asset_count = Len(rs) \/ HeaderMalformed(f)

\* Such a file is faithful.
LEMMA ScriptedFaithful ==
  ASSUME NEW f, ReadFrom(f), Scripted(f), RealSizes
  PROVE  Faithful(f)
<1> DEFINE w == f.written
<1>1. ASSUME NEW assets \in Seq(Input), NEW edit \in Keywords, w = simple_valid(assets, edit),
             Packed(w)
      PROVE  Faithful(f)
  <2>1. DOMAIN edit \cap Computed = {}
    BY DEF Keywords, Computed
  <2>2. Laid(w) /\ Owned(w) /\ w.header.asset_count = Len(assets) /\ w.assets = assets
    BY <1>1, <2>1, SimpleLaid, SimpleIs DEF Written
  <2>3. w.header.asset_count = Len(w.records)
    BY <2>2 DEF Owned
  <2>4. QED BY <1>1, <2>2, <2>3 DEF Faithful
<1>2. ASSUME NEW a \in Input, w = minimal(a), Packed(w)
      PROVE  Faithful(f)
  <2>1. w = simple_valid(<<a>>, <<>>)
    BY <1>2, ScriptsAgree
  <2>2. <<a>> \in Seq(Input) /\ <<>> \in Keywords
    <3>1. <<>> \in [{} -> Nat]
      OBVIOUS
    <3>2. QED BY <3>1 DEF Keywords
  <2>3. QED BY <1>1, <1>2, <2>1, <2>2
<1>3. ASSUME NEW h \in FileHeader, NEW rs \in Seq(FileRecord), NEW rest \in Seq(Byte),
             w = by_hand(h, rs, rest), h.asset_table_offset >= 60,
             h.asset_count = Len(rs) \/ HeaderMalformed(f)
      PROVE  Faithful(f)
  <2>1. /\ Packed(w) /\ Laid(w) /\ w.assets = <<>>
        /\ w.header = h /\ w.records = rs
    <3>1. by_hand(h, rs, rest).header = h /\ by_hand(h, rs, rest).records = rs
      BY Zenon DEF by_hand, Written
    <3>2. QED BY <1>3, <3>1, HandLaid
  <2>2. QED BY <1>3, <2>1 DEF Faithful
<1>4. QED BY <1>1, <1>2, <1>3 DEF Scripted

-----------------------------------------------------------------------------
(* The program on such files.                                               *)

\* On any files the scripts can lay out, with any stdio failures, the snippet
\* printed for a name or a payload is the beginning of the asset's own.
THEOREM ShowsOwnBytes ==
  ASSUME RealSizes, \A f \in Files : ReadFrom(f) /\ Scripted(f)
  PROVE  Spec => []OwnBytes
<1>1. ParseInvariant /\ OnDisk => OwnBytes
  BY ScriptedFaithful, OwnBytesNow DEF OnDisk
<1>2. QED BY Inductive, KnowsItsReads, <1>1, PTL

\* On any such files, every field of the header and of every record is printed
\* behind its own label with the value the script was given.
THEOREM ShowsWhatWasWritten ==
  ASSUME RealSizes, \A f \in Files : ReadFrom(f) /\ Scripted(f)
  PROVE  Spec => []AsWritten
<1>1. ParseInvariant /\ OnDisk => AsWritten
  BY ScriptedFaithful, AsWrittenNow DEF OnDisk
<1>2. QED BY Inductive, KnowsItsReads, <1>1, PTL

-----------------------------------------------------------------------------
(* What the parser must make of such a file.                                *)

\* A section that begins where or after another ends does not collide with it.
LEMMA Apart ==
  ASSUME NEW s \in [lo : Nat, len : Nat], NEW t \in [lo : Nat, len : Nat],
         s.lo + s.len <= t.lo
  PROVE  ~Collide(s, t)
BY DEF Collide, Positions

\* Made by one of the functions that are given assets.
FromAssets(f, assets, edit) ==
  /\ assets \in Seq(Input) /\ edit \in Keywords
  /\ ReadFrom(f) /\ f.written = simple_valid(assets, edit) /\ Packed(f.written)

\* Where everything of such a file is, as the parser sees it.
LEMMA SeenOf ==
  ASSUME NEW f, NEW assets, NEW edit, FromAssets(f, assets, edit), RealSizes
  PROVE  LET w == f.written
             h == f.header
             names == Concat(assets, "name")
             payloads == Concat(assets, "payload")
             strings == 60 + 48 * Len(assets)
             data == strings + align4(Len(names))
         IN  /\ Faithful(f) /\ w.assets = assets /\ w.records = Records(assets)
             /\ w.header \in FileHeader /\ Owned(w)
             /\ h.magic = w.header.magic
             /\ h.version_major = w.header.version_major
             /\ h.version_minor = w.header.version_minor
             /\ h.asset_count = Len(assets) /\ h.asset_table_offset = 60
             /\ h.string_table_offset = strings /\ h.string_table_size = align4(Len(names))
             /\ h.data_section_offset = data /\ h.data_section_size = align4(Len(payloads))
             /\ f.size = data + align4(Len(payloads))
             /\ f.size = Len(w.bytes)
<1> DEFINE w == f.written
           h == SimpleHeader(assets, edit)
           b == SimpleBytes(assets, edit)
           names == Concat(assets, "name")
           payloads == Concat(assets, "payload")
           strings == 60 + 48 * Len(assets)
           data == strings + align4(Len(names))
<1>1. assets \in Seq(Input) /\ edit \in Keywords /\ DOMAIN edit \cap Computed = {}
  BY DEF FromAssets, Keywords, Computed
<1>2. w.bytes = b /\ w.header = h /\ w.records = Records(assets) /\ w.assets = assets
  BY <1>1, SimpleIs DEF FromAssets, Written
<1>3. Packed(w) /\ h \in FileHeader /\ Records(assets) \in Seq(FileRecord)
  BY <1>2 DEF FromAssets, Packed
<1>4. Faithful(f)
  BY <1>1, ScriptedFaithful DEF FromAssets, Scripted
<1>5. f.size = Len(w.bytes) /\ f.header = [x \in DOMAIN ZeroHeader |-> w.header[x]]
  BY <1>4, FileIs
<1>6. Owned(w)
  BY <1>1, SimpleLaid DEF FromAssets
<1>7. Len(b) = data + align4(Len(payloads))
  BY <1>1, <1>3, SimplePlaces
<1>8. /\ h.asset_count = Len(assets) /\ h.asset_table_offset = 60
      /\ h.string_table_offset = strings /\ h.string_table_size = align4(Len(names))
      /\ h.data_section_offset = data /\ h.data_section_size = align4(Len(payloads))
  BY <1>1, SimpleFields
<1> HIDE DEF w, h, b, names, payloads, strings, data
<1>9. /\ f.header.magic = w.header.magic
      /\ f.header.version_major = w.header.version_major
      /\ f.header.version_minor = w.header.version_minor
      /\ f.header.asset_count = w.header.asset_count
      /\ f.header.asset_table_offset = w.header.asset_table_offset
      /\ f.header.string_table_offset = w.header.string_table_offset
      /\ f.header.string_table_size = w.header.string_table_size
      /\ f.header.data_section_offset = w.header.data_section_offset
      /\ f.header.data_section_size = w.header.data_section_size
  BY <1>5 DEF ZeroHeader
<1>10. QED BY <1>2, <1>3, <1>4, <1>5, <1>6, <1>7, <1>8, <1>9
           DEF w, h, b, names, payloads, strings, data

\* Nothing but its magic can be wrong with the header: its sections are aligned,
\* follow one another, and end with the file.
LEMMA HeaderDeserves ==
  ASSUME NEW f, NEW assets, NEW edit, FromAssets(f, assets, edit), RealSizes
  PROVE  HeaderMalformed(f) <=> f.written.header.magic # BUN_MAGIC
<1> DEFINE h == f.header
           n == Len(assets)
           l == align4(Len(Concat(assets, "name")))
           m == align4(Len(Concat(assets, "payload")))
           ss == HeaderSections(h)
           r == 48 * n
           strings == 60 + r
           data == strings + l
<1>1. /\ h.magic = f.written.header.magic
      /\ h.asset_count = n /\ h.asset_table_offset = 60
      /\ h.string_table_offset = strings /\ h.string_table_size = l
      /\ h.data_section_offset = data /\ h.data_section_size = m
      /\ f.size = data + m
  BY SeenOf
<1>2. n \in Nat /\ l \in Nat /\ m \in Nat /\ l % 4 = 0 /\ m % 4 = 0
  <2>1. assets \in Seq(Input)
    BY DEF FromAssets
  <2>2. Len(Concat(assets, "name")) \in Nat /\ Len(Concat(assets, "payload")) \in Nat
    BY <2>1, ConcatHolds
  <2>3. QED BY <2>1, <2>2, AlignedUp, LenProperties
<1> HIDE DEF h, n, l, m, ss
<1>3. /\ r \in Nat /\ strings \in Nat /\ data \in Nat
      /\ r % 4 = 0 /\ strings % 4 = 0 /\ data % 4 = 0 /\ 60 % 4 = 0
      /\ 60 <= data + m
  BY <1>2
<1>4. ss = << [lo |-> 0, len |-> 60], [lo |-> 60, len |-> r],
              [lo |-> strings, len |-> l], [lo |-> data, len |-> m] >>
  <2>1. n * 48 = r
    BY <1>2
  <2>2. QED BY <1>1, <2>1 DEF ss, h, HeaderSections, RealSizes
<1>5. ~(f.size < BUN_HEADER_SIZE)
  BY <1>1, <1>2, <1>3 DEF RealSizes
<1>6. ~\E x \in {h.asset_table_offset, h.string_table_offset, h.string_table_size,
                 h.data_section_offset, h.data_section_size} : x % 4 # 0
  <2> HIDE DEF r, strings, data
  <2>1. QED BY <1>1, <1>2, <1>3
<1>7. \A j \in 1 .. 4 : Inside(ss[j], f)
  BY <1>1, <1>2, <1>4 DEF Inside
<1>8. \A j, k \in 1 .. 4 : j < k => ~Collide(ss[j], ss[k])
  <2>1. \A j \in 1 .. 4 : ss[j] \in [lo : Nat, len : Nat]
    BY <1>2, <1>3, <1>4
  <2>2. \A j, k \in 1 .. 4 : j < k => ss[j].lo + ss[j].len <= ss[k].lo
    BY <1>2, <1>4
  <2> HIDE DEF r, strings, data
  <2>3. QED BY <2>1, <2>2, Apart
<1>9. QED BY <1>1, <1>5, <1>6, <1>7, <1>8, Zenon DEF HeaderMalformed, h, ss

\* What stands in the bytes that were written is what the file has there.
LEMMA ByteHeld ==
  ASSUME NEW f, Faithful(f), RealSizes, NEW s \in Seq(Byte), NEW p,
         Holds(f.written.bytes, p, s)
  PROVE  \A q \in 0 .. Len(s) - 1 : ByteAt(f, p + q) = s[q + 1]
<1> DEFINE b == f.written.bytes
<1>1. /\ b \in Seq(Byte) /\ Len(b) \in Nat /\ Len(s) \in Nat /\ p \in Nat
      /\ p + Len(s) <= Len(b) /\ \A r \in 1 .. Len(s) : b[p + r] = s[r]
  BY LenProperties DEF Holds, Faithful, Laid
<1>2. \A x \in Nat : x < Len(b) => ByteAt(f, x) = b[x + 1]
  BY FileIs
<1> HIDE DEF b
<1>3. SUFFICES ASSUME NEW q \in 0 .. Len(s) - 1 PROVE ByteAt(f, p + q) = s[q + 1]
  OBVIOUS
<1>4. /\ p + q \in Nat /\ p + q < Len(b) /\ (p + q) + 1 = p + (q + 1)
      /\ q + 1 \in 1 .. Len(s)
  BY <1>1
<1>5. ByteAt(f, p + q) = b[(p + q) + 1]
  BY <1>2, <1>4
<1>6. QED BY <1>1, <1>4, <1>5

\* A payload taken as a file of its own.
LEMMA AloneIs ==
  ASSUME NEW s \in Seq(Byte), Len(s) \in offset_t
  PROVE  /\ IsFile(Alone(s)) /\ Alone(s).header.data_section_offset = 0
         /\ \A q \in 0 .. Len(s) - 1 : ByteAt(Alone(s), q) = s[q + 1]
<1>1. \A q \in 0 .. Len(s) - 1 : s[q + 1] \in Byte
  <2>1. Len(s) \in Nat /\ \A q \in 0 .. Len(s) - 1 : q + 1 \in 1 .. Len(s)
    BY LenProperties
  <2>2. QED BY <2>1, ElementOfSeq
<1>2. Alone(s) = [size |-> Len(s), header |-> ZeroHeader, records |-> <<>>,
                  bytes |-> [p \in 0 .. Len(s) - 1 |-> s[p + 1]]]
  BY DEF Alone
<1>3. ZeroHeader \in BunHeader /\ ZeroHeader.data_section_offset = 0
  BY WidthAssumption DEF ZeroHeader, BunHeader, u32, u64
<1>4. DOMAIN <<>> = {}
  OBVIOUS
<1>5. IsFile(Alone(s))
  <2> DEFINE g == [p \in 0 .. Len(s) - 1 |-> s[p + 1]]
  <2>1. \A p \in DOMAIN g : g[p] \in Byte
    BY <1>1
  <2> HIDE DEF g
  <2>2. Alone(s) = [size |-> Len(s), header |-> ZeroHeader, records |-> <<>>, bytes |-> g]
    BY <1>2 DEF g
  <2>3. /\ Alone(s).size = Len(s) /\ Alone(s).header = ZeroHeader
        /\ Alone(s).records = <<>> /\ Alone(s).bytes = g
    BY <2>2
  <2>4. QED BY <1>3, <1>4, <2>1, <2>3 DEF IsFile
<1>6. ASSUME NEW q \in 0 .. Len(s) - 1 PROVE ByteAt(Alone(s), q) = s[q + 1]
  BY <1>2 DEF ByteAt
<1>7. Alone(s).header.data_section_offset = 0
  BY <1>2, <1>3
<1>8. QED BY <1>5, <1>6, <1>7

\* Pairs with the same counts expand to the same size, wherever they are.
LEMMA SameCounts ==
  ASSUME NEW f, NEW g, IsFile(f), IsFile(g), NEW p \in Nat, NEW q \in Nat, NEW k \in Nat,
         \A j \in 0 .. k - 1 : ByteAt(f, p + 2 * j) = ByteAt(g, q + 2 * j)
  PROVE  Counts(f, p, k) = Counts(g, q, k)
<1>1. PICK c \in [0 .. k -> Nat] : Sums(f, p, k, c)
  BY SumsExist
<1>2. Sums(g, q, k, c)
  <2> SUFFICES ASSUME NEW j \in 0 .. k
               PROVE  c[j] = IF j = 0 THEN 0 ELSE c[j - 1] + ByteAt(g, q + 2 * (j - 1))
    BY DEF Sums
  <2>1. CASE j = 0
    BY <1>1, <2>1 DEF Sums
  <2>2. CASE j # 0
    <3>1. j - 1 \in 0 .. k - 1
      BY <2>2
    <3>2. ByteAt(f, p + 2 * (j - 1)) = ByteAt(g, q + 2 * (j - 1))
      BY <3>1
    <3>3. QED BY <1>1, <2>2, <3>2 DEF Sums
  <2>3. QED BY <2>1, <2>2
<1>3. k <= k
  OBVIOUS
<1>4. QED BY <1>1, <1>2, <1>3, CountsIs

\* The RLE check sees the same in the file and in the payload alone.
LEMMA PayloadDeserves ==
  ASSUME NEW f, Faithful(f), IsFile(f), RealSizes, NEW a \in Input, NEW r,
         r.data_offset \in Nat, f.header.data_section_offset \in Nat,
         r.data_size = Len(a.payload), r.uncompressed_size = a.uncompressed_size,
         Holds(f.written.bytes, f.header.data_section_offset + r.data_offset, a.payload)
  PROVE  RleWellFormed(f, r) <=> RleWellFormed(Alone(a.payload), Record(a, 0, 0))
<1> DEFINE s == a.payload
           from == f.header.data_section_offset + r.data_offset
           n == Len(s)
           k == n \div 2
           g == Alone(s)
<1>1. s \in Seq(Byte) /\ n \in Nat /\ from \in Nat
  BY LenProperties DEF Input
<1>2. n \in offset_t
  <2>1. f.size = Len(f.written.bytes) /\ f.written.bytes \in Seq(Byte)
    BY FileIs
  <2>2. f.size \in offset_t /\ from + n <= f.size
    BY <2>1 DEF Holds, IsFile
  <2>3. QED BY <1>1, <2>2, WidthAssumption DEF offset_t
<1>3. /\ IsFile(g) /\ g.header.data_section_offset = 0
      /\ \A q \in 0 .. n - 1 : ByteAt(g, q) = s[q + 1]
  BY <1>1, <1>2, AloneIs
<1>4. \A q \in 0 .. n - 1 : ByteAt(f, from + q) = s[q + 1]
  BY <1>1, ByteHeld
<1> HIDE DEF s, from, g, n
<1>5. k \in Nat /\ \A j \in 0 .. k - 1 : 2 * j \in 0 .. n - 1 /\ 0 + 2 * j = 2 * j
  BY <1>1
<1>6. \A j \in 0 .. k - 1 : ByteAt(f, from + 2 * j) = ByteAt(g, 0 + 2 * j)
  BY <1>3, <1>4, <1>5
<1>7. Counts(f, from, k) = Counts(g, 0, k)
  <2> DEFINE zero == 0
  <2>1. k \in Nat /\ IsFile(g) /\ from \in Nat /\ zero \in Nat
    BY <1>1, <1>3, <1>5
  <2>2. \A j \in 0 .. k - 1 : ByteAt(f, from + 2 * j) = ByteAt(g, zero + 2 * j)
    BY <1>6
  <2> HIDE DEF k, zero
  <2>3. Counts(f, from, k) = Counts(g, zero, k)
    BY <2>1, <2>2, SameCounts
  <2>4. QED BY <2>3 DEF zero
<1>8. RleWellFormed(f, r) <=>
        /\ n % 2 = 0
        /\ \A j \in 0 .. k - 1 : ByteAt(f, from + 2 * j) # 0
        /\ Counts(f, from, k) = a.uncompressed_size
  BY DEF RleWellFormed, from, n, s
<1>9. RleWellFormed(g, Record(a, 0, 0)) <=>
        /\ n % 2 = 0
        /\ \A j \in 0 .. k - 1 : ByteAt(g, 0 + 2 * j) # 0
        /\ Counts(g, 0, k) = a.uncompressed_size
  <2>1. /\ Record(a, 0, 0).data_offset = 0 /\ Record(a, 0, 0).data_size = n
        /\ Record(a, 0, 0).uncompressed_size = a.uncompressed_size
    BY DEF Record, n, s
  <2>2. g.header.data_section_offset + Record(a, 0, 0).data_offset = 0
    BY <1>3, <2>1
  <2>3. QED BY <2>1, <2>2 DEF RleWellFormed
<1>10. QED BY <1>6, <1>7, <1>8, <1>9 DEF g, s

\* What the parser's rules say of a record's name, payload and fields, said of
\* the asset it was made for.
LEMMA NameDeserves ==
  ASSUME NEW f, Faithful(f), RealSizes, NEW s \in Seq(Byte), NEW r, r.name_offset \in Nat,
         r.name_length = Len(s), f.header.string_table_offset \in Nat,
         Holds(f.written.bytes, f.header.string_table_offset + r.name_offset, s)
  PROVE  NamePrintable(f, r) <=> \A k \in DOMAIN s : s[k] \in 32 .. 126
<1> DEFINE from == f.header.string_table_offset + r.name_offset
<1>1. Len(s) \in Nat /\ DOMAIN s = 1 .. Len(s)
  BY LenProperties
<1>2. \A q \in 0 .. Len(s) - 1 : ByteAt(f, from + q) = s[q + 1]
  BY ByteHeld
<1>3. NamePrintable(f, r) <=> \A q \in 0 .. Len(s) - 1 : ByteAt(f, from + q) \in 32 .. 126
  BY DEF NamePrintable
<1> HIDE DEF from
<1>4. ASSUME \A q \in 0 .. Len(s) - 1 : s[q + 1] \in 32 .. 126, NEW k \in 1 .. Len(s)
      PROVE  s[k] \in 32 .. 126
  <2>1. k - 1 \in 0 .. Len(s) - 1 /\ (k - 1) + 1 = k
    BY <1>1
  <2>2. s[(k - 1) + 1] \in 32 .. 126
    BY <1>4, <2>1
  <2>3. QED BY <2>1, <2>2
<1>5. ASSUME \A k \in 1 .. Len(s) : s[k] \in 32 .. 126, NEW q \in 0 .. Len(s) - 1
      PROVE  s[q + 1] \in 32 .. 126
  <2>1. q + 1 \in 1 .. Len(s)
    BY <1>1
  <2>2. QED BY <1>5, <2>1
<1>6. (\A q \in 0 .. Len(s) - 1 : ByteAt(f, from + q) \in 32 .. 126)
        <=> \A q \in 0 .. Len(s) - 1 : s[q + 1] \in 32 .. 126
  BY <1>2
<1>7. QED BY <1>1, <1>3, <1>4, <1>5, <1>6

\* A record is malformed, or unsupported, exactly when its asset is: the cursors
\* of _simple_valid keep every name and payload in its section.
LEMMA RecordDeserves ==
  ASSUME NEW f, IsFile(f), NEW assets, NEW edit, FromAssets(f, assets, edit), RealSizes,
         ~HeaderMalformed(f), NEW k \in 0 .. Len(assets) - 1
  PROVE  /\ RecordMalformed(f, Entry(f, k)) <=> AssetMalformed(assets[k + 1])
         /\ RecordUnsupported(Entry(f, k)) <=> AssetUnsupported(assets[k + 1])
<1> DEFINE w == f.written
           h == f.header
           a == assets[k + 1]
           r == Entry(f, k)
           u == Records(assets)[k + 1]
           names == Concat(assets, "name")
           payloads == Concat(assets, "payload")
           strings == 60 + 48 * Len(assets)
           data == strings + align4(Len(names))
           x == Len(Concat(SubSeq(assets, 1, (k + 1) - 1), "name"))
           y == Len(Concat(SubSeq(assets, 1, (k + 1) - 1), "payload"))
<1>1. /\ Faithful(f) /\ w.assets = assets /\ w.records = Records(assets) /\ Owned(w)
      /\ h.asset_count = Len(assets)
      /\ h.string_table_offset = strings /\ h.string_table_size = align4(Len(names))
      /\ h.data_section_offset = data /\ h.data_section_size = align4(Len(payloads))
      /\ w.header \in FileHeader
  BY SeenOf
<1>2. assets \in Seq(Input) /\ Len(assets) \in Nat
  BY LenProperties DEF FromAssets
<1>3. k \in Nat /\ k + 1 \in 1 .. Len(assets) /\ k < h.asset_count
  BY <1>1, <1>2
<1>4. r = [z \in DOMAIN ZeroRecord |-> u[z]]
  BY <1>1, <1>3, EntryIs
<1>5. a \in Input /\ u = Record(a, x, y)
  BY <1>2, <1>3, SimpleRecords
<1>6. Holds(names, x, a.name) /\ Holds(payloads, y, a.payload)
  BY <1>2, <1>3, ConcatHolds
<1>7. /\ names \in Seq(Byte) /\ payloads \in Seq(Byte)
      /\ Len(names) \in Nat /\ Len(payloads) \in Nat
  BY <1>2, ConcatHolds
<1>8. /\ a.name \in Seq(Byte) /\ Len(a.name) \in Nat
      /\ a.payload \in Seq(Byte) /\ Len(a.payload) \in Nat
  BY <1>5, LenProperties DEF Input
<1>9. /\ x \in Nat /\ x + Len(a.name) <= align4(Len(names))
      /\ y \in Nat /\ y + Len(a.payload) <= align4(Len(payloads))
  <2>1. /\ Len(names) <= align4(Len(names)) /\ align4(Len(names)) \in Nat
        /\ Len(payloads) <= align4(Len(payloads)) /\ align4(Len(payloads)) \in Nat
    BY <1>7, AlignedUp
  <2>2. /\ x \in Nat /\ x + Len(a.name) <= Len(names)
        /\ y \in Nat /\ y + Len(a.payload) <= Len(payloads)
    BY <1>6 DEF Holds
  <2> HIDE DEF x, y, a, names, payloads
  <2>3. QED BY <1>7, <1>8, <2>1, <2>2
<1>10. strings \in Nat /\ data \in Nat
  <2>1. align4(Len(names)) \in Nat
    BY <1>7, AlignedUp
  <2>2. QED BY <1>2, <2>1
<1>11. /\ Holds(w.bytes, strings + u.name_offset, a.name)
       /\ Holds(w.bytes, data + u.data_offset, a.payload)
  <2>1. h = [z \in DOMAIN ZeroHeader |-> w.header[z]]
    BY <1>1, FileIs
  <2>2. w.header.string_table_offset = strings /\ w.header.data_section_offset = data
    BY <1>1, <2>1 DEF ZeroHeader
  <2>3. QED BY <1>1, <1>3, <2>2 DEF Owned
<1> HIDE DEF w, h, a, r, u, names, payloads, strings, data, x, y
<1>12. /\ r.name_offset = x /\ r.name_length = Len(a.name)
       /\ r.data_offset = y /\ r.data_size = Len(a.payload)
       /\ r.uncompressed_size = a.uncompressed_size /\ r.compression = a.compression
       /\ r.checksum = a.checksum /\ r.flags = a.flags
       /\ u.name_offset = x /\ u.data_offset = y
  BY <1>4, <1>5 DEF ZeroRecord, Record
<1>13. NameInside(h, r) <=> a.name # <<>>
  <2>1. a.name # <<>> <=> Len(a.name) > 0
    BY <1>8
  <2>2. QED BY <1>1, <1>8, <1>9, <1>12, <2>1 DEF NameInside
<1>14. NamePrintable(f, r) <=> \A q \in DOMAIN a.name : a.name[q] \in 32 .. 126
  <2>1. /\ f.header.string_table_offset = strings
        /\ Holds(f.written.bytes, f.header.string_table_offset + r.name_offset, a.name)
    BY <1>1, <1>11, <1>12 DEF h, w
  <2>2. QED BY <1>1, <1>8, <1>9, <1>10, <1>12, <2>1, NameDeserves
<1>15. DataInside(h, r)
  BY <1>1, <1>9, <1>12 DEF DataInside
<1>16. RleWellFormed(f, r) <=> RleWellFormed(Alone(a.payload), Record(a, 0, 0))
  <2>1. /\ f.header.data_section_offset = data
        /\ Holds(f.written.bytes, f.header.data_section_offset + r.data_offset, a.payload)
    BY <1>1, <1>11, <1>12 DEF h, w
  <2>2. QED BY <1>1, <1>5, <1>9, <1>10, <1>12, <2>1, PayloadDeserves
<1>17. RecordMalformed(f, r) <=> AssetMalformed(a)
  BY <1>12, <1>13, <1>14, <1>15, <1>16 DEF RecordMalformed, AssetMalformed, h
<1>18. RecordUnsupported(r) <=> AssetUnsupported(a)
  BY <1>12 DEF RecordUnsupported, AssetUnsupported, Record
<1>19. QED BY <1>17, <1>18 DEF r, a

\* The class of the file is what its script's arguments deserve.
LEMMA ClassDeserves ==
  ASSUME NEW f, IsFile(f), NEW assets, NEW edit, FromAssets(f, assets, edit), RealSizes
  PROVE  Classify(f) = RightAnswer(f.written)
<1> DEFINE n == Len(assets)
           g == f.written.header
<1>1. HeaderMalformed(f) <=> g.magic # BUN_MAGIC
  BY HeaderDeserves
<1>2. /\ f.header.version_major = g.version_major
      /\ f.header.version_minor = g.version_minor
      /\ f.header.asset_count = n /\ f.written.assets = assets
  BY SeenOf
<1>3. n \in Nat /\ DOMAIN assets = 1 .. n
  BY LenProperties DEF FromAssets
<1> HIDE DEF n, g
<1>4. HeaderUnsupported(f) <=> g.version_major # 1 \/ g.version_minor # 0
  BY <1>2 DEF HeaderUnsupported
<1>5. ASSUME ~HeaderMalformed(f)
      PROVE  /\ (\E j \in 0 .. n - 1 : RecordMalformed(f, Entry(f, j)))
                  <=> \E j \in 1 .. n : AssetMalformed(assets[j])
             /\ (\E j \in 0 .. n - 1 : RecordUnsupported(Entry(f, j)))
                  <=> \E j \in 1 .. n : AssetUnsupported(assets[j])
  <2>1. ASSUME NEW j \in 0 .. n - 1
        PROVE  /\ RecordMalformed(f, Entry(f, j)) <=> AssetMalformed(assets[j + 1])
               /\ RecordUnsupported(Entry(f, j)) <=> AssetUnsupported(assets[j + 1])
    BY <1>5, RecordDeserves DEF n
  <2>2. /\ \A j \in 0 .. n - 1 : j + 1 \in 1 .. n
        /\ \A j \in 1 .. n : j - 1 \in 0 .. n - 1 /\ (j - 1) + 1 = j
    BY <1>3
  <2>3. ASSUME NEW j \in 1 .. n
        PROVE  /\ RecordMalformed(f, Entry(f, j - 1)) <=> AssetMalformed(assets[j])
               /\ RecordUnsupported(Entry(f, j - 1)) <=> AssetUnsupported(assets[j])
    <3>1. j - 1 \in 0 .. n - 1 /\ (j - 1) + 1 = j
      BY <2>2
    <3>2. /\ RecordMalformed(f, Entry(f, j - 1)) <=> AssetMalformed(assets[(j - 1) + 1])
          /\ RecordUnsupported(Entry(f, j - 1)) <=> AssetUnsupported(assets[(j - 1) + 1])
      BY <2>1, <3>1
    <3>3. QED BY <3>1, <3>2
  <2>4. QED BY <2>1, <2>2, <2>3, Zenon
<1>6. Classify(f)
        = IF HeaderMalformed(f) THEN BUN_MALFORMED
          ELSE IF HeaderUnsupported(f) THEN BUN_UNSUPPORTED
          ELSE IF \E j \in 0 .. n - 1 : RecordMalformed(f, Entry(f, j)) THEN BUN_MALFORMED
          ELSE IF \E j \in 0 .. n - 1 : RecordUnsupported(Entry(f, j)) THEN BUN_UNSUPPORTED
          ELSE BUN_OK
  BY <1>2 DEF Classify
<1>7. RightAnswer(f.written)
        = IF g.magic # BUN_MAGIC THEN BUN_MALFORMED
          ELSE IF g.version_major # 1 \/ g.version_minor # 0 THEN BUN_UNSUPPORTED
          ELSE IF \E j \in 1 .. n : AssetMalformed(assets[j]) THEN BUN_MALFORMED
          ELSE IF \E j \in 1 .. n : AssetUnsupported(assets[j]) THEN BUN_UNSUPPORTED
          ELSE BUN_OK
  BY <1>2, <1>3 DEF RightAnswer, g
<1>8. CASE HeaderMalformed(f)
  BY <1>1, <1>6, <1>7, <1>8
<1>9. CASE ~HeaderMalformed(f)
  BY <1>1, <1>4, <1>5, <1>6, <1>7, <1>9
<1>10. QED BY <1>8, <1>9

-----------------------------------------------------------------------------
(* Without a failing call nothing is disturbed.                             *)

Calm == args = 2 /\ disturbed = FALSE

\* A read delivers all that the file holds.
LEMMA ReadsWhole ==
  ASSUME Faults = {}, disturbed = FALSE, disk.size \in Nat, NEW p \in Nat, NEW n \in Nat,
         NEW left \in Deliverable(disk, p, n, "fread" \in Faults), Delivers(p, n, left)
  PROVE  disturbed' = FALSE
<1>1. left = AtMost(n, Available(disk, p)) /\ left \in Nat
  BY DEF Deliverable, AtMost, Available
<1>2. ~(left < AtMost(n, Available(disk, p)))
  BY <1>1
<1>3. QED BY <1>2 DEF Delivers

\* No step disturbs the run.
LEMMA StaysCalm ==
  ASSUME Faults = {}, ParseInvariant, Calm, [Next]_vars
  PROVE  Calm'
<1>1. NoFault => disturbed' = FALSE
  BY DEF NoFault, Calm
<1>2. \A call : ~Fault(call)
  BY DEF Fault
<1>3. \A p, n : ShortRead(p, n) => disturbed' = FALSE
  BY <1>1, <1>2 DEF ShortRead
<1>4. /\ disk.size \in Nat /\ rec.data_size \in Nat /\ rec.name_length \in Nat
      /\ DataStart(header, rec).out \in Nat /\ NameStart(header, rec).out \in Nat
  <2>1. IsFile(disk) /\ header \in BunHeader /\ rec \in BunAssetRecord
    BY DEF ParseInvariant, TypeOK
  <2>2. DataStart(header, rec).out \in Nat /\ NameStart(header, rec).out \in Nat
    BY <2>1, StartTypes
  <2>3. QED BY <2>1, <2>2, WidthAssumption
            DEF IsFile, offset_t, BunAssetRecord, u32, u64
<1>5. \A use, safe, start, n : Snippet(use, safe, start, n) => disturbed' = FALSE
  BY <1>1, <1>2, <1>3 DEF Snippet
<1>6. CASE Usage
  BY <1>6 DEF Usage, Calm
<1>7. CASE BunOpen
  BY <1>1, <1>2, <1>7 DEF BunOpen, Opened, NotOpened, Calm
<1>8. CASE BunParseHeader
  BY <1>1, <1>2, <1>3, <1>8 DEF BunParseHeader, TooSmall, HeaderUnreadable, HeaderRead, Calm
<1>9. CASE SeekTable \/ Reseek
  BY <1>1, <1>2, <1>9 DEF SeekTable, Reseek, Calm
<1>10. CASE ReadRecord \/ RecordUnreadable
  BY <1>1, <1>3, <1>10 DEF ReadRecord, RecordUnreadable, Calm
<1>11. CASE PrintName \/ PrintPayload
  BY <1>5, <1>11 DEF PrintName, PrintPayload, Calm
<1>12. CASE ValidateRecord
  <2>1. args' = args
    BY <1>12 DEF ValidateRecord
  <2>2. ScanPayload(DataStart(header, rec).out) => disturbed' = FALSE
    BY <1>4, ReadsWhole DEF ScanPayload, Calm
  <2>3. QED BY <1>1, <1>2, <1>12, <2>1, <2>2 DEF ValidateRecord, Calm
<1>13. CASE ValidateName
  <2>1. args' = args
    BY <1>13 DEF ValidateName
  <2>2. ScanName(NameStart(header, rec).out) => disturbed' = FALSE
    BY <1>4, ReadsWhole DEF ScanName, Calm
  <2>3. (UNCHANGED <<ctx, stream, touched>> /\ NoFault) => disturbed' = FALSE
    BY <1>1
  <2>4. QED BY <1>1, <1>2, <1>13, <2>1, <2>2 DEF ValidateName, Calm
<1>14. CASE AssetsDone \/ Report \/ BunClose
  BY <1>1, <1>2, <1>14 DEF AssetsDone, Report, BunClose, Calm
<1>15. CASE UNCHANGED vars
  BY <1>15 DEF vars, Calm
<1>16. QED BY <1>6, <1>7, <1>8, <1>9, <1>10, <1>11, <1>12, <1>13, <1>14, <1>15
           DEF Next, Step, Exited

\* A file of the kinds the fixtures are: made by _simple_valid or by the
\* generator, with the exit code its arguments deserve, or put together by hand,
\* with the one its bytes deserve.
Promised(f) ==
  \/ /\ \/ \E assets : \E edit : FromAssets(f, assets, edit)
        \/ ReadFrom(f) /\ Packed(f.written) /\ \E a \in Input : f.written = minimal(a)
     /\ f.code = RightAnswer(f.written)
  \/ f.written.assets = <<>> /\ f.code = Classify(f)

\* Its class is the exit code it was given.
LEMMA CodeIsClass ==
  ASSUME NEW f, IsFile(f), Promised(f), RealSizes
  PROVE  /\ Classify(f) = f.code
         /\ f.written.assets # <<>> => f.code = RightAnswer(f.written)
<1>1. ASSUME NEW assets, NEW edit, FromAssets(f, assets, edit)
      PROVE  Classify(f) = RightAnswer(f.written)
  BY <1>1, ClassDeserves
<1>2. ASSUME ReadFrom(f), Packed(f.written), NEW a \in Input, f.written = minimal(a)
      PROVE  Classify(f) = RightAnswer(f.written)
  <2>1. <<a>> \in Seq(Input) /\ <<>> \in Keywords
    <3>1. <<>> \in [{} -> Nat]
      OBVIOUS
    <3>2. QED BY <3>1 DEF Keywords
  <2>2. FromAssets(f, <<a>>, <<>>)
    BY <1>2, <2>1, ScriptsAgree DEF FromAssets
  <2>3. QED BY <1>1, <2>2
<1>3. QED BY <1>1, <1>2 DEF Promised

\* Whatever assets the scripts are given, with whatever names, payloads, fields
\* and keyword arguments, the parser answers, when no call fails, what those
\* arguments deserve, judged without any offset: paddings, cursors, alignments
\* and the packing of numbers agree with every check the parser makes.
THEOREM AnswersTheScripts ==
  ASSUME RealSizes, ArgCounts = {2}, Faults = {}, \A f \in Files : Promised(f)
  PROVE  Spec => []Expected
<1>1. Init => Calm
  BY DEF Init, Calm
<1>2. ParseInvariant /\ Calm /\ [Next]_vars => Calm'
  BY StaysCalm
<1>3. OnDisk /\ Calm /\ VerdictExact => Expected
  <2> SUFFICES ASSUME OnDisk, Calm, VerdictExact, exit # NotExited
               PROVE  /\ exit = disk.code
                      /\ disk.written.assets # <<>> => exit = RightAnswer(disk.written)
    BY DEF Expected
  <2>1. disk \in Files /\ exit = Classify(disk)
    BY DEF OnDisk, Calm, VerdictExact
  <2>2. IsFile(disk) /\ Promised(disk)
    BY <2>1, ParseAssumption
  <2>3. QED BY <2>1, <2>2, CodeIsClass
<1>4. QED BY Inductive, ExactVerdict, KnowsItsReads, <1>1, <1>2, <1>3, PTL DEF Spec

-----------------------------------------------------------------------------
(* The script's encoder. Like the sums, the recursion is unfolded by looking *)
(* at the least number of bytes left for which something would fail.         *)

\* How many bytes from place p on are one pair.
Run(raw, p) ==
  Cardinality({n \in 1 .. AtMost(255, Len(raw) - p + 1) :
                 \A k \in 0 .. n - 1 : raw[p + k] = raw[p]})

\* At least the first of them, at most what a count can say and what is left.
LEMMA RunIs ==
  ASSUME NEW raw \in Seq(Byte), NEW p0 \in 1 .. Len(raw)
  PROVE  /\ Run(raw, p0) \in 1 .. 255
         /\ p0 + Run(raw, p0) <= Len(raw) + 1
<1> DEFINE m == AtMost(255, Len(raw) - p0 + 1)
           S == {n \in 1 .. m : \A k \in 0 .. n - 1 : raw[p0 + k] = raw[p0]}
<1>1. Len(raw) \in Nat /\ p0 \in Nat
  BY LenProperties
<1>2. m \in Nat /\ 1 <= m /\ m <= 255 /\ p0 + m <= Len(raw) + 1
  BY <1>1 DEF AtMost
<1> HIDE DEF m
<1>3. 1 \in S
  <2>1. \A k \in 0 .. 1 - 1 : p0 + k = p0
    BY <1>1
  <2>2. \A k \in 0 .. 1 - 1 : raw[p0 + k] = raw[p0]
    BY <2>1
  <2>3. QED BY <1>2, <2>2
<1>4. IsFiniteSet(1 .. m) /\ Cardinality(1 .. m) = m
  <2>1. 1 \in Int /\ m \in Int /\ 1 <= m /\ m - 1 + 1 = m
    BY <1>2
  <2>2. IsFiniteSet(1 .. m) /\ Cardinality(1 .. m) = IF 1 > m THEN 0 ELSE m - 1 + 1
    BY <2>1, FS_Interval
  <2>3. QED BY <2>1, <2>2
<1>5. IsFiniteSet(S) /\ Cardinality(S) <= m /\ Cardinality(S) \in Nat
  <2>1. S \subseteq 1 .. m
    OBVIOUS
  <2> HIDE DEF S
  <2>2. IsFiniteSet(S) /\ Cardinality(S) <= Cardinality(1 .. m)
    BY <1>4, <2>1, FS_Subset
  <2>3. QED BY <1>4, <2>2, FS_CardinalityType
<1>6. Cardinality(S) # 0
  <2> HIDE DEF S
  <2>1. QED BY <1>3, <1>5, FS_EmptySet
<1>7. Run(raw, p0) = Cardinality(S)
  BY DEF Run, S, m
<1> HIDE DEF S
<1> DEFINE c == Cardinality(S)
<1>8. c \in Nat /\ c <= m /\ c # 0
  BY <1>5, <1>6
<1> HIDE DEF c
<1>9. c \in 1 .. 255 /\ p0 + c <= Len(raw) + 1
  BY <1>1, <1>2, <1>8
<1>10. QED BY <1>7, <1>9 DEF c

\* g says how each rest of raw, from place m on, is encoded.
Encodes(raw, m, g) ==
  g = [p \in m .. Len(raw) + 1 |->
         IF p > Len(raw) THEN <<>> ELSE <<Run(raw, p), raw[p]>> \o g[p + Run(raw, p)]]

\* The recursion of _rle_encode has a solution,
LEMMA EncodingExists ==
  ASSUME NEW raw \in Seq(Byte)
  PROVE  \E g : Encodes(raw, 1, g)
<1> DEFINE l == Len(raw)
           Bad == {d \in 0 .. l : ~\E g : Encodes(raw, l + 1 - d, g)}
<1>0. l \in Nat
  BY LenProperties
<1>1. SUFFICES Bad = {}
  <2>1. l \in 0 .. l /\ l + 1 - l = 1
    BY <1>0
  <2>2. ASSUME Bad = {} PROVE \E g : Encodes(raw, l + 1 - l, g)
    BY <2>1, <2>2
  <2>3. QED BY <2>1, <2>2
<1>2. SUFFICES ASSUME Bad # {} PROVE FALSE
  OBVIOUS
<1>3. PICK d \in Bad : \A n \in Bad : d <= n
  <2>1. Bad \in SUBSET Nat
    BY <1>0
  <2> HIDE DEF Bad
  <2>2. QED BY <1>2, <2>1, LeastMember
<1>4. d # 0
  <2> DEFINE g == [p \in l + 1 .. l + 1 |-> <<>>]
  <2>1. \A p \in l + 1 .. l + 1 : p > l
    BY <1>0
  <2>2. g = [p \in l + 1 .. l + 1 |->
               IF p > l THEN <<>> ELSE <<Run(raw, p), raw[p]>> \o g[p + Run(raw, p)]]
    BY <2>1
  <2> HIDE DEF g
  <2>3. Encodes(raw, l + 1, g)
    BY <2>2 DEF Encodes
  <2>4. l + 1 - 0 = l + 1
    BY <1>0
  <2>5. QED BY <2>3, <2>4
<1>5. d \in Nat /\ d - 1 \in 0 .. l /\ ~(d <= d - 1)
  BY <1>0, <1>4
<1>6. PICK g : Encodes(raw, l + 1 - (d - 1), g)
  BY <1>3, <1>5
<1> DEFINE m == l + 1 - d
           h == [p \in m .. l + 1 |->
                   IF p = m THEN <<Run(raw, m), raw[m]>> \o g[m + Run(raw, m)] ELSE g[p]]
<1>7. m \in 1 .. l /\ l + 1 - (d - 1) = m + 1
  BY <1>0, <1>5, <1>4
<1> HIDE DEF l, m, Bad
<1>8. g = [p \in m + 1 .. l + 1 |->
             IF p > l THEN <<>> ELSE <<Run(raw, p), raw[p]>> \o g[p + Run(raw, p)]]
  BY <1>6, <1>7 DEF Encodes, l
<1>9. ASSUME NEW p \in m .. l + 1
      PROVE  h[p] = IF p > l THEN <<>> ELSE <<Run(raw, p), raw[p]>> \o h[p + Run(raw, p)]
  <2>1. CASE p = l + 1
    <3>1. p # m /\ p > l /\ p \in m + 1 .. l + 1
      BY <1>0, <1>7, <2>1
    <3>2. h[p] = g[p] /\ g[p] = <<>>
      BY <1>8, <3>1
    <3>3. QED BY <3>1, <3>2
  <2>2. CASE p # l + 1
    <3>1. p \in 1 .. l /\ ~(p > l)
      BY <1>0, <1>7, <2>2
    <3>2. Run(raw, p) \in 1 .. 255 /\ p + Run(raw, p) <= l + 1
      BY <3>1, RunIs DEF l
    <3>3. p + Run(raw, p) \in m .. l + 1 /\ p + Run(raw, p) # m
      <4> DEFINE q == Run(raw, p)
      <4>1. q \in 1 .. 255 /\ p + q <= l + 1 /\ m \in Nat /\ p \in Nat /\ m <= p /\ l \in Nat
        BY <1>7, <3>1, <3>2, LenProperties DEF l
      <4> HIDE DEF q
      <4>2. p + q \in m .. l + 1 /\ p + q # m
        BY <4>1
      <4>3. QED BY <4>2 DEF q
    <3>4. h[p + Run(raw, p)] = g[p + Run(raw, p)]
      BY <3>3
    <3>5. h[p] = <<Run(raw, p), raw[p]>> \o g[p + Run(raw, p)]
      <4>1. CASE p = m
        BY <4>1
      <4>2. CASE p # m
        <5>1. p \in m + 1 .. l + 1
          BY <1>0, <1>7, <4>2
        <5>2. h[p] = g[p]
          BY <4>2
        <5>3. QED BY <1>8, <3>1, <5>1, <5>2
      <4>3. QED BY <4>1, <4>2
    <3> HIDE DEF h
    <3>6. QED BY <3>1, <3>4, <3>5
  <2>3. QED BY <2>1, <2>2
<1>10. h = [p \in m .. l + 1 |-> h[p]]
  OBVIOUS
<1> HIDE DEF h
<1>11. Encodes(raw, m, h)
  <2>1. h = [p \in m .. l + 1 |->
               IF p > l THEN <<>> ELSE <<Run(raw, p), raw[p]>> \o h[p + Run(raw, p)]]
    BY <1>9, <1>10
  <2>2. QED BY <2>1 DEF Encodes, l
<1>12. QED BY <1>11 DEF Bad, m

\* and its value is what the definition takes.
LEMMA EncodingIs ==
  ASSUME NEW raw \in Seq(Byte)
  PROVE  \E g : Encodes(raw, 1, g) /\ rle_encode(raw) = g[1]
<1> DEFINE c == CHOOSE g : Encodes(raw, 1, g)
<1>1. Encodes(raw, 1, c)
  BY EncodingExists
<1>2. rle_encode(raw) = c[1]
  BY Zenon DEF rle_encode, Encodes, Run
<1>3. QED BY <1>1, <1>2

\* Pairs of a count other than zero and a byte, whose counts add up to n; c
\* holds the sums.
PairsOf(s, n, c) ==
  /\ s \in Seq(Byte) /\ Len(s) % 2 = 0
  /\ c \in [0 .. Len(s) \div 2 -> Nat] /\ c[0] = 0 /\ c[Len(s) \div 2] = n
  /\ \A j \in 1 .. Len(s) \div 2 : s[2 * j - 1] # 0 /\ c[j] = c[j - 1] + s[2 * j - 1]
Pairs(s, n) == \E c : PairsOf(s, n, c)

\* One pair more in front.
LEMMA PairMore ==
  ASSUME NEW s \in Seq(Byte), NEW n \in Nat, Pairs(s, n), NEW x \in 1 .. 255, NEW y \in Byte
  PROVE  Pairs(<<x, y>> \o s, x + n)
<1> DEFINE t == <<x, y>> \o s
           k == Len(s) \div 2
<1>1. PICK c : PairsOf(s, n, c)
  BY DEF Pairs
<1>2. Len(s) \in Nat /\ k \in Nat /\ Len(s) = 2 * k
  <2>1. Len(s) \in Nat /\ Len(s) % 2 = 0
    BY <1>1, LenProperties DEF PairsOf
  <2>2. QED BY <2>1
<1>3. <<x, y>> \in Seq(Byte) /\ Len(<<x, y>>) = 2
  <2>1. x \in Byte
    BY DEF Byte
  <2>2. QED BY <2>1
<1>4. /\ t \in Seq(Byte) /\ Len(t) = 2 + Len(s) /\ t[1] = x
      /\ \A p \in 3 .. 2 + Len(s) : t[p] = s[p - 2]
  <2>1. /\ t \in Seq(Byte) /\ Len(t) = Len(<<x, y>>) + Len(s)
        /\ \A p \in 1 .. Len(<<x, y>>) : t[p] = <<x, y>>[p]
        /\ \A p \in Len(<<x, y>>) + 1 .. Len(<<x, y>>) + Len(s) : t[p] = s[p - Len(<<x, y>>)]
    BY <1>3, ConcatProperties
  <2> HIDE DEF t
  <2>2. t[1] = x
    BY <1>3, <2>1
  <2>3. QED BY <1>2, <1>3, <2>1, <2>2
<1> DEFINE d == [j \in 0 .. k + 1 |-> IF j = 0 THEN 0 ELSE x + c[j - 1]]
<1>5. c \in [0 .. k -> Nat] /\ c[0] = 0 /\ c[k] = n
  BY <1>1 DEF PairsOf
<1>6. \A j \in 1 .. k : s[2 * j - 1] # 0 /\ c[j] = c[j - 1] + s[2 * j - 1]
  BY <1>1 DEF PairsOf
<1> HIDE DEF t, k
<1>7. d \in [0 .. k + 1 -> Nat] /\ d[0] = 0 /\ d[k + 1] = x + n
  <2>1. \A j \in 0 .. k + 1 : j # 0 => j - 1 \in 0 .. k /\ c[j - 1] \in Nat
    BY <1>2, <1>5
  <2>2. 0 \in 0 .. k + 1 /\ k + 1 \in 0 .. k + 1 /\ k + 1 # 0 /\ (k + 1) - 1 = k
    BY <1>2
  <2>3. \A j \in 0 .. k + 1 : (IF j = 0 THEN 0 ELSE x + c[j - 1]) \in Nat
    BY <2>1
  <2>4. d[k + 1] = x + c[k]
    BY <2>2
  <2>5. QED BY <1>5, <2>2, <2>3, <2>4
<1>8. ASSUME NEW j \in 1 .. k + 1
      PROVE  t[2 * j - 1] # 0 /\ d[j] = d[j - 1] + t[2 * j - 1]
  <2>1. CASE j = 1
    <3>1. t[2 * j - 1] = x
      BY <1>4, <2>1
    <3>2. d[j] = x + c[0] /\ d[j - 1] = 0
      BY <1>2, <2>1
    <3> HIDE DEF d
    <3>3. QED BY <1>5, <3>1, <3>2
  <2>2. CASE j # 1
    <3>1. /\ j - 1 \in 1 .. k /\ 2 * j - 1 \in 3 .. 2 + Len(s)
          /\ (2 * j - 1) - 2 = 2 * (j - 1) - 1
      BY <1>2, <2>2
    <3>2. t[2 * j - 1] = s[2 * (j - 1) - 1]
      BY <1>4, <3>1
    <3>3. s[2 * (j - 1) - 1] # 0 /\ c[j - 1] = c[(j - 1) - 1] + s[2 * (j - 1) - 1]
      BY <1>6, <3>1
    <3>4. d[j] = x + c[j - 1] /\ d[j - 1] = x + c[(j - 1) - 1]
      BY <1>2, <3>1
    <3>5. c[(j - 1) - 1] \in Nat /\ s[2 * (j - 1) - 1] \in Nat
      <4>1. (j - 1) - 1 \in 0 .. k /\ 2 * (j - 1) - 1 \in 1 .. Len(s)
        BY <1>2, <3>1
      <4>2. s[2 * (j - 1) - 1] \in Byte
        BY <4>1, ElementOfSeq
      <4>3. c[(j - 1) - 1] \in Nat
        BY <1>5, <4>1
      <4>4. Byte \subseteq Nat
        BY DEF Byte
      <4>5. QED BY <4>2, <4>3, <4>4
    <3> HIDE DEF d
    <3>6. QED BY <3>2, <3>3, <3>4, <3>5
  <2>3. QED BY <2>1, <2>2
<1>9. Len(t) % 2 = 0 /\ Len(t) \div 2 = k + 1
  BY <1>2, <1>4
<1> HIDE DEF d
<1>10. PairsOf(t, x + n, d)
  BY <1>4, <1>7, <1>8, <1>9 DEF PairsOf
<1>11. QED BY <1>10 DEF Pairs, t

\* What _rle_encode makes of raw data, whatever the data: whole pairs, none of
\* count zero, whose counts add up to the length of the data.
LEMMA EncodesPairs ==
  ASSUME NEW raw \in Seq(Byte)
  PROVE  Pairs(rle_encode(raw), Len(raw))
<1> DEFINE l == Len(raw)
<1>0. l \in Nat
  BY LenProperties
<1>1. PICK g : Encodes(raw, 1, g) /\ rle_encode(raw) = g[1]
  BY EncodingIs
<1> DEFINE Bad == {d \in 0 .. l : ~Pairs(g[l + 1 - d], d)}
<1>2. Bad = {}
  <2>1. SUFFICES ASSUME Bad # {} PROVE FALSE
    OBVIOUS
  <2>2. PICK d \in Bad : \A n \in Bad : d <= n
    <3>1. Bad \in SUBSET Nat
      BY <1>0
    <3> HIDE DEF Bad
    <3>2. QED BY <2>1, <3>1, LeastMember
  <2> DEFINE p == l + 1 - d
             x == Run(raw, p)
  <2>3. d \in 0 .. l /\ ~Pairs(g[p], d)
    OBVIOUS
  <2>4. CASE d = 0
    <3>1. p = l + 1 /\ p \in 1 .. l + 1 /\ p > l
      BY <1>0, <2>4
    <3> HIDE DEF p
    <3>2. g[p] = <<>>
      BY <1>1, <3>1 DEF Encodes
    <3>3. PairsOf(<<>>, 0, [j \in 0 .. 0 |-> 0])
      <4> DEFINE c == [j \in 0 .. 0 |-> 0]
      <4>1. c \in [0 .. 0 -> Nat] /\ c[0] = 0
        OBVIOUS
      <4>2. <<>> \in Seq(Byte) /\ Len(<<>>) = 0 /\ 0 % 2 = 0 /\ 0 \div 2 = 0 /\ 1 .. 0 = {}
        OBVIOUS
      <4> HIDE DEF c
      <4>3. QED BY <4>1, <4>2 DEF PairsOf, c
    <3>4. QED BY <2>3, <2>4, <3>2, <3>3 DEF Pairs
  <2>5. CASE d # 0
    <3>1. p \in 1 .. l /\ p \in 1 .. l + 1 /\ ~(p > l)
      BY <1>0, <2>3, <2>5
    <3>2. x \in 1 .. 255 /\ p + x <= l + 1
      BY <3>1, RunIs
    <3>3. g[p] = <<x, raw[p]>> \o g[p + x]
      BY <1>1, <3>1 DEF Encodes
    <3> HIDE DEF x
    <3>4. d - x \in 0 .. l /\ ~(d <= d - x) /\ l + 1 - (d - x) = p + x /\ x + (d - x) = d
      BY <1>0, <2>3, <3>1, <3>2
    <3>5. Pairs(g[p + x], d - x)
      BY <2>2, <3>4
    <3>6. g[p + x] \in Seq(Byte) /\ raw[p] \in Byte /\ d - x \in Nat
      BY <3>1, <3>4, <3>5, ElementOfSeq DEF Pairs, PairsOf
    <3> HIDE DEF p
    <3>7. Pairs(<<x, raw[p]>> \o g[p + x], x + (d - x))
      BY <3>2, <3>5, <3>6, PairMore
    <3>8. QED BY <2>3, <3>3, <3>4, <3>7
  <2>6. QED BY <2>4, <2>5
<1>3. l \in 0 .. l /\ l + 1 - l = 1
  BY <1>0
<1>4. Pairs(g[l + 1 - l], l)
  <2> HIDE DEF l
  <2>1. QED BY <1>2, <1>3
<1>5. QED BY <1>1, <1>3, <1>4

\* An asset whose payload _rle_encode has made of its data is not malformed,
\* whatever the data, if its name is printable and the file can hold it: the
\* parser's check of RLE payloads accepts all that the encoder makes.
THEOREM EncoderAccepted ==
  ASSUME NEW raw \in Seq(Byte), NEW a \in Input,
         a.payload = rle_encode(raw), Len(a.payload) \in offset_t,
         a.compression = BUN_COMPRESSION_RLE, a.uncompressed_size = Len(raw),
         a.name # <<>>, \A k \in DOMAIN a.name : a.name[k] \in 32 .. 126
  PROVE  ~AssetMalformed(a)
<1> DEFINE s == a.payload
           k == Len(s) \div 2
           f == Alone(s)
           r == Record(a, 0, 0)
<1>1. PICK c : PairsOf(s, Len(raw), c)
  BY EncodesPairs DEF Pairs
<1>2. s \in Seq(Byte) /\ Len(s) \in Nat /\ Len(s) % 2 = 0 /\ k \in Nat /\ Len(s) = 2 * k
  <2>1. s \in Seq(Byte) /\ Len(s) \in Nat /\ Len(s) % 2 = 0
    BY <1>1, LenProperties DEF PairsOf
  <2>2. QED BY <2>1
<1>3. /\ IsFile(f) /\ f.header.data_section_offset = 0
      /\ \A q \in 0 .. Len(s) - 1 : ByteAt(f, q) = s[q + 1]
  BY <1>2, AloneIs
<1>4. /\ c \in [0 .. k -> Nat] /\ c[0] = 0 /\ c[k] = Len(raw)
      /\ \A j \in 1 .. k : s[2 * j - 1] # 0 /\ c[j] = c[j - 1] + s[2 * j - 1]
  BY <1>1 DEF PairsOf
<1>5. r.data_offset = 0 /\ r.data_size = Len(s) /\ r.uncompressed_size = Len(raw)
  BY DEF Record
<1> HIDE DEF s, k, f, r
<1>6. ASSUME NEW j \in 1 .. k PROVE ByteAt(f, 0 + 2 * (j - 1)) = s[2 * j - 1]
  <2>1. /\ 0 + 2 * (j - 1) = 2 * (j - 1) /\ 2 * (j - 1) \in 0 .. Len(s) - 1
        /\ 2 * (j - 1) + 1 = 2 * j - 1
    BY <1>2
  <2>2. ByteAt(f, 2 * (j - 1)) = s[2 * (j - 1) + 1]
    BY <1>3, <2>1
  <2>3. QED BY <2>1, <2>2
<1>7. Sums(f, 0, k, c)
  <2> SUFFICES ASSUME NEW j \in 0 .. k
               PROVE  c[j] = IF j = 0 THEN 0 ELSE c[j - 1] + ByteAt(f, 0 + 2 * (j - 1))
    BY DEF Sums
  <2>1. CASE j = 0
    BY <1>4, <2>1
  <2>2. CASE j # 0
    <3>1. j \in 1 .. k
      BY <1>2, <2>2
    <3>2. QED BY <1>4, <1>6, <2>2, <3>1
  <2>3. QED BY <2>1, <2>2
<1>8. Counts(f, 0, k) = Len(raw)
  <2>1. k <= k
    BY <1>2
  <2>2. Counts(f, 0, k) = c[k]
    BY <1>2, <1>3, <1>7, <2>1, CountsIs
  <2>3. QED BY <1>4, <2>2
<1>9. \A q \in 0 .. k - 1 : ByteAt(f, 0 + 2 * q) # 0
  <2>1. \A q \in 0 .. k - 1 : q + 1 \in 1 .. k /\ (q + 1) - 1 = q
    BY <1>2
  <2>2. SUFFICES ASSUME NEW q \in 0 .. k - 1 PROVE ByteAt(f, 0 + 2 * q) # 0
    OBVIOUS
  <2>3. q + 1 \in 1 .. k /\ (q + 1) - 1 = q
    BY <2>1
  <2>4. ByteAt(f, 0 + 2 * ((q + 1) - 1)) = s[2 * (q + 1) - 1] /\ s[2 * (q + 1) - 1] # 0
    BY <1>4, <1>6, <2>3
  <2>5. QED BY <2>3, <2>4
<1>10. RleWellFormed(f, r)
  <2>1. f.header.data_section_offset + r.data_offset = 0 /\ r.data_size \div 2 = k
    BY <1>3, <1>5 DEF k
  <2>2. r.data_size % 2 = 0
    BY <1>2, <1>5
  <2>3. QED BY <1>5, <1>8, <1>9, <2>1, <2>2 DEF RleWellFormed
<1>11. QED BY <1>10
           DEF AssetMalformed, f, r, s, BUN_COMPRESSION_RLE, BUN_COMPRESSION_NONE

=============================================================================
