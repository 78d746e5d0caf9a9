---------------------------- MODULE RecordFormat ----------------------------
(***************************************************************************)
(* The bytes of a recording and the checksum of a stream                   *)
(* (include/replay/record_format.hpp and checksum.hpp), for bytes of two   *)
(* bits: a uint32 is four of them and a uint64 eight, so the layout, the   *)
(* shifts and the wrap of every width are the code's, on numbers of 8 and  *)
(* 16 bits.  The bit pattern of a double is any number of 16 bits.         *)
(***************************************************************************)
EXTENDS Integers, Sequences, Sums

-----------------------------------------------------------------------------
Byte == 4
kRecordBytes == 64
Max32 == Power(Byte, 4)
Max64 == Power(Byte, 8)

\* put_u32 and put_u64: n bytes, the lowest first.
PutUint(v, n) == [i \in 1..n |-> (v \div Power(Byte, i - 1)) % Byte]

\* get_u32 and get_u64, of n bytes of buf from offset at on.
GetUint(buf, at, n) == SumTo([i \in 1..n |-> buf[at + i] * Power(Byte, i - 1)], n)

Zeros(n) == [i \in 1..n |-> 0]

\* encode_record: the fields at offsets 0, 8, 16 and 24 of 64 bytes.
EncodeRecord(m) ==
    PutUint(m.stream_id, 4) \o Zeros(4) \o PutUint(m.ts_ns % Max64, 8) \o PutUint(m.value, 8)
      \o PutUint(m.seq, 8) \o Zeros(32)

\* decode_record; ts_ns is signed.
DecodeRecord(buf) ==
    LET ts == GetUint(buf, 8, 8)
    IN  [stream_id |-> GetUint(buf, 0, 4),
         ts_ns |-> IF ts >= Max64 \div 2 THEN ts - Max64 ELSE ts,
         value |-> GetUint(buf, 16, 8), seq |-> GetUint(buf, 24, 8)]

\* The bytes that StreamChecksum::update folds in: the fields, without padding.
ContentBytes(m) ==
    PutUint(m.stream_id, 4) \o PutUint(m.ts_ns % Max64, 8) \o PutUint(m.value, 8)
      \o PutUint(m.seq, 8)

kFnvOffsetBasis == 8997   \* the low 16 bits of the code's
kFnvPrime == 435

\* hash ^ b: a byte meets the lowest two bits.
Xor(hash, b) ==
    (hash \div Byte) * Byte + ((hash + b) % 2) + 2 * ((hash \div 2 + b \div 2) % 2)

\* The loop of update(), for one byte.
Mix(hash, b) == (Xor(hash, b) * kFnvPrime) % Max64

\* update(): every byte of a message's content.
UpdateHash(hash, m) ==
    LET bytes == ContentBytes(m)
        mixed[i \in 0..Len(bytes)] == IF i = 0 THEN hash ELSE Mix(mixed[i - 1], bytes[i])
    IN  mixed[Len(bytes)]

\* digest() after update() with each of the messages ms.
Digest(ms) ==
    LET after[n \in 0..Len(ms)] == IF n = 0 THEN kFnvOffsetBasis ELSE UpdateHash(after[n - 1], ms[n])
    IN  after[Len(ms)]
=============================================================================
