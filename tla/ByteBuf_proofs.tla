---------------------------- MODULE ByteBuf_proofs ----------------------------
(***************************************************************************)
(* What ByteBuf and VarInt promise, for every set of fields, every packet   *)
(* made of them and every place it may be cut at.                           *)
(*                                                                         *)
(* First the encodings: an integer is the sum of its septets or bytes, the  *)
(* decoder stops on the first byte that does not continue (EndsOnce), so a  *)
(* varint is read back whatever follows it and refused when cut.  Then each *)
(* kind of field (FieldReadBack), and what no read ever does, of whatever   *)
(* bytes (ReadStays).  Then the state: BufferInv says where in the buffer   *)
(* each field lies, which none of the properties says and all rest on.      *)
(***************************************************************************)
EXTENDS ByteBuf, SequenceTheorems, TLAPS

-------------------------------------------------------------------------------
(* The seven bits of a varint's byte, and the byte of those that continue. *)
Septet == {x \in Nat : x < 128}
More   == {x \in Nat : x >= 128 /\ x < 256}

(* Integers in bytes, and back. *)
LEMMA SeptetTypes ==
  ASSUME NEW v \in Int32
  PROVE  /\ \A i \in 1 .. 5 : Septets(v)[i] \in Septet
         /\ Septets(v)[5] < 16
BY SMTT(30) DEF Septets, Septet, Int32

(* The septets of a value make it up: what encode_varint cuts adds up again. *)
LEMMA SeptetSum ==
  ASSUME NEW v \in Int32
  PROVE  LET s == Septets(v) IN
         v = s[1] + s[2] * 128 + s[3] * 16384 + s[4] * 2097152
               + (IF s[5] >= 8 THEN s[5] - 16 ELSE s[5]) * 268435456
BY SMTT(30) DEF Septets, Int32

(* The two bytes of write_u16 are those read_u16 puts together. *)
LEMMA U16ReadBack ==
  ASSUME NEW v \in Nat, v < 65536
  PROVE  /\ U16Bytes(v) \in Seq(Byte) /\ Len(U16Bytes(v)) = 2
         /\ U16Bytes(v)[1] * 256 + U16Bytes(v)[2] = v
BY SMTT(30) DEF U16Bytes, Byte

(* write_i32 appends four bytes, whatever the sign. *)
LEMMA I32Types ==
  ASSUME NEW v \in Int32
  PROVE  I32Bytes(v) \in Seq(Byte) /\ Len(I32Bytes(v)) = 4
BY SMTT(30) DEF I32Bytes, Int32, Byte

(* read_i32 undoes write_i32, the sign included. *)
LEMMA I32ReadBack ==
  ASSUME NEW v \in Int32
  PROVE  I32Of(I32Bytes(v)) = v
BY SMTT(30) DEF I32Of, I32Bytes, Signed, Int32

(* The number of bytes of a varint is well defined, and so are its bytes. *)
LEMMA FitsInSome ==
  ASSUME NEW v \in Int32
  PROVE  \E n \in 1 .. MaxVarInt : FitsIn(v, n)
<1> DEFINE s == Septets(v)
<1>1. \A i \in 1 .. 5 : s[i] \in Nat BY SeptetTypes DEF Septet
<1> HIDE DEF s
<1>2. CASE s[5] # 0 BY <1>2 DEF FitsIn, MaxVarInt, s
<1>3. CASE s[5] = 0 /\ s[4] # 0 BY <1>3 DEF FitsIn, MaxVarInt, s
<1>4. CASE s[5] = 0 /\ s[4] = 0 /\ s[3] # 0 BY <1>4 DEF FitsIn, MaxVarInt, s
<1>5. CASE s[5] = 0 /\ s[4] = 0 /\ s[3] = 0 /\ s[2] # 0
  BY <1>5 DEF FitsIn, MaxVarInt, s
<1>6. CASE s[5] = 0 /\ s[4] = 0 /\ s[3] = 0 /\ s[2] = 0
  BY <1>6 DEF FitsIn, MaxVarInt, s
<1> QED BY <1>2, <1>3, <1>4, <1>5, <1>6

(* What encode_varint appends, byte by byte. *)
LEMMA VarIntBytes ==
  ASSUME NEW v \in Int32
  PROVE  LET e == encode_varint(v) IN
         /\ e \in Seq(Byte) /\ Len(e) \in 1 .. 5
         /\ FitsIn(v, Len(e))
         /\ \A i \in 1 .. Len(e) :
              e[i] = IF i < Len(e) THEN Septets(v)[i] + 128 ELSE Septets(v)[i]
<1> DEFINE count == CHOOSE n \in 1 .. MaxVarInt : FitsIn(v, n)
           s == Septets(v)
           e == [i \in 1 .. count |-> IF i < count THEN s[i] + 128 ELSE s[i]]
<1>1. count \in 1 .. 5 /\ FitsIn(v, count) BY FitsInSome DEF MaxVarInt
<1>2. \A i \in 1 .. 5 : s[i] \in Septet BY SeptetTypes
<1> HIDE DEF count, s
<1>3. \A i \in 1 .. count : (IF i < count THEN s[i] + 128 ELSE s[i]) \in Byte
  BY <1>1, <1>2 DEF Byte, Septet
<1>4. e \in [1 .. count -> Byte] BY <1>3
<1>5. e \in Seq(Byte) /\ Len(e) = count BY <1>1, <1>4
<1>6. encode_varint(v) = e BY DEF encode_varint, count, s, e
<1> QED BY <1>1, <1>5, <1>6 DEF s

(* b begins with the bytes of e, or with as many of them as it has. *)
Begins(b, e) == \A i \in 1 .. Len(e) : i =< Len(b) => b[i] = e[i]

(* The decoder stops on the first byte that does not continue. *)
LEMMA EndsOnce ==
  ASSUME NEW b \in Seq(Byte), NEW c \in 1 .. 5, c =< Len(b),
         b[c] \in Septet, \A i \in 1 .. c - 1 : b[i] \in More
  PROVE  decode_varint(b) = [value |-> ValueOf(b, c), bytes_read |-> c]
<1>1. EndsAt(b, c)
  <2>1. ~(b[c] >= 128) BY DEF Septet
  <2>2. \A i \in 1 .. c - 1 : b[i] >= 128 BY DEF More
  <2> QED BY <2>1, <2>2 DEF EndsAt, Continues
<1>2. ASSUME NEW n \in 1 .. 5, EndsAt(b, n) PROVE n = c
  <2>0. ~(b[n] >= 128) /\ \A i \in 1 .. n - 1 : b[i] >= 128
    BY <1>2 DEF EndsAt, Continues
  <2>1. CASE n < c
    <3>1. n \in 1 .. c - 1 BY <2>1
    <3>2. b[n] \in More BY <3>1
    <3> QED BY <2>0, <3>2 DEF More
  <2>2. CASE n > c
    <3>1. c \in 1 .. n - 1 BY <2>2
    <3>2. b[c] >= 128 BY <2>0, <3>1
    <3> QED BY <3>2 DEF Septet
  <2> QED BY <2>1, <2>2
<1>3. (CHOOSE n \in 1 .. MaxVarInt : EndsAt(b, n)) = c
  BY <1>1, <1>2 DEF MaxVarInt
<1> QED BY <1>1, <1>3 DEF decode_varint, MaxVarInt

(* The bytes an encoded value begins a buffer with, where they are all there. *)
LEMMA VarIntIn ==
  ASSUME NEW v \in Int32, NEW b \in Seq(Byte), NEW c, c = Len(encode_varint(v)),
         Begins(b, encode_varint(v)), NEW i \in 1 .. c, i =< Len(b)
  PROVE  /\ b[i] % 128 = Septets(v)[i]
         /\ i < c => b[i] \in More
         /\ i = c => b[i] \in Septet
<1> DEFINE t == Septets(v)[i]
<1>1. c \in 1 .. 5 BY VarIntBytes
<1>2. i \in 1 .. 5 BY <1>1
<1>3. b[i] = encode_varint(v)[i] BY DEF Begins
<1>4. b[i] = IF i < c THEN t + 128 ELSE t BY <1>3, VarIntBytes
<1>5. t \in Septet BY <1>2, SeptetTypes
<1> HIDE DEF t
<1>6. t % 128 = t /\ (t + 128) % 128 = t BY <1>5, SMT DEF Septet
<1>7. CASE i < c
  <2>1. b[i] = t + 128 BY <1>4, <1>7
  <2>2. t + 128 \in More BY <1>5 DEF Septet, More
  <2>3. i # c BY <1>1, <1>2, <1>7
  <2> QED BY <1>6, <2>1, <2>2, <2>3 DEF t
<1>8. CASE ~(i < c)
  <2>1. b[i] = t BY <1>4, <1>8
  <2> QED BY <1>5, <1>6, <1>8, <2>1 DEF t
<1> QED BY <1>7, <1>8

(* What is behind the last byte of a varint does not matter to its decoding. *)
LEMMA VarIntReadBack ==
  ASSUME NEW v \in Int32, NEW b \in Seq(Byte),
         Begins(b, encode_varint(v)), Len(b) >= Len(encode_varint(v))
  PROVE  decode_varint(b) = [value |-> v, bytes_read |-> Len(encode_varint(v))]
<1> DEFINE c == Len(encode_varint(v))
           s == Septets(v)
           x(i) == IF i =< c THEN Adds(b[i], i) ELSE 0
<1>1. c \in 1 .. 5 /\ FitsIn(v, c) BY VarIntBytes
<1>2. c =< Len(b) /\ Len(b) \in Nat BY <1>1, LenProperties
<1>3. decode_varint(b) = [value |-> ValueOf(b, c), bytes_read |-> c]
  <2>0. c = Len(encode_varint(v)) OBVIOUS
  <2>2. \A i \in 1 .. c - 1 : b[i] \in More BY <1>1, <1>2, VarIntIn
  <2> HIDE DEF c
  <2>3. c \in 1 .. c BY <1>1
  <2>1. b[c] \in Septet BY <1>2, <2>0, <2>3, VarIntIn
  <2> QED BY <1>1, <1>2, <2>1, <2>2, EndsOnce
<1>4. \A i \in 1 .. 5 : i =< c => b[i] % 128 = s[i] BY <1>1, <1>2, VarIntIn
<1>5. \A i \in 1 .. 5 : ~(i =< c) => s[i] = 0 BY <1>1 DEF FitsIn, MaxVarInt
<1>6. s[1] \in Int /\ s[2] \in Int /\ s[3] \in Int /\ s[4] \in Int
  <2>1. \A i \in 1 .. 5 : s[i] \in Septet BY SeptetTypes
  <2> HIDE DEF s
  <2> QED BY <2>1 DEF Septet
<1>7. s[5] \in Nat /\ s[5] < 16 BY SeptetTypes DEF Septet
<1>8. v = s[1] + s[2] * 128 + s[3] * 16384 + s[4] * 2097152
            + (IF s[5] >= 8 THEN s[5] - 16 ELSE s[5]) * 268435456
  BY SeptetSum, SMT
<1> HIDE DEF c, s
<1>9. x(1) = s[1] BY <1>1, <1>4, <1>5, <1>6, SMT DEF Adds
<1>10. x(2) = s[2] * 128 BY <1>1, <1>4, <1>5, <1>6, SMT DEF Adds
<1>11. x(3) = s[3] * 16384 BY <1>1, <1>4, <1>5, <1>6, SMT DEF Adds
<1>12. x(4) = s[4] * 2097152 BY <1>1, <1>4, <1>5, <1>6, SMT DEF Adds
<1>13. x(5) = (IF s[5] >= 8 THEN s[5] - 16 ELSE s[5]) * 268435456
  <2>1. s[5] % 16 = s[5] BY <1>7, SMT
  <2> QED BY <1>1, <1>4, <1>5, <1>7, <2>1, SMT DEF Adds
<1>14. ValueOf(b, c) = x(1) + x(2) + x(3) + x(4) + x(5)
  <2> HIDE DEF x
  <2>1. ValueOf(b, c) = LET part == [i \in 1 .. MaxVarInt |-> x(i)] IN
          part[1] + part[2] + part[3] + part[4] + part[5]
    BY DEF ValueOf, x
  <2> QED BY <2>1 DEF MaxVarInt
<1> HIDE DEF x
<1>15. ValueOf(b, c) = v BY <1>8, <1>9, <1>10, <1>11, <1>12, <1>13, <1>14, SMT
<1> QED BY <1>3, <1>15 DEF c

(* A varint cut short is refused: every byte but the last says so. *)
LEMMA VarIntCut ==
  ASSUME NEW v \in Int32, NEW b \in Seq(Byte),
         Begins(b, encode_varint(v)), Len(b) < Len(encode_varint(v))
  PROVE  decode_varint(b) = NoVarInt
<1> DEFINE c == Len(encode_varint(v))
<1>1. c \in 1 .. 5 BY VarIntBytes
<1>2. Len(b) \in Nat BY LenProperties
<1>3. \A i \in 1 .. c : i =< Len(b) /\ i < c => b[i] \in More BY VarIntIn
<1>4. Len(b) < c OBVIOUS
<1> HIDE DEF c
<1>5. ASSUME NEW n \in 1 .. 5, EndsAt(b, n) PROVE FALSE
  <2>1. n =< Len(b) /\ ~(b[n] >= 128) BY <1>5 DEF EndsAt, Continues
  <2>2. n \in 1 .. c /\ n < c BY <1>1, <1>2, <1>4, <2>1
  <2>3. b[n] \in More BY <1>3, <2>1, <2>2
  <2> QED BY <2>1, <2>3 DEF More
<1> QED BY <1>5 DEF decode_varint, MaxVarInt

(* Whatever the bytes are, the decoder reads no more of them than there are. *)
LEMMA VarIntTaken ==
  ASSUME NEW b \in Seq(Byte)
  PROVE  decode_varint(b).value \in Int /\ decode_varint(b).bytes_read \in 0 .. Len(b)
<1>1. Len(b) \in Nat /\ \A i \in 1 .. Len(b) : b[i] \in Byte
  BY LenProperties, ElementOfSeq
<1>2. CASE \E n \in 1 .. MaxVarInt : EndsAt(b, n)
  <2> DEFINE m == CHOOSE n \in 1 .. MaxVarInt : EndsAt(b, n)
             part == [i \in 1 .. MaxVarInt |-> IF i =< m THEN Adds(b[i], i) ELSE 0]
  <2>1. m \in 1 .. 5 /\ m =< Len(b) BY <1>2 DEF EndsAt, MaxVarInt
  <2>2. decode_varint(b) = [value |-> ValueOf(b, m), bytes_read |-> m]
    BY <1>2 DEF decode_varint
  <2> HIDE DEF m
  <2>3. ASSUME NEW byte \in Byte, NEW i \in 1 .. 5 PROVE Adds(byte, i) \in Int
    BY SMTT(90) DEF Adds, Byte
  <2>4. \A i \in 1 .. 5 : part[i] \in Int
    <3> TAKE i \in 1 .. 5
    <3>1. part[i] = IF i =< m THEN Adds(b[i], i) ELSE 0 BY DEF MaxVarInt
    <3>2. CASE i =< m
      <4>1. i \in 1 .. Len(b) BY <1>1, <2>1, <3>2
      <4> QED BY <1>1, <2>3, <3>1, <3>2, <4>1
    <3> QED BY <3>1, <3>2
  <2> HIDE DEF part
  <2>5. part[1] + part[2] + part[3] + part[4] + part[5] \in Int BY <2>4, SMTT(40)
  <2>6. ValueOf(b, m) \in Int BY <2>5 DEF ValueOf, part
  <2> QED BY <1>1, <2>1, <2>2, <2>6
<1>3. CASE ~\E n \in 1 .. MaxVarInt : EndsAt(b, n)
  BY <1>1, <1>3 DEF decode_varint, NoVarInt
<1> QED BY <1>2, <1>3

-------------------------------------------------------------------------------
(* A field in bytes, and back. *)
LEMMA OfOne ==
  ASSUME NEW v \in Seq(Int), Len(v) = 1
  PROVE  v = <<v[1]>>
OBVIOUS

(* The two words of an i64. *)
LEMMA OfTwo ==
  ASSUME NEW v \in Seq(Int), Len(v) = 2
  PROVE  v = <<v[1], v[2]>>
OBVIOUS

(* What a write appends is bytes. *)
LEMMA FieldBytes ==
  ASSUME NEW kind \in Kinds, NEW v \in Seq(Int), IsValue(kind, v)
  PROVE  BytesOf(kind, v) \in Seq(Byte) /\ Len(BytesOf(kind, v)) \in Nat
<1>1. CASE kind \in {"u8", "bytes"}
  <2>1. BytesOf(kind, v) = v BY <1>1 DEF BytesOf
  <2>2. CASE kind = "u8"
    <3>1. Len(v) = 1 /\ v[1] \in Byte BY <2>2 DEF IsValue
    <3>2. \A i \in 1 .. Len(v) : v[i] \in Byte BY <3>1
    <3>3. v \in Seq(Byte) BY <3>2, SMT
    <3> QED BY <2>1, <3>1, <3>3
  <2>3. CASE kind = "bytes" BY <2>1, <2>3 DEF IsValue
  <2> QED BY <1>1, <2>2, <2>3
<1>2. CASE kind = "u16"
  <2>1. BytesOf(kind, v) = U16Bytes(v[1]) BY <1>2 DEF BytesOf
  <2> QED BY <1>2, <2>1, U16ReadBack DEF IsValue
<1>3. CASE kind = "i32"
  <2>1. BytesOf(kind, v) = I32Bytes(v[1]) BY <1>3 DEF BytesOf
  <2> QED BY <1>3, <2>1, I32Types DEF IsValue
<1>4. CASE kind = "i64"
  <2>1. BytesOf(kind, v) = I32Bytes(v[1]) \o I32Bytes(v[2])
    BY <1>4 DEF BytesOf, write_i64
  <2>2. I32Bytes(v[1]) \in Seq(Byte) /\ I32Bytes(v[2]) \in Seq(Byte)
    BY <1>4, I32Types DEF IsValue
  <2> QED BY <2>1, <2>2
<1>5. CASE kind = "varint"
  <2>1. BytesOf(kind, v) = encode_varint(v[1]) BY <1>5 DEF BytesOf
  <2>2. v[1] \in Int32 BY <1>5 DEF IsValue
  <2> QED BY <2>1, <2>2, VarIntBytes
<1>6. CASE kind = "string"
  <2>1. BytesOf(kind, v) = encode_varint(Len(v)) \o v
    BY <1>6 DEF BytesOf, write_string
  <2>2. v \in Seq(Byte) /\ Len(v) \in Int32 BY <1>6 DEF IsValue
  <2>3. encode_varint(Len(v)) \in Seq(Byte) BY <2>2, VarIntBytes
  <2> QED BY <2>1, <2>2, <2>3
<1> QED BY <1>1, <1>2, <1>3, <1>4, <1>5, <1>6 DEF Kinds

(* What a read says of the field (kind, v) that lies, whole or cut, at the  *)
(* beginning of b.                                                          *)
ReadsBack(kind, v, b, r) ==
  LET e == BytesOf(kind, v) IN
  /\ r.ok => r.value = v /\ r.moves = Len(e) /\ Len(e) =< Len(b)
  /\ ~r.ok => /\ Len(b) < Len(e) \/ (kind = "string" /\ Len(v) > MaxLen)
              /\ r.moves = 0 \/ (kind = "string" /\ r.moves = Len(encode_varint(Len(v))))

(* A read of n bytes that compares n with remaining() first reads back. *)
LEMMA FixedRead ==
  ASSUME NEW kind, NEW v, NEW b, NEW w, NEW n \in Nat, NEW r,
         Len(b) \in Nat, Len(BytesOf(kind, v)) = n, Len(b) >= n => w = v,
         r = IF Len(b) < n THEN Failure(0) ELSE Value(w, n)
  PROVE  ReadsBack(kind, v, b, r)
<1>1. CASE Len(b) < n
  <2>1. ~r.ok /\ r.moves = 0 BY <1>1 DEF Failure
  <2> QED BY <1>1, <2>1 DEF ReadsBack
<1>2. CASE Len(b) >= n
  <2>1. r.ok /\ r.value = w /\ r.moves = n BY <1>2 DEF Value
  <2> QED BY <1>2, <2>1 DEF ReadsBack
<1> QED BY <1>1, <1>2

(* The kinds whose size does not depend on a decoded length. *)
LEMMA FixedReadBack ==
  ASSUME NEW kind \in {"u8", "u16", "i32", "i64", "bytes"}, NEW v \in Seq(Int),
         IsValue(kind, v), NEW b \in Seq(Byte), Begins(b, BytesOf(kind, v))
  PROVE  ReadsBack(kind, v, b, ReadOf(kind, Len(v), b))
<1> DEFINE e == BytesOf(kind, v)
<1>0. Len(b) \in Nat /\ Len(v) \in Nat BY LenProperties
<1>1. CASE kind = "u8"
  <2>1. e = v /\ v = <<v[1]>> /\ Len(v) = 1 BY <1>1, OfOne DEF BytesOf, IsValue
  <2>2. ReadOf(kind, Len(v), b) = read_u8(b) BY <1>1 DEF ReadOf
  <2>3. Len(b) >= 1 => b[1] = v[1] BY <2>1, <1>0 DEF Begins
  <2> QED BY <1>0, <2>1, <2>2, <2>3, FixedRead DEF read_u8
<1>2. CASE kind = "u16"
  <2>1. e = U16Bytes(v[1]) /\ v = <<v[1]>> /\ v[1] \in Nat /\ v[1] < 65536
    BY <1>2, OfOne DEF BytesOf, IsValue
  <2>2. ReadOf(kind, Len(v), b) = read_u16(b) BY <1>2 DEF ReadOf
  <2>3. Len(e) = 2 /\ e[1] * 256 + e[2] = v[1] BY <2>1, U16ReadBack
  <2>4. Len(b) >= 2 => b[1] = e[1] /\ b[2] = e[2] BY <2>3, <1>0 DEF Begins
  <2> HIDE DEF e
  <2>5. Len(b) >= 2 => <<b[1] * 256 + b[2]>> = v BY <2>1, <2>3, <2>4
  <2> DEFINE w == <<b[1] * 256 + b[2]>>
  <2>6. Len(BytesOf(kind, v)) = 2 BY <2>3 DEF e
  <2>7. ReadOf(kind, Len(v), b) = IF Len(b) < 2 THEN Failure(0) ELSE Value(w, 2)
    BY <2>2 DEF read_u16
  <2>8. Len(b) >= 2 => w = v BY <2>5
  <2> HIDE DEF w
  <2> QED BY <1>0, <2>6, <2>7, <2>8, FixedRead
<1>3. CASE kind = "i32"
  <2>1. e = I32Bytes(v[1]) /\ v = <<v[1]>> /\ v[1] \in Int32
    BY <1>3, OfOne DEF BytesOf, IsValue
  <2>2. ReadOf(kind, Len(v), b) = read_i32(b) BY <1>3 DEF ReadOf
  <2>3. Len(e) = 4 /\ I32Of(e) = v[1] BY <2>1, I32Types, I32ReadBack
  <2>4. Len(b) >= 4 => b[1] = e[1] /\ b[2] = e[2] /\ b[3] = e[3] /\ b[4] = e[4]
    BY <2>3, <1>0 DEF Begins
  <2> HIDE DEF e
  <2>5. Len(b) >= 4 => I32Of(b) = I32Of(e) BY <2>4, SMT DEF I32Of
  <2>6. Len(b) >= 4 => <<I32Of(b)>> = v BY <2>1, <2>3, <2>5
  <2> QED BY <1>0, <2>2, <2>3, <2>6, FixedRead DEF read_i32, e
<1>4. CASE kind = "i64"
  <2> DEFINE g == I32Bytes(v[1])
             h == I32Bytes(v[2])
  <2>1. v = <<v[1], v[2]>> /\ v[1] \in Int32 /\ v[2] \in Int32
    BY <1>4, OfTwo DEF IsValue
  <2>2. ReadOf(kind, Len(v), b) = read_i64(b) BY <1>4 DEF ReadOf
  <2>3. /\ g \in Seq(Byte) /\ Len(g) = 4 /\ I32Of(g) = v[1]
        /\ h \in Seq(Byte) /\ Len(h) = 4 /\ I32Of(h) = v[2]
    BY <2>1, I32Types, I32ReadBack
  <2>4. e = g \o h BY <1>4 DEF BytesOf, write_i64
  <2> HIDE DEF e, g, h
  <2>5. Len(e) = 8
    <3>1. Len(e) = Len(g) + Len(h) BY <2>3, <2>4, ConcatProperties
    <3> QED BY <2>3, <3>1
  <2>6. /\ e[1] = g[1] /\ e[2] = g[2] /\ e[3] = g[3] /\ e[4] = g[4]
        /\ e[5] = h[1] /\ e[6] = h[2] /\ e[7] = h[3] /\ e[8] = h[4]
    <3>1. \A i \in 1 .. Len(g) + Len(h) :
            e[i] = IF i =< Len(g) THEN g[i] ELSE h[i - Len(g)]
      BY <2>3, <2>4, ConcatProperties
    <3>2. \A i \in 1 .. 8 : e[i] = IF i =< 4 THEN g[i] ELSE h[i - 4]
      BY <2>3, <3>1
    <3> QED BY <3>2
  <2>7. ASSUME Len(b) >= 8
        PROVE  /\ b[1] = e[1] /\ b[2] = e[2] /\ b[3] = e[3] /\ b[4] = e[4]
               /\ b[5] = e[5] /\ b[6] = e[6] /\ b[7] = e[7] /\ b[8] = e[8]
    <3>1. Begins(b, e) BY DEF e
    <3>2. \A i \in 1 .. 8 : i =< Len(b) => b[i] = e[i] BY <2>5, <3>1 DEF Begins
    <3>3. \A i \in 1 .. 8 : b[i] = e[i] BY <1>0, <2>7, <3>2, SMTT(40)
    <3> QED BY <3>3
  <2>8. ASSUME Len(b) >= 8 PROVE <<I32Of(b), I32Of(SubSeq(b, 5, 8))>> = v
    <3> DEFINE t == SubSeq(b, 5, 8)
    <3>1. t[1] = b[5] /\ t[2] = b[6] /\ t[3] = b[7] /\ t[4] = b[8]
      BY <1>0, <2>8
    <3> HIDE DEF t
    <3>2. I32Of(b) = I32Of(g) BY <2>6, <2>7, <2>8, SMT DEF I32Of
    <3>3. I32Of(t) = I32Of(h) BY <2>6, <2>7, <2>8, <3>1, SMT DEF I32Of
    <3> QED BY <2>1, <2>3, <3>2, <3>3 DEF t
  <2> QED BY <1>0, <2>2, <2>5, <2>8, FixedRead DEF read_i64, e
<1>5. CASE kind = "bytes"
  <2>1. e = v /\ v \in Seq(Byte) BY <1>5 DEF BytesOf, IsValue
  <2>2. ReadOf(kind, Len(v), b) = read_bytes(b, Len(v)) BY <1>5 DEF ReadOf
  <2>3. ASSUME Len(b) >= Len(v) PROVE SubSeq(b, 1, Len(v)) = v
    <3>1. \A i \in 1 .. Len(v) : b[i] = v[i] BY <1>0, <2>1, <2>3 DEF Begins
    <3> QED BY <1>0, <2>1, <2>3, <3>1
  <2> QED BY <1>0, <2>1, <2>2, <2>3, FixedRead DEF read_bytes
<1> QED BY <1>1, <1>2, <1>3, <1>4, <1>5

(* A concatenation is read in two parts. *)
LEMMA BeginsBoth ==
  ASSUME NEW g \in Seq(Byte), NEW h \in Seq(Byte), NEW b \in Seq(Byte), Begins(b, g \o h)
  PROVE  /\ Begins(b, g)
         /\ \A i \in 1 .. Len(h) : Len(g) + i =< Len(b) => b[Len(g) + i] = h[i]
         /\ Len(g \o h) = Len(g) + Len(h)
<1> DEFINE n == Len(g)
           m == Len(h)
           e == g \o h
           L == Len(b)
<1>1. n \in Nat /\ m \in Nat /\ L \in Nat BY LenProperties
<1>2. /\ Len(e) = n + m
      /\ \A i \in 1 .. n + m : e[i] = IF i =< n THEN g[i] ELSE h[i - n]
  BY ConcatProperties
<1>3. \A i \in 1 .. Len(e) : i =< L => b[i] = e[i] BY DEF Begins
<1> HIDE DEF n, m, e, L
<1>4. \A i \in 1 .. n : i =< L => b[i] = g[i] BY <1>1, <1>2, <1>3
<1>5. ASSUME NEW i \in 1 .. m, n + i =< L PROVE b[n + i] = h[i]
  <2>1. n + i \in 1 .. n + m /\ ~(n + i =< n) /\ (n + i) - n = i BY <1>1
  <2> QED BY <1>2, <1>3, <1>5, <2>1
<1> QED BY <1>2, <1>4, <1>5 DEF Begins, n, m, e, L

(* write_varint and read_varint. *)
LEMMA VarIntFieldReadBack ==
  ASSUME NEW v \in Seq(Int), IsValue("varint", v),
         NEW b \in Seq(Byte), Begins(b, BytesOf("varint", v))
  PROVE  ReadsBack("varint", v, b, ReadOf("varint", Len(v), b))
<1> DEFINE e == encode_varint(v[1])
           r == ReadOf("varint", Len(v), b)
<1>1. v = <<v[1]>> /\ v[1] \in Int32 BY OfOne DEF IsValue
<1>2. BytesOf("varint", v) = e BY DEF BytesOf
<1>3. r = read_varint(b) BY DEF ReadOf
<1>4. Len(b) \in Nat /\ Len(e) \in 1 .. 5 BY <1>1, LenProperties, VarIntBytes
<1>5. CASE Len(b) >= Len(e)
  <2>1. decode_varint(b) = [value |-> v[1], bytes_read |-> Len(e)]
    BY <1>1, <1>2, <1>5, VarIntReadBack
  <2>2. r = Value(<<v[1]>>, Len(e))
    <3> DEFINE c == Len(e)
               w == v[1]
               d == decode_varint(b)
    <3>0. c \in 1 .. 5 BY <1>4
    <3>1. d = [value |-> w, bytes_read |-> c] BY <2>1
    <3>2. read_varint(b) = IF d.bytes_read = 0 THEN Failure(0)
                           ELSE Value(<<d.value>>, d.bytes_read)
      BY DEF read_varint
    <3> HIDE DEF c, d, w
    <3>3. c # 0 BY <3>0
    <3>4. read_varint(b) = Value(<<w>>, c) BY <3>1, <3>2, <3>3
    <3> QED BY <1>3, <3>4 DEF c, w
  <2>3. r.ok /\ r.value = v /\ r.moves = Len(e) BY <1>1, <2>2 DEF Value
  <2> QED BY <1>2, <1>4, <1>5, <2>3 DEF ReadsBack
<1>6. CASE Len(b) < Len(e)
  <2>1. decode_varint(b) = NoVarInt BY <1>1, <1>2, <1>6, VarIntCut
  <2>2. r = Failure(0) BY <1>3, <2>1 DEF read_varint, NoVarInt
  <2>3. ~r.ok /\ r.moves = 0 BY <2>2 DEF Failure
  <2> QED BY <1>2, <1>6, <2>3 DEF ReadsBack
<1> QED BY <1>4, <1>5, <1>6

(* write_string and read_string: a varint, and as many bytes as it says. *)
LEMMA StringReadBack ==
  ASSUME NEW v \in Seq(Int), IsValue("string", v),
         NEW b \in Seq(Byte), Begins(b, BytesOf("string", v))
  PROVE  ReadsBack("string", v, b, ReadOf("string", Len(v), b))
<1> DEFINE g == encode_varint(Len(v))
           n == Len(g)
           m == Len(v)
           L == Len(b)
           r == ReadOf("string", m, b)
<1>1. v \in Seq(Byte) /\ m \in Int32 /\ m \in Nat BY LenProperties DEF IsValue
<1>2. BytesOf("string", v) = g \o v BY DEF BytesOf, write_string
<1>3. r = read_string(b) BY DEF ReadOf
<1>4. g \in Seq(Byte) /\ L \in Nat /\ n \in 1 .. 5 BY <1>1, LenProperties, VarIntBytes
<1>5. /\ Begins(b, g)
      /\ \A i \in 1 .. m : n + i =< L => b[n + i] = v[i]
      /\ Len(BytesOf("string", v)) = n + m
  BY <1>1, <1>2, <1>4, BeginsBoth
<1>6. L >= n => decode_varint(b) = [value |-> m, bytes_read |-> n]
  BY <1>1, <1>5, VarIntReadBack
<1>7. L < n => decode_varint(b) = NoVarInt BY <1>1, <1>5, VarIntCut
<1> HIDE DEF g, n, m, L, r
<1>8. CASE L < n
  <2>1. r = Failure(0) BY <1>3, <1>7, <1>8 DEF read_string, NoVarInt
  <2>2. ~r.ok /\ r.moves = 0 BY <2>1 DEF Failure
  <2>3. L < n + m BY <1>1, <1>4, <1>8
  <2> QED BY <1>5, <2>2, <2>3 DEF ReadsBack, L, m, r
<1>9. CASE L >= n /\ (m > MaxLen \/ L < n + m)
  <2>1. m \notin 0 .. MaxLen \/ L - n < m BY <1>1, <1>4, <1>9, LimitsAssumption
  <2>2. r = Failure(n) BY <1>3, <1>4, <1>6, <1>9, <2>1 DEF read_string, L
  <2>3. ~r.ok /\ r.moves = n BY <2>2 DEF Failure
  <2> QED BY <1>5, <1>9, <2>3 DEF ReadsBack, L, m, n, g, r
<1>10. CASE L >= n /\ m =< MaxLen /\ L >= n + m
  <2>1. m \in 0 .. MaxLen /\ ~(L - n < m) BY <1>1, <1>4, <1>10, LimitsAssumption
  <2>2. r = Value(SubSeq(b, n + 1, n + m), n + m)
    BY <1>3, <1>4, <1>6, <1>10, <2>1 DEF read_string, L
  <2> DEFINE t == SubSeq(b, n + 1, n + m)
  <2>3. \A i \in n + 1 .. n + m : b[i] \in Byte
    <3>1. \A i \in n + 1 .. n + m : i \in 1 .. Len(b) BY <1>1, <1>4, <1>10 DEF L
    <3> QED BY <3>1, ElementOfSeq
  <2>4. /\ t \in Seq(Byte) /\ Len(t) = m
        /\ \A i \in 1 .. m : t[i] = b[n + i]
    <3>1. n + 1 \in Int /\ n + m \in Int /\ (n + m) - (n + 1) + 1 = m BY <1>1, <1>4
    <3>2. /\ t \in Seq(Byte)
          /\ Len(t) = IF n + 1 =< n + m THEN m ELSE 0
          /\ \A i \in 1 .. m : t[i] = b[(n + 1) + i - 1]
      BY <2>3, <3>1, SubSeqProperties
    <3> QED BY <1>1, <1>4, <3>2
  <2>5. t = v
    <3>1. \A i \in 1 .. m : n + i =< L BY <1>1, <1>4, <1>10
    <3>2. Len(t) = Len(v) /\ \A i \in 1 .. Len(t) : t[i] = v[i]
      BY <1>5, <2>4, <3>1 DEF m
    <3> QED BY <1>1, <2>4, <3>2, SeqEqual
  <2>6. r.ok /\ r.value = v /\ r.moves = n + m BY <2>2, <2>5 DEF Value
  <2> QED BY <1>5, <1>10, <2>6 DEF ReadsBack, L, m, r
<1> QED BY <1>1, <1>4, <1>8, <1>9, <1>10, LimitsAssumption

(* Every kind of field. *)
LEMMA FieldReadBack ==
  ASSUME NEW kind \in Kinds, NEW v \in Seq(Int), IsValue(kind, v),
         NEW b \in Seq(Byte), Begins(b, BytesOf(kind, v))
  PROVE  ReadsBack(kind, v, b, ReadOf(kind, Len(v), b))
<1>1. CASE kind = "varint" BY <1>1, VarIntFieldReadBack
<1>2. CASE kind = "string" BY <1>2, StringReadBack
<1>3. CASE kind \in {"u8", "u16", "i32", "i64", "bytes"} BY <1>3, FixedReadBack
<1> QED BY <1>1, <1>2, <1>3 DEF Kinds

(* Whatever is read from whatever bytes, the cursor stays among them, and   *)
(* what is given is integers.                                               *)
Stays(b, r) ==
  /\ r.moves \in Nat /\ r.moves =< Len(b)
  /\ r.value \in Seq(Int)

(* No read, of any kind, passes the end of the bytes it is given. *)
LEMMA ReadStays ==
  ASSUME NEW kind \in Kinds, NEW length \in Nat, NEW b \in Seq(Byte)
  PROVE  Stays(b, ReadOf(kind, length, b))
<1> DEFINE L == Len(b)
<1>1. L \in Nat /\ \A i \in 1 .. L : b[i] \in Int
  BY LenProperties, ElementOfSeq DEF Byte
<1>2. ASSUME NEW n \in Nat, n =< L PROVE Stays(b, Failure(n))
  BY <1>2 DEF Stays, Failure
<1>3. ASSUME NEW n \in Nat, n =< L, NEW w \in Seq(Int) PROVE Stays(b, Value(w, n))
  BY <1>3 DEF Stays, Value
<1>4. ASSUME NEW t, t[1] \in Int, t[2] \in Int, t[3] \in Int, t[4] \in Int
      PROVE  I32Of(t) \in Int
  <2>1. Signed(t[1]) \in Int BY <1>4 DEF Signed
  <2> DEFINE g == Signed(t[1])
             h == t[2]
             i == t[3]
             j == t[4]
  <2>2. I32Of(t) = g * 16777216 + h * 65536 + i * 256 + j BY SMT DEF I32Of
  <2>3. g \in Int /\ h \in Int /\ i \in Int /\ j \in Int BY <1>4, <2>1
  <2> HIDE DEF g, h, i, j
  <2> QED BY <2>2, <2>3, SMT
<1>5. ASSUME NEW m \in Nat, NEW n \in Nat, n =< L
      PROVE  SubSeq(b, m + 1, n) \in Seq(Int)
  <2>1. \A i \in m + 1 .. n : i \in 1 .. L BY <1>1, <1>5
  <2>2. \A i \in m + 1 .. n : b[i] \in Int BY <1>1, <2>1
  <2>3. m + 1 \in Int /\ n \in Int OBVIOUS
  <2> QED BY <2>2, <2>3, SubSeqProperties
<1>6. ASSUME NEW n \in Nat, NEW w, L >= n => w \in Seq(Int)
       PROVE  Stays(b, IF L < n THEN Failure(0) ELSE Value(w, n))
  <2>1. CASE L < n BY <1>1, <1>2, <2>1
  <2>2. CASE L >= n BY <1>1, <1>3, <1>6, <2>2
  <2> QED BY <1>1, <2>1, <2>2
<1>7. CASE kind = "u8"
  <2>1. ReadOf(kind, length, b) = IF L < 1 THEN Failure(0) ELSE Value(<<b[1]>>, 1)
    BY <1>7 DEF ReadOf, read_u8
  <2> HIDE DEF L
  <2>2. L >= 1 => <<b[1]>> \in Seq(Int) BY <1>1
  <2> QED BY <1>6, <2>1, <2>2
<1>8. CASE kind = "u16"
  <2>1. ReadOf(kind, length, b) =
          IF L < 2 THEN Failure(0) ELSE Value(<<b[1] * 256 + b[2]>>, 2)
    BY <1>8 DEF ReadOf, read_u16
  <2> HIDE DEF L
  <2>2. L >= 2 => <<b[1] * 256 + b[2]>> \in Seq(Int) BY <1>1
  <2> QED BY <1>6, <2>1, <2>2
<1>9. CASE kind = "i32"
  <2>1. ReadOf(kind, length, b) = IF L < 4 THEN Failure(0) ELSE Value(<<I32Of(b)>>, 4)
    BY <1>9 DEF ReadOf, read_i32
  <2> HIDE DEF L
  <2>3. L >= 4 => <<I32Of(b)>> \in Seq(Int) BY <1>1, <1>4
  <2> QED BY <1>6, <2>1, <2>3
<1>10. CASE kind = "i64"
  <2> DEFINE t == SubSeq(b, 5, 8)
  <2>1. ReadOf(kind, length, b) =
          IF L < 8 THEN Failure(0) ELSE Value(<<I32Of(b), I32Of(t)>>, 8)
    BY <1>10 DEF ReadOf, read_i64
  <2>3. t[1] = b[5] /\ t[2] = b[6] /\ t[3] = b[7] /\ t[4] = b[8] OBVIOUS
  <2> HIDE DEF L, t
  <2>4. L >= 8 => I32Of(b) \in Int BY <1>1, <1>4
  <2>5. L >= 8 => I32Of(t) \in Int BY <1>1, <1>4, <2>3, SMTT(40)
  <2>6. L >= 8 => <<I32Of(b), I32Of(t)>> \in Seq(Int) BY <2>4, <2>5
  <2> QED BY <1>6, <2>1, <2>6
<1>11. CASE kind = "varint"
  <2> DEFINE d == decode_varint(b)
  <2>1. ReadOf(kind, length, b) =
          IF d.bytes_read = 0 THEN Failure(0) ELSE Value(<<d.value>>, d.bytes_read)
    BY <1>11 DEF ReadOf, read_varint
  <2>2. d.value \in Int /\ d.bytes_read \in Nat /\ d.bytes_read =< L BY <1>1, VarIntTaken
  <2> HIDE DEF L, d
  <2>3. <<d.value>> \in Seq(Int) BY <2>2
  <2> QED BY <1>1, <1>2, <1>3, <2>1, <2>2, <2>3
<1>12. CASE kind = "string"
  <2> DEFINE len == decode_varint(b).value
             n == decode_varint(b).bytes_read
             t == SubSeq(b, n + 1, n + len)
  <2>1. ReadOf(kind, length, b) =
          IF n = 0 \/ len \notin 0 .. MaxLen \/ L - n < len
            THEN Failure(n) ELSE Value(t, n + len)
    BY <1>12 DEF ReadOf, read_string
  <2>2. len \in Int /\ n \in Nat /\ n =< L BY <1>1, VarIntTaken
  <2> HIDE DEF L, n, len
  <2>3. ASSUME len \in 0 .. MaxLen, ~(L - n < len) PROVE Stays(b, Value(t, n + len))
    <3>1. n + len \in Nat /\ n + len =< L BY <1>1, <2>2, <2>3, LimitsAssumption
    <3>2. t \in Seq(Int) BY <1>5, <2>2, <3>1
    <3> QED BY <1>3, <3>1, <3>2
  <2>4. Stays(b, Failure(n)) BY <1>2, <2>2
  <2> QED BY <2>1, <2>3, <2>4
<1>13. CASE kind = "bytes"
  <2> DEFINE t == SubSeq(b, 1, length)
  <2>1. ReadOf(kind, length, b) = IF L < length THEN Failure(0) ELSE Value(t, length)
    BY <1>13 DEF ReadOf, read_bytes
  <2>2. length =< L => SubSeq(b, 0 + 1, length) \in Seq(Int) BY <1>5
  <2>3. length =< L => t \in Seq(Int) BY <2>2
  <2> HIDE DEF L, t
  <2> QED BY <1>1, <1>6, <2>1, <2>3
<1> QED BY <1>7, <1>8, <1>9, <1>10, <1>11, <1>12, <1>13 DEF Kinds

-------------------------------------------------------------------------------
(* The invariant: the fields lie in the buffer one after the other, as far  *)
(* as it goes, and a reader that goes on is at the end of what it took.     *)
Entry == [kind : Kinds, value : Seq(Int), at : Nat]

Over(f)     == f.at + Len(BytesOf(f.kind, f.value))
Position(n) == IF n = 0 THEN 0 ELSE Over(written[n])

Lies(f) ==
  LET e == BytesOf(f.kind, f.value) IN
    \A j \in 1 .. Len(e) : f.at + j =< Len(buffer_) => buffer_[f.at + j] = e[j]

Layout ==
  \A i \in 1 .. Len(written) :
    /\ IsValue(written[i].kind, written[i].value)
    /\ written[i].at = Position(i - 1)
    /\ Lies(written[i])

WriterInv ==
  reader = "none" =>
    /\ \A i \in 1 .. Len(written) : Over(written[i]) =< Len(buffer_)
    /\ Len(buffer_) = Position(Len(written))
    /\ read_cursor_ = 0 /\ taken = <<>>

CursorInv ==
  /\ reader = "reading" => read_cursor_ = Position(Len(taken))
  /\ reader = "failed" => Len(taken) < Len(written)

BufferInv ==
  /\ TypeOK /\ Layout /\ WriterInv /\ CursorInv
  /\ NeverWrong /\ OnlyDamageFails /\ FailsOnTheField

(* An empty buffer, and no field. *)
LEMMA InitInv == Init => BufferInv
BY DEF Init, BufferInv, TypeOK, Layout, WriterInv, CursorInv, Position,
       NeverWrong, OnlyDamageFails, FailsOnTheField

(* What was written has a kind, a value and bytes. *)
LEMMA EntryBytes ==
  ASSUME TypeOK, Layout, NEW i \in 1 .. Len(written)
  PROVE  /\ written[i] \in Entry
         /\ BytesOf(written[i].kind, written[i].value) \in Seq(Byte)
         /\ Len(BytesOf(written[i].kind, written[i].value)) \in Nat
<1>1. written[i] \in Entry BY ElementOfSeq DEF TypeOK, Entry
<1>2. IsValue(written[i].kind, written[i].value) BY DEF Layout
<1> QED BY <1>1, <1>2, FieldBytes DEF Entry

(* A write appends a field behind the others and moves none. *)
LEMMA WriteInv ==
  ASSUME BufferInv, NEW f \in Fields, Write(f)
  PROVE  BufferInv'
<1> DEFINE rec == [kind |-> f.kind, value |-> f.value, at |-> Len(buffer_)]
           e == BytesOf(f.kind, f.value)
           L == Len(buffer_)
<1>0. PICK n \in Nat : n = Len(written) BY LenProperties DEF BufferInv, TypeOK
<1>1. /\ f.kind \in Kinds /\ f.value \in Seq(Int) /\ IsValue(f.kind, f.value)
  BY FieldsAssumption
<1>2. e \in Seq(Byte) /\ Len(e) \in Nat BY <1>1, FieldBytes
<1>3. /\ TypeOK /\ Layout /\ reader = "none"
      /\ buffer_ \in Seq(Byte) /\ written \in Seq(Entry) /\ L \in Nat
  BY LenProperties DEF BufferInv, TypeOK, Write, Entry
<1>4. /\ \A i \in 1 .. n : Over(written[i]) =< L
      /\ L = Position(n) /\ read_cursor_ = 0 /\ taken = <<>>
  BY <1>0, <1>3 DEF BufferInv, WriterInv
<1>5. rec \in Entry BY <1>1, <1>3 DEF Entry
<1>6. /\ written' \in Seq(Entry) /\ Len(written') = n + 1 /\ written'[n + 1] = rec
      /\ \A i \in 1 .. n : written'[i] = written[i]
  <2>1. written' = Append(written, rec) BY DEF Write
  <2> QED BY <1>0, <1>3, <1>5, <2>1, AppendProperties
<1>7. /\ buffer_' \in Seq(Byte) /\ Len(buffer_') = L + Len(e)
      /\ \A j \in 1 .. L : buffer_'[j] = buffer_[j]
      /\ \A j \in 1 .. Len(e) : buffer_'[L + j] = e[j]
  <2> DEFINE m == Len(e)
  <2>1. buffer_' = buffer_ \o e BY DEF Write
  <2>2. /\ buffer_' \in Seq(Byte) /\ Len(buffer_') = L + m
        /\ \A j \in 1 .. L + m : buffer_'[j] = IF j =< L THEN buffer_[j] ELSE e[j - L]
    BY <1>2, <1>3, <2>1, ConcatProperties
  <2>3. m \in Nat BY <1>2
  <2> HIDE DEF m, L, e
  <2>4. \A j \in 1 .. L : buffer_'[j] = buffer_[j] BY <1>3, <2>2, <2>3
  <2>5. ASSUME NEW j \in 1 .. m PROVE buffer_'[L + j] = e[j]
    <3>1. L + j \in 1 .. L + m /\ ~(L + j =< L) /\ (L + j) - L = j BY <1>3, <2>3
    <3> QED BY <2>2, <3>1
  <2> QED BY <2>2, <2>4, <2>5 DEF m
<1>8. UNCHANGED <<read_cursor_, reader, taken>> BY DEF Write
<1>9. rec.kind = f.kind /\ rec.value = f.value /\ rec.at = L OBVIOUS
<1>10. Over(written[n + 1])' = L + Len(e) BY <1>6, <1>9 DEF Over
<1>11. \A i \in 0 .. n : Position(i)' = Position(i)
  <2> TAKE i \in 0 .. n
  <2>1. CASE i = 0 BY <2>1 DEF Position
  <2>2. CASE i # 0
    <3>1. i \in 1 .. n BY <1>3, <2>2
    <3>2. written'[i] = written[i] BY <1>6, <3>1
    <3>3. Over(written[i])' = Over(written[i]) BY <3>2 DEF Over
    <3> QED BY <2>2, <3>3 DEF Position
  <2> QED BY <2>1, <2>2
<1>12. Position(n + 1)' = L + Len(e)
  BY <1>10 DEF Position
<1>13. TypeOK'
  <2>1. read_cursor_' \in 0 .. Len(buffer_')  BY <1>2, <1>3, <1>4, <1>7, <1>8
  <2>2. taken' = <<>> /\ reader' = "none" BY <1>3, <1>4, <1>8
  <2> QED BY <1>3, <1>6, <1>7, <2>1, <2>2 DEF TypeOK, Entry
<1>14. Layout'
  <2>1. ASSUME NEW i \in 1 .. n
        PROVE  /\ IsValue(written'[i].kind, written'[i].value)
               /\ written'[i].at = Position(i - 1)'
               /\ Lies(written[i])'
    <3> DEFINE g == written[i]
               h == BytesOf(g.kind, g.value)
    <3>1. IsValue(g.kind, g.value) /\ g.at = Position(i - 1) /\ Lies(g)
      BY <1>0, <1>3 DEF Layout
    <3>2. g.at \in Nat /\ Len(h) \in Nat BY <1>0, <1>3, EntryBytes DEF Entry
    <3>3. g.at + Len(h) =< L BY <1>4 DEF Over
    <3>4. Position(i - 1)' = Position(i - 1)
      <4>1. i - 1 \in 0 .. n BY <1>3
      <4> QED BY <1>11, <4>1
    <3>5. \A j \in 1 .. Len(h) : buffer_[g.at + j] = h[j] /\ g.at + j \in 1 .. L
      <4>1. \A j \in 1 .. Len(h) : g.at + j =< L /\ g.at + j \in 1 .. L
        BY <1>3, <3>2, <3>3
      <4> QED BY <3>1, <4>1 DEF Lies
    <3>6. \A j \in 1 .. Len(h) : buffer_'[g.at + j] = h[j] BY <1>7, <3>5
    <3>7. written'[i] = g BY <1>6
    <3> HIDE DEF g
    <3> QED BY <3>1, <3>4, <3>6, <3>7 DEF Lies, g
  <2>2. ASSUME NEW i, i = n + 1
        PROVE  /\ IsValue(written'[i].kind, written'[i].value)
               /\ written'[i].at = Position(i - 1)'
               /\ Lies(written[i])'
    <3>1. written'[i] = rec /\ i - 1 = n /\ n \in 0 .. n BY <1>3, <1>6, <2>2
    <3>2. Position(i - 1)' = L BY <1>4, <1>11, <3>1
    <3>3. IsValue(written'[i].kind, written'[i].value) BY <1>1, <1>9, <3>1
    <3>4. written'[i].at = L BY <1>9, <3>1
    <3>5. BytesOf(written'[i].kind, written'[i].value) = e BY <1>9, <3>1
    <3>6. \A j \in 1 .. Len(e) : buffer_'[written'[i].at + j] = e[j] BY <1>7, <3>4
    <3>7. Lies(written[i])' BY <3>5, <3>6 DEF Lies
    <3> QED BY <3>2, <3>3, <3>4, <3>7
  <2>3. \A i \in 1 .. Len(written') : i \in 1 .. n \/ i = n + 1 BY <1>3, <1>6
  <2> QED BY <2>1, <2>2, <2>3 DEF Layout
<1>15. WriterInv'
  <2>1. \A i \in 1 .. n : Over(written[i])' = Over(written[i]) BY <1>6 DEF Over
  <2>2. \A i \in 1 .. n : Over(written[i]) \in Int
    <3>1. \A i \in 1 .. n : written[i].at \in Nat
                           /\ Len(BytesOf(written[i].kind, written[i].value)) \in Nat
      BY <1>0, <1>3, EntryBytes DEF Entry
    <3> QED BY <3>1 DEF Over
  <2>3. L =< L + Len(e) BY <1>2, <1>3
  <2>4. ASSUME NEW i \in 1 .. n PROVE Over(written[i])' =< L + Len(e)
    <3>1. Over(written[i]) =< L /\ Over(written[i]) \in Int BY <1>4, <2>2
    <3> HIDE DEF e, L
    <3>2. Over(written[i]) =< L + Len(e) BY <1>2, <1>3, <3>1
    <3> QED BY <2>1, <3>2
  <2>5. Over(written[n + 1])' =< L + Len(e) BY <1>2, <1>3, <1>10
  <2>6. \A i \in 1 .. Len(written') : i \in 1 .. n \/ i = n + 1 BY <1>3, <1>6
  <2>7. \A i \in 1 .. Len(written') : Over(written[i])' =< Len(buffer_')
    BY <1>7, <2>4, <2>5, <2>6
  <2>8. Len(buffer_') = Position(Len(written))' BY <1>6, <1>7, <1>12
  <2> QED BY <1>4, <1>8, <2>7, <2>8 DEF WriterInv
<1>16. CursorInv' /\ NeverWrong' /\ OnlyDamageFails' /\ FailsOnTheField'
  BY <1>3, <1>4, <1>8 DEF CursorInv, NeverWrong, OnlyDamageFails, FailsOnTheField
<1> QED BY <1>13, <1>14, <1>15, <1>16 DEF BufferInv

(* The reader has a prefix of the bytes, and starts on the first field. *)
LEMMA ConstructInv ==
  ASSUME BufferInv, Construct
  PROVE  BufferInv'
<1> DEFINE L == Len(buffer_)
           n == Len(written)
<1>1. /\ TypeOK /\ Layout /\ reader = "none" /\ reader' = "reading"
      /\ UNCHANGED <<written, read_cursor_, taken>>
      /\ read_cursor_ = 0 /\ taken = <<>>
  BY DEF BufferInv, WriterInv, Construct
<1>2. /\ buffer_ \in Seq(Byte) /\ L \in Nat
      /\ written \in Seq(Entry) /\ n \in Nat
  BY <1>1, LenProperties DEF TypeOK, Entry
<1>3. PICK m \in 0 .. L : buffer_' = SubSeq(buffer_, 1, m) BY DEF Construct
<1>4. /\ buffer_' \in Seq(Byte) /\ Len(buffer_') = m
      /\ \A j \in 1 .. m : buffer_'[j] = buffer_[j]
  <2>1. \A j \in 1 .. m : buffer_[j] \in Byte BY <1>2, ElementOfSeq
  <2>2. m \in Int /\ m \in Nat BY <1>2
  <2>3. /\ SubSeq(buffer_, 1, m) \in Seq(Byte)
        /\ Len(SubSeq(buffer_, 1, m)) = IF 1 =< m THEN m - 1 + 1 ELSE 0
        /\ \A j \in 1 .. m - 1 + 1 : SubSeq(buffer_, 1, m)[j] = buffer_[1 + j - 1]
    BY <2>1, <2>2, SubSeqProperties
  <2> HIDE DEF L
  <2> QED BY <1>3, <2>2, <2>3
<1>5. TypeOK'
  <2>1. read_cursor_' \in 0 .. Len(buffer_') BY <1>1, <1>2, <1>4
  <2> QED BY <1>1, <1>4, <2>1 DEF TypeOK
<1>6. Layout'
  <2>1. ASSUME NEW i \in 1 .. n
        PROVE  /\ IsValue(written[i].kind, written[i].value)
               /\ written[i].at = Position(i - 1)'
               /\ Lies(written[i])'
    <3> DEFINE g == written[i]
               h == BytesOf(g.kind, g.value)
    <3>1. IsValue(g.kind, g.value) /\ g.at = Position(i - 1) /\ Lies(g)
      BY <1>1 DEF Layout
    <3>2. g.at \in Nat BY <1>1, EntryBytes DEF Entry
    <3>3. Position(i - 1)' = Position(i - 1) BY <1>1 DEF Position, Over
    <3>4. \A j \in 1 .. Len(h) : g.at + j =< L => buffer_[g.at + j] = h[j]
      BY <3>1 DEF Lies
    <3> HIDE DEF g, h, L
    <3>5. ASSUME NEW j \in 1 .. Len(h), g.at + j =< m PROVE buffer_'[g.at + j] = h[j]
      <4>1. g.at + j =< L /\ g.at + j \in 1 .. m BY <1>2, <3>2, <3>5
      <4> QED BY <1>4, <3>4, <4>1
    <3>6. g = g' /\ h = h' BY <1>1 DEF g, h
    <3> QED BY <1>1, <1>4, <3>1, <3>3, <3>5, <3>6 DEF Lies, g, h
  <2> QED BY <1>1, <2>1 DEF Layout
<1>7. CursorInv' /\ WriterInv' /\ NeverWrong' /\ OnlyDamageFails' /\ FailsOnTheField'
  BY <1>1 DEF CursorInv, WriterInv, Position, NeverWrong, OnlyDamageFails, FailsOnTheField
<1> QED BY <1>5, <1>6, <1>7 DEF BufferInv

(* The remaining_span is the buffer from the cursor on. *)
LEMMA RemainingSpan ==
  ASSUME TypeOK
  PROVE  /\ remaining_span \in Seq(Byte)
         /\ Len(remaining_span) = Len(buffer_) - read_cursor_
         /\ Len(remaining_span) \in Nat
         /\ \A j \in 1 .. Len(remaining_span) : remaining_span[j] = buffer_[read_cursor_ + j]
<1> DEFINE L == Len(buffer_)
           c == read_cursor_
           t == SubSeq(buffer_, c + 1, L)
<1>1. /\ L \in Nat /\ c \in Nat /\ c =< L
      /\ \A j \in 1 .. L : buffer_[j] \in Byte
  BY LenProperties, ElementOfSeq DEF TypeOK
<1>2. remaining_span = t BY DEF remaining_span
<1> HIDE DEF L, c
<1>3. c + 1 \in Int /\ L \in Int /\ \A j \in c + 1 .. L : buffer_[j] \in Byte BY <1>1
<1>4. /\ t \in Seq(Byte)
      /\ Len(t) = IF c + 1 =< L THEN L - (c + 1) + 1 ELSE 0
      /\ \A j \in 1 .. L - (c + 1) + 1 : t[j] = buffer_[(c + 1) + j - 1]
  BY <1>3, SubSeqProperties
<1> HIDE DEF t
<1>5. Len(t) = L - c /\ Len(t) \in Nat BY <1>1, <1>4
<1>6. ASSUME NEW j \in 1 .. L - c PROVE t[j] = buffer_[c + j]
  <2>1. j \in 1 .. L - (c + 1) + 1 /\ (c + 1) + j - 1 = c + j BY <1>1
  <2> QED BY <1>4, <2>1
<1> QED BY <1>2, <1>4, <1>5, <1>6 DEF L, c

(* A read takes the next field or stops before it. *)
LEMMA ReadInv ==
  ASSUME BufferInv, Read
  PROVE  BufferInv'
<1>0. PICK k \in Nat : k = Len(taken) BY LenProperties DEF BufferInv, TypeOK
<1> DEFINE f == written[k + 1]
           e == BytesOf(f.kind, f.value)
           b == remaining_span
           r == ReadOf(f.kind, Len(f.value), b)
           L == Len(buffer_)
           c == read_cursor_
<1>1. /\ TypeOK /\ Layout /\ reader = "reading" /\ NeverWrong
      /\ k < Len(written) /\ c = Position(k)
      /\ UNCHANGED <<written, buffer_>>
  BY <1>0 DEF BufferInv, CursorInv, Read
<1>2. /\ c' = c + r.moves
      /\ r.ok => taken' = Append(taken, r.value) /\ reader' = "reading"
      /\ ~r.ok => reader' = "failed" /\ taken' = taken
  BY <1>0, <1>1 DEF Read
<1>3. /\ L \in Nat /\ c \in Nat /\ c =< L
      /\ Len(written) \in Nat /\ k + 1 \in 1 .. Len(written)
  BY <1>1, LenProperties DEF TypeOK
<1>4. /\ f.kind \in Kinds /\ f.value \in Seq(Int) /\ f.at \in Nat
      /\ e \in Seq(Byte) /\ Len(e) \in Nat
  BY <1>1, <1>3, EntryBytes DEF Entry
<1>5. IsValue(f.kind, f.value) /\ f.at = c /\ Lies(f)
  <2>1. IsValue(f.kind, f.value) /\ f.at = Position((k + 1) - 1) /\ Lies(f)
    BY <1>1, <1>3 DEF Layout
  <2>2. (k + 1) - 1 = k OBVIOUS
  <2> QED BY <1>1, <2>1, <2>2
<1>6. /\ b \in Seq(Byte) /\ Len(b) = L - c /\ Len(b) \in Nat
      /\ \A j \in 1 .. Len(b) : b[j] = buffer_[c + j]
  BY <1>1, RemainingSpan
<1>7. Begins(b, e)
  <2> DEFINE m == Len(b)
  <2>1. \A j \in 1 .. Len(e) : c + j =< L => buffer_[c + j] = e[j] BY <1>5 DEF Lies
  <2>2. m \in Nat /\ m = L - c /\ \A j \in 1 .. m : b[j] = buffer_[c + j] BY <1>6
  <2> HIDE DEF m, L, c, e, b, f
  <2>3. ASSUME NEW j \in 1 .. Len(e), j =< m PROVE b[j] = e[j]
    <3>1. j \in 1 .. m /\ c + j =< L BY <1>3, <1>4, <2>2, <2>3
    <3> QED BY <2>1, <2>2, <3>1
  <2> QED BY <2>3 DEF Begins, m
<1>8. ReadsBack(f.kind, f.value, b, r) BY <1>4, <1>5, <1>6, <1>7, FieldReadBack
<1>9. Stays(b, r)
  <2>1. Len(f.value) \in Nat BY <1>4, LenProperties
  <2> QED BY <1>4, <1>6, <2>1, ReadStays
<1>10. /\ r.ok => r.value = f.value /\ r.moves = Len(e)
       /\ ~r.ok => /\ L - c < Len(e) \/ (f.kind = "string" /\ Len(f.value) > MaxLen)
                   /\ \/ r.moves = 0
                      \/ f.kind = "string" /\ r.moves = Len(encode_varint(Len(f.value)))
       /\ r.moves \in Nat /\ r.moves =< L - c
  <2> DEFINE m == Len(b)
  <2>1. /\ r.ok => r.value = f.value /\ r.moves = Len(e)
        /\ ~r.ok => /\ m < Len(e) \/ (f.kind = "string" /\ Len(f.value) > MaxLen)
                    /\ \/ r.moves = 0
                       \/ f.kind = "string" /\ r.moves = Len(encode_varint(Len(f.value)))
    <3> HIDE DEF r, f, b
    <3> QED BY <1>8, Zenon DEF ReadsBack
  <2>2. r.moves \in Nat /\ r.moves =< m BY <1>9 DEF Stays
  <2>3. m = L - c BY <1>6
  <2> HIDE DEF m, r, f, L, c
  <2> QED BY <2>1, <2>2, <2>3
<1>11. \A i \in Nat : Position(i)' = Position(i) BY <1>1 DEF Position, Over
<1>12. Layout'
  <2>1. \A i \in 1 .. Len(written) : i - 1 \in Nat BY <1>3
  <2> QED BY <1>1, <1>11, <2>1 DEF Layout, Lies
<1>13. c' \in 0 .. Len(buffer_')
  <2> DEFINE m == r.moves
  <2>1. m \in Nat /\ m =< L - c /\ c' = c + m BY <1>2, <1>10
  <2> HIDE DEF m
  <2> QED BY <1>1, <1>3, <2>1
<1>14. WriterInv' BY <1>2 DEF WriterInv
<1>15. CASE r.ok
  <2>1. /\ taken' = Append(taken, f.value) /\ reader' = "reading" /\ c' = c + Len(e)
    BY <1>2, <1>10, <1>15
  <2>2. /\ taken' \in Seq(Seq(Int)) /\ Len(taken') = k + 1
        /\ \A i \in 1 .. k : taken'[i] = taken[i]
        /\ taken'[k + 1] = f.value
    BY <1>0, <1>1, <1>4, <2>1, AppendProperties DEF TypeOK
  <2>3. TypeOK' BY <1>1, <1>3, <1>13, <2>1, <2>2 DEF TypeOK
  <2>4. NeverWrong'
    <3>1. \A i \in 1 .. k : taken[i] = written[i].value BY <1>0, <1>1 DEF NeverWrong
    <3>2. \A i \in 1 .. k + 1 : i \in 1 .. k \/ i = k + 1 OBVIOUS
    <3>3. \A i \in 1 .. k + 1 : taken'[i] = written[i].value BY <2>2, <3>1, <3>2
    <3> QED BY <1>1, <2>2, <3>3 DEF NeverWrong
  <2>5. CursorInv'
    <3>1. Position(k + 1) = f.at + Len(e) BY DEF Position, Over
    <3>2. Position(k + 1)' = c' BY <1>5, <1>11, <2>1, <3>1
    <3> QED BY <2>1, <2>2, <3>2 DEF CursorInv
  <2>6. OnlyDamageFails' /\ FailsOnTheField' BY <2>1 DEF OnlyDamageFails, FailsOnTheField
  <2> QED BY <1>12, <1>14, <2>3, <2>4, <2>5, <2>6 DEF BufferInv
<1>16. CASE ~r.ok
  <2>1. taken' = taken /\ reader' = "failed" BY <1>2, <1>16
  <2>2. TypeOK' BY <1>1, <1>13, <2>1 DEF TypeOK
  <2>3. NeverWrong' BY <1>1, <2>1 DEF NeverWrong
  <2>4. CursorInv' BY <1>0, <1>1, <2>1 DEF CursorInv
  <2>5. OnlyDamageFails'
    <3> DEFINE m == Len(e)
    <3>1. m \in Nat /\ (L - c < m \/ (f.kind = "string" /\ Len(f.value) > MaxLen))
      BY <1>4, <1>10, <1>16
    <3> HIDE DEF m, L, c, f
    <3>2. L < c + m \/ (f.kind = "string" /\ Len(f.value) > MaxLen) BY <1>3, <3>1
    <3> QED BY <1>0, <1>1, <1>5, <2>1, <3>2 DEF OnlyDamageFails, m, L, f
  <2>6. FailsOnTheField'
    <3>1. \/ c' = f.at
          \/ f.kind = "string" /\ c' = f.at + Len(encode_varint(Len(f.value)))
      BY <1>2, <1>3, <1>5, <1>10, <1>16
    <3> QED BY <1>0, <1>1, <2>1, <3>1 DEF FailsOnTheField
  <2> QED BY <1>12, <1>14, <2>2, <2>3, <2>4, <2>5, <2>6 DEF BufferInv
<1> QED BY <1>15, <1>16

(* A reader that went astray moves the cursor and nothing else. *)
LEMMA AstrayInv ==
  ASSUME BufferInv, ReadAstray
  PROVE  BufferInv'
<1>1. /\ TypeOK /\ Layout /\ NeverWrong /\ reader' = "astray"
      /\ UNCHANGED <<written, buffer_, taken>>
  BY DEF BufferInv, ReadAstray
<1>2. PICK kind \in Kinds, length \in 0 .. MaxLen :
        read_cursor_' = read_cursor_ + ReadOf(kind, length, remaining_span).moves
  BY DEF ReadAstray
<1>3. TypeOK'
  <2> DEFINE m == ReadOf(kind, length, remaining_span).moves
  <2>1. m \in Nat /\ m =< Len(buffer_) - read_cursor_
    <3>1. length \in Nat BY LimitsAssumption
    <3> QED BY <1>1, <3>1, RemainingSpan, ReadStays DEF Stays
  <2>2. Len(buffer_) \in Nat /\ read_cursor_ \in Nat /\ read_cursor_' = read_cursor_ + m
    BY <1>1, <1>2, LenProperties DEF TypeOK
  <2> HIDE DEF m
  <2>3. read_cursor_' \in 0 .. Len(buffer_) BY <2>1, <2>2
  <2> QED BY <1>1, <2>3 DEF TypeOK
<1>4. Layout' BY <1>1 DEF Layout, Lies, Position, Over
<1>5. WriterInv' /\ CursorInv' /\ NeverWrong' /\ OnlyDamageFails' /\ FailsOnTheField'
  BY <1>1 DEF WriterInv, CursorInv, NeverWrong, OnlyDamageFails, FailsOnTheField
<1> QED BY <1>3, <1>4, <1>5 DEF BufferInv

(* The invariant holds of every run, whatever the fields are. *)
THEOREM BufferInvariant == Spec => []BufferInv
<1>1. BufferInv /\ UNCHANGED vars => BufferInv'
  <2> SUFFICES ASSUME BufferInv, UNCHANGED vars PROVE BufferInv' OBVIOUS
  <2> USE DEF vars, BufferInv
  <2>1. TypeOK' BY DEF TypeOK
  <2>2. Layout' BY DEF Layout, Lies, Position, Over
  <2>3. WriterInv' BY DEF WriterInv, Position, Over
  <2>4. CursorInv' BY DEF CursorInv, Position, Over
  <2>5. NeverWrong' /\ OnlyDamageFails' /\ FailsOnTheField'
    BY DEF NeverWrong, OnlyDamageFails, FailsOnTheField
  <2> QED BY <2>1, <2>2, <2>3, <2>4, <2>5
<1>2. BufferInv /\ [Next]_vars => BufferInv'
  BY <1>1, WriteInv, ConstructInv, ReadInv, AstrayInv DEF Next
<1> QED BY InitInv, <1>2, PTL DEF Spec

(* TypeOK for every set of fields: no read, of whatever kind and of whatever *)
(* bytes, takes the cursor out of the buffer.                               *)
THEOREM BufferTypeCorrect == Spec => []TypeOK
<1>1. BufferInv => TypeOK BY DEF BufferInv
<1> QED BY BufferInvariant, <1>1, PTL

(* NeverWrong for every packet and every place it is cut at: what the       *)
(* reader is given is what was written.                                     *)
THEOREM NeverWrongHolds == Spec => []NeverWrong
<1>1. BufferInv => NeverWrong BY DEF BufferInv
<1> QED BY BufferInvariant, <1>1, PTL

(* OnlyDamageFails for every packet: a whole field is never refused.        *)
THEOREM OnlyDamageFailsHolds == Spec => []OnlyDamageFails
<1>1. BufferInv => OnlyDamageFails BY DEF BufferInv
<1> QED BY BufferInvariant, <1>1, PTL

(* FieldsReadBack for every packet and every cut.                           *)
THEOREM FieldsReadBackHolds == Spec => []FieldsReadBack
BY NeverWrongHolds, OnlyDamageFailsHolds, PTL DEF FieldsReadBack

(* FailsOnTheField for every packet: no field is half taken.                *)
THEOREM FailsOnTheFieldHolds == Spec => []FailsOnTheField
<1>1. BufferInv => FailsOnTheField BY DEF BufferInv
<1> QED BY BufferInvariant, <1>1, PTL
===============================================================================
