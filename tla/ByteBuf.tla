------------------------------- MODULE ByteBuf --------------------------------
(***************************************************************************)
(* ByteBuf (include/core/protocol/buffer.hpp, src/protocol/buffer.cpp) in   *)
(* the life of one packet: the writer appends fields, the reader makes a    *)
(* buffer of the bytes that have come, as many of them as it was given, and *)
(* takes the fields from it, up to the first that fails.  A reader that     *)
(* takes the packet for another one reads fields of other kinds.            *)
(*                                                                         *)
(* A value is a sequence of integers: the one integer of a u8, u16, i32 or  *)
(* varint, the two words of an i64, the bytes of a string or a span.        *)
(***************************************************************************)
EXTENDS VarInt

CONSTANTS
  Fields,      \* the fields a writer may write: [kind : Kinds, value : Seq(Int)]
  MaxFields,   \* bound: fields in a packet
  MaxLen       \* max_len, the longest string the reader accepts

Kinds == {"u8", "u16", "i32", "i64", "varint", "string", "bytes"}

(* What each write takes: the integers of its type, the bytes of a string. *)
IsValue(kind, v) ==
  /\ kind = "u8" => Len(v) = 1 /\ v[1] \in Byte
  /\ kind = "u16" => Len(v) = 1 /\ v[1] \in Nat /\ v[1] < 65536
  /\ kind \in {"i32", "varint"} => Len(v) = 1 /\ v[1] \in Int32
  /\ kind = "i64" => Len(v) = 2 /\ v[1] \in Int32 /\ v[2] \in Int32
  /\ kind \in {"string", "bytes"} => v \in Seq(Byte) /\ Len(v) \in Int32

ASSUME FieldsAssumption ==
  /\ Fields \subseteq [kind : Kinds, value : Seq(Int)]
  /\ \A f \in Fields : IsValue(f.kind, f.value)
ASSUME LimitsAssumption == MaxFields \in Nat /\ MaxLen \in Nat

VARIABLES
  written,        \* the fields written, each with the offset it begins at
  buffer_,        \* first the writer's buffer, then the reader's
  read_cursor_,
  reader,         \* "none" yet, "reading", "failed", or "astray"
  taken           \* the values the reader has been given

vars == <<written, buffer_, read_cursor_, reader, taken>>

-------------------------------------------------------------------------------
(* Writing.  htons, htonl: the bytes of an integer, the highest first. *)
U16Bytes(v) == << v \div 256, v % 256 >>

I32Bytes(v) ==
  << (v \div 16777216) % 256, (v \div 65536) % 256, (v \div 256) % 256, v % 256 >>

write_i64(words) == I32Bytes(words[1]) \o I32Bytes(words[2])

write_string(str) == encode_varint(Len(str)) \o str

BytesOf(kind, v) ==
  CASE kind \in {"u8", "bytes"} -> v
    [] kind = "u16"             -> U16Bytes(v[1])
    [] kind = "i32"             -> I32Bytes(v[1])
    [] kind = "i64"             -> write_i64(v)
    [] kind = "varint"          -> encode_varint(v[1])
    [] OTHER                    -> write_string(v)

(* One write appends a field. *)
Write(f) ==
  /\ reader = "none"
  /\ Len(written) < MaxFields
  /\ written' = Append(written, [kind |-> f.kind, value |-> f.value, at |-> Len(buffer_)])
  /\ buffer_' = buffer_ \o BytesOf(f.kind, f.value)
  /\ UNCHANGED <<read_cursor_, reader, taken>>

(* ByteBuf(source): the reader's buffer, of the bytes that have come. *)
Construct ==
  /\ reader = "none"
  /\ reader' = "reading"
  /\ \E n \in 0 .. Len(buffer_) : buffer_' = SubSeq(buffer_, 1, n)
  /\ UNCHANGED <<written, read_cursor_, taken>>

-------------------------------------------------------------------------------
(* Reading from b, the remaining_span: the value, or a failure, and by how  *)
(* much the cursor moves.                                                   *)
Value(v, n) == [ok |-> TRUE, value |-> v, moves |-> n]
Failure(n)  == [ok |-> FALSE, value |-> <<>>, moves |-> n]

Signed(byte) == IF byte >= 128 THEN byte - 256 ELSE byte

I32Of(b) == Signed(b[1]) * 16777216 + b[2] * 65536 + b[3] * 256 + b[4]

read_u8(b)  == IF Len(b) < 1 THEN Failure(0) ELSE Value(<<b[1]>>, 1)
read_u16(b) == IF Len(b) < 2 THEN Failure(0) ELSE Value(<<b[1] * 256 + b[2]>>, 2)
read_i32(b) == IF Len(b) < 4 THEN Failure(0) ELSE Value(<<I32Of(b)>>, 4)

(* Fault: the two words are read one after the other. *)
read_i64_InTwo(b) ==
  IF Len(b) < 8 THEN Failure(IF Len(b) < 4 THEN 0 ELSE 4)
                ELSE Value(<<I32Of(b), I32Of(SubSeq(b, 5, 8))>>, 8)

read_i64(b) ==
  IF Len(b) < 8 THEN Failure(0) ELSE Value(<<I32Of(b), I32Of(SubSeq(b, 5, 8))>>, 8)

read_varint(b) ==
  LET res == decode_varint(b) IN
    IF res.bytes_read = 0 THEN Failure(0) ELSE Value(<<res.value>>, res.bytes_read)

(* Faults: the length is not compared with the bytes there are, and what    *)
(* there are of them is the string; a string as long as the limit is        *)
(* refused.                                                                 *)
read_string_Unchecked(b) ==
  LET length == decode_varint(b)
      n == length.bytes_read IN
    IF n = 0 \/ length.value \notin 0 .. MaxLen THEN Failure(n)
    ELSE Value(SubSeq(b, n + 1, IF n + length.value < Len(b) THEN n + length.value ELSE Len(b)),
               n + length.value)

read_string_Shorter(b) ==
  LET length == decode_varint(b)
      n == length.bytes_read IN
    IF n = 0 \/ length.value \notin 0 .. MaxLen - 1 \/ Len(b) - n < length.value
      THEN Failure(n)
      ELSE Value(SubSeq(b, n + 1, n + length.value), n + length.value)

(* read_string has taken the length when it refuses what follows.           *)
read_string(b) ==
  LET length == decode_varint(b)
      n == length.bytes_read IN
    IF n = 0 \/ length.value \notin 0 .. MaxLen \/ Len(b) - n < length.value
      THEN Failure(n)
      ELSE Value(SubSeq(b, n + 1, n + length.value), n + length.value)

read_bytes(b, length) ==
  IF Len(b) < length THEN Failure(0) ELSE Value(SubSeq(b, 1, length), length)

ReadOf(kind, length, b) ==
  CASE kind = "u8"     -> read_u8(b)
    [] kind = "u16"    -> read_u16(b)
    [] kind = "i32"    -> read_i32(b)
    [] kind = "i64"    -> read_i64(b)
    [] kind = "varint" -> read_varint(b)
    [] kind = "string" -> read_string(b)
    [] OTHER           -> read_bytes(b, length)

remaining_span == SubSeq(buffer_, read_cursor_ + 1, Len(buffer_))

(* The reader reads the field the writer wrote next. *)
Read ==
  /\ reader = "reading"
  /\ Len(taken) < Len(written)
  /\ LET f == written[Len(taken) + 1]
         res == ReadOf(f.kind, Len(f.value), remaining_span) IN
       /\ read_cursor_' = read_cursor_ + res.moves
       /\ IF res.ok
            THEN taken' = Append(taken, res.value) /\ UNCHANGED reader
            ELSE reader' = "failed" /\ UNCHANGED taken
  /\ UNCHANGED <<written, buffer_>>

(* It reads a field of any kind, and goes on when that fails.               *)
ReadAstray ==
  /\ reader \in {"reading", "failed", "astray"}
  /\ reader' = "astray"
  /\ \E kind \in Kinds, length \in 0 .. MaxLen :
       read_cursor_' = read_cursor_ + ReadOf(kind, length, remaining_span).moves
  /\ UNCHANGED <<written, buffer_, taken>>

-------------------------------------------------------------------------------
Init ==
  /\ written = <<>> /\ buffer_ = <<>> /\ read_cursor_ = 0
  /\ reader = "none" /\ taken = <<>>

Next == (\E f \in Fields : Write(f)) \/ Construct \/ Read \/ ReadAstray

Spec == Init /\ [][Next]_vars

-------------------------------------------------------------------------------
(* Every variable has its type, and the cursor stays in the buffer whatever *)
(* is read from whatever bytes, by a reader that went astray too.           *)
TypeOK ==
  /\ written \in Seq([kind : Kinds, value : Seq(Int), at : Nat])
  /\ buffer_ \in Seq(Byte)
  /\ read_cursor_ \in 0 .. Len(buffer_)
  /\ reader \in {"none", "reading", "failed", "astray"}
  /\ taken \in Seq(Seq(Int)) /\ Len(taken) =< Len(written)

(* A reader that asks for the fields that were written is never given       *)
(* another value, although the buffer says nothing of kinds, lengths or     *)
(* boundaries and the packet may have been cut at any byte.                 *)
NeverWrong == \A i \in 1 .. Len(taken) : taken[i] = written[i].value

(* It fails only on a field that is not all there, or a string too long.    *)
OnlyDamageFails ==
  reader = "failed" =>
    LET f == written[Len(taken) + 1] IN
      \/ Len(buffer_) < f.at + Len(BytesOf(f.kind, f.value))
      \/ f.kind = "string" /\ Len(f.value) > MaxLen

(* So a field is read back exactly when it is all there.                    *)
FieldsReadBack == NeverWrong /\ OnlyDamageFails

(* A read that fails leaves the cursor on the field, except that of a       *)
(* string may have passed its length: no field is half taken.               *)
FailsOnTheField ==
  reader = "failed" =>
    LET f == written[Len(taken) + 1] IN
      \/ read_cursor_ = f.at
      \/ f.kind = "string" /\ read_cursor_ = f.at + Len(encode_varint(Len(f.value)))
===============================================================================
