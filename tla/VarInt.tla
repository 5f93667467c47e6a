------------------------------- MODULE VarInt ---------------------------------
(***************************************************************************)
(* decode_varint and encode_varint (include/core/protocol/varint.hpp): a    *)
(* 32-bit integer in one to five bytes, seven bits in each, the lowest      *)
(* first, with the high bit set where another byte follows.                 *)
(*                                                                         *)
(* The loops of the code are stated by where they end.  The sixth round of  *)
(* the decoder shifts an int32_t by 35, which C++ leaves undefined, but it  *)
(* is refused next and the value goes with it.                              *)
(***************************************************************************)
EXTENDS Integers, Sequences

Byte  == {v \in Nat : v < 256}
Int32 == {v \in Int : v >= -2147483647 - 1 /\ v =< 2147483647}

MaxVarInt == 5

-------------------------------------------------------------------------------
(* The septets of uval, the value taken as unsigned, the lowest first.  The *)
(* fifth has four bits only.                                                *)
Septets(v) ==
  << v % 128, (v \div 128) % 128, (v \div 16384) % 128,
     (v \div 2097152) % 128, (v \div 268435456) % 16 >>

(* The value has no bits beyond its first n septets: uval is zero after n   *)
(* shifts, and was not before.                                              *)
FitsIn(v, n) ==
  /\ \A i \in n + 1 .. MaxVarInt : Septets(v)[i] = 0
  /\ n = 1 \/ Septets(v)[n] # 0

(* Fault: the high bit is set where the next septet is not zero. *)
encode_varint_NextSeptet(v) ==
  LET count == CHOOSE n \in 1 .. MaxVarInt : FitsIn(v, n) IN
    [i \in 1 .. count |->
       IF i < count /\ Septets(v)[i + 1] # 0 THEN Septets(v)[i] + 128 ELSE Septets(v)[i]]

encode_varint(v) ==
  LET count == CHOOSE n \in 1 .. MaxVarInt : FitsIn(v, n) IN
    [i \in 1 .. count |-> IF i < count THEN Septets(v)[i] + 128 ELSE Septets(v)[i]]

-------------------------------------------------------------------------------
Continues(byte) == byte >= 128

(* The loop ends on the n-th byte: the first that does not continue.        *)
EndsAt(b, n) ==
  /\ n =< Len(b)
  /\ ~Continues(b[n])
  /\ \A i \in 1 .. n - 1 : Continues(b[i])

(* What the i-th byte adds to the value; of the fifth the lowest four bits  *)
(* are left, and the highest of these is the sign.                          *)
Adds(byte, i) ==
  LET low == byte % 128 IN
    CASE i = 1 -> low
      [] i = 2 -> low * 128
      [] i = 3 -> low * 16384
      [] i = 4 -> low * 2097152
      [] OTHER -> (IF low % 16 >= 8 THEN (low % 16) - 16 ELSE low % 16) * 268435456

(* VarIntResult, with bytes_read 0 for an error. *)
NoVarInt == [value |-> 0, bytes_read |-> 0]

ValueOf(b, n) ==
  LET part == [i \in 1 .. MaxVarInt |-> IF i =< n THEN Adds(b[i], i) ELSE 0] IN
    part[1] + part[2] + part[3] + part[4] + part[5]

decode_varint(b) ==
  IF \E n \in 1 .. MaxVarInt : EndsAt(b, n)
    THEN LET n == CHOOSE n \in 1 .. MaxVarInt : EndsAt(b, n) IN
           [value |-> ValueOf(b, n), bytes_read |-> n]
    ELSE NoVarInt
===============================================================================
