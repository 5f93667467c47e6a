------------------------------ MODULE MCByteBuf -------------------------------
(***************************************************************************)
(* ByteBuf for TLC: two fields a packet, each next to each, from the values *)
(* where the encodings change: signs, extremes, the ends of each length of  *)
(* a varint, and strings empty, as long as the limit and longer than it.    *)
(***************************************************************************)
EXTENDS ByteBuf

MinInt == -2147483647 - 1
MaxInt == 2147483647

Field(kind, values) == {[kind |-> kind, value |-> v] : v \in values}

MCFields ==
  Field("u8", {<<0>>, <<255>>}) \cup
  Field("u16", {<<255>>, <<65280>>}) \cup
  Field("i32", {<<MinInt>>, <<-2>>, <<66051>>}) \cup
  Field("i64", {<<-1, 1>>, <<0, MinInt>>}) \cup
  Field("varint", {<<0>>, <<127>>, <<128>>, <<25565>>, <<2097152>>, <<MaxInt>>, <<-1>>, <<MinInt>>}) \cup
  Field("string", {<<>>, <<2>>, <<128, 1>>, <<1, 2, 3>>}) \cup
  Field("bytes", {<<>>, <<128, 0>>})

MCMaxFields == 2
MCMaxLen    == 2
===============================================================================
