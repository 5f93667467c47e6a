--------------------------- MODULE Framing_proofs ----------------------------
(***************************************************************************)
(* Theorems about the two halves of the packet framing.                     *)
(*                                                                         *)
(* FrameReader, for any set of shapes, any number of frames and any way TCP *)
(* cuts the stream, as long as every frame is LongOrAwaited: the read loop  *)
(* never loses its place, and implements PacketStream.                      *)
(*                                                                         *)
(* The argument: the frames lie end to end, what has been received is a     *)
(* prefix of them, and what has been taken ends where the last of these     *)
(* ends, or inside the next one by as much as the payload still misses.     *)
(* The bytes read with a prefix cannot reach past a frame of five bytes or  *)
(* more, and past a shorter one nothing has been written yet.               *)
(*                                                                         *)
(* FrameWriter, for any number of packets of any lengths and any send       *)
(* buffer: they begin on the wire in the order they were sent, and each has *)
(* one write under way until it is written, or fails.                       *)
(***************************************************************************)
EXTENDS FrameReader, FrameWriter, SequenceTheorems, TLAPS

Frame == [at : Nat, prefix : 1 .. 3, body : Nat \ {0}]

(* Where the first i frames end. *)
Boundary(i) == IF i = 0 THEN 0 ELSE EndOf(stream[i])

EndToEnd ==
  /\ \A i \in 1 .. Len(stream) : ShapeOf(stream[i]) \in Shapes
  /\ \A i \in 1 .. Len(stream) : stream[i].at = Boundary(i - 1)
  /\ \A i, j \in 1 .. Len(stream) : i < j => EndOf(stream[i]) =< stream[j].at

NothingBehindAwaited ==
  \A i \in 1 .. Len(stream) :
    i < Len(stream) /\ ShapeOf(stream[i]) \in Awaited => Len(received) >= i

ReceivedPrefix ==
  /\ Len(received) =< Len(stream)
  /\ \A i \in 1 .. Len(received) : received[i] = i

InPlace ==
  /\ pc # "stopped"
  /\ pc = "length" => taken = Boundary(Len(received))
  /\ pc = "payload" =>
       /\ Len(received) < Len(stream)
       /\ frame = Len(received) + 1
       /\ taken + missing = EndOf(stream[frame])

ReaderInv ==
  TypeOK /\ EndToEnd /\ NothingBehindAwaited /\ ReceivedPrefix /\ InPlace

-------------------------------------------------------------------------------
(* min, of two. *)
LEMMA MinOfTwo ==
  ASSUME NEW a \in Int, NEW b \in Int
  PROVE  /\ Min({a, b}) \in {a, b}
         /\ Min({a, b}) =< a
         /\ Min({a, b}) =< b
<1>1. \E m \in {a, b} : \A y \in {a, b} : m =< y
  <2>1. CASE a =< b BY <2>1
  <2>2. CASE b =< a BY <2>2
  <2> QED BY <2>1, <2>2
<1>2. /\ Min({a, b}) \in {a, b}
      /\ \A y \in {a, b} : Min({a, b}) =< y
  BY <1>1 DEF Min
<1> QED BY <1>2

(* A sequence, by its elements. *)
LEMMA IsASeqOver ==
  ASSUME NEW S, NEW T, NEW seq \in Seq(S), \A i \in 1 .. Len(seq) : seq[i] \in T
  PROVE  seq \in Seq(T)
<1>1. Len(seq) \in Nat /\ seq \in [1 .. Len(seq) -> T] BY LenProperties
<1> QED BY <1>1, SeqDef

(* The bytes written end where the last frame does. *)
LEMMA StreamEnd ==
  ASSUME TypeOK
  PROVE  EndOfStream = Boundary(Len(stream)) /\ EndOfStream \in Nat
<1>1. CASE stream = <<>> BY <1>1 DEF EndOfStream, Boundary
<1>2. CASE stream # <<>>
  <2>0. stream \in Seq(Frame) BY DEF TypeOK, Frame
  <2>1. Len(stream) \in Nat \ {0} /\ stream[Len(stream)] \in Frame
    BY <1>2, <2>0, EmptySeq
  <2> QED BY <1>2, <2>1 DEF EndOfStream, Boundary, EndOf, Frame
<1> QED BY <1>1, <1>2

(* Nothing was written, and nothing taken. *)
LEMMA InvInit == Init => ReaderInv
<1> SUFFICES ASSUME Init PROVE ReaderInv OBVIOUS
<1> USE DEF Init
<1>1. Len(stream) = 0 /\ Len(received) = 0 /\ EndOfStream = 0
  BY DEF EndOfStream
<1>2. TypeOK BY <1>1 DEF TypeOK, Garbage
<1>3. EndToEnd /\ NothingBehindAwaited /\ ReceivedPrefix
  BY <1>1 DEF EndToEnd, NothingBehindAwaited, ReceivedPrefix
<1>4. InPlace BY <1>1 DEF InPlace, Boundary
<1> QED BY <1>2, <1>3, <1>4 DEF ReaderInv

-------------------------------------------------------------------------------
(* The client writes: a frame is added where the stream ends. *)
LEMMA InvClientWrites ==
  ASSUME ReaderInv, NEW shape \in Shapes, ClientWrites(shape)
  PROVE  ReaderInv'
<1> DEFINE f == [at |-> EndOfStream, prefix |-> shape.prefix, body |-> shape.body]
           n == Len(stream)
<1> USE DEF ReaderInv
<1>1. EndOfStream = Boundary(n) /\ EndOfStream \in Nat
  BY StreamEnd
<1>2. shape \in [prefix : 1 .. 3, body : Nat \ {0}]
  BY ShapesAssumption
<1>3. f \in Frame /\ ShapeOf(f) = shape
  <2>1. shape = [prefix |-> shape.prefix, body |-> shape.body] BY <1>2
  <2> QED BY <1>1, <1>2, <2>1 DEF Frame, ShapeOf
<1>4. /\ n \in Nat
      /\ stream \in Seq(Frame)
      /\ stream' = Append(stream, f)
      /\ stream' \in Seq(Frame)
      /\ Len(stream') = n + 1
      /\ stream'[n + 1] = f
      /\ \A i \in 1 .. n : stream'[i] = stream[i] /\ stream[i] \in Frame
  <2>1. stream \in Seq(Frame) BY DEF TypeOK, Frame
  <2>2. stream' = Append(stream, f) BY DEF ClientWrites
  <2> HIDE DEF f
  <2> QED BY <1>3, <2>1, <2>2, AppendProperties, ElementOfSeq, LenProperties
<1> HIDE DEF f, n
<1>5. f.at = EndOfStream /\ f.at \in Nat /\ f.prefix \in 1 .. 3 /\ f.body \in Nat \ {0}
  BY <1>1, <1>2 DEF f
<1>6. EndOfStream' = EndOf(f) /\ EndOf(f) > EndOfStream /\ EndOf(f) \in Nat
  <2>1. stream' # <<>> BY <1>4, EmptySeq
  <2>2. EndOfStream' = EndOf(f) BY <1>4, <2>1 DEF EndOfStream, EndOf
  <2> QED BY <1>1, <1>5, <2>2 DEF EndOf
<1>7. UNCHANGED <<arrived, taken, pc, missing, frame, received>>
  BY DEF ClientWrites
<1>8. TypeOK'
  <2>1. arrived \in 0 .. EndOf(f) BY <1>1, <1>6 DEF TypeOK
  <2>2. frame \in 0 .. (n + 1) BY <1>4 DEF TypeOK, n
  <2>3. received \in Seq(0 .. (n + 1))
    <3>1. \A i \in 1 .. Len(received) : received[i] \in 0 .. (n + 1)
      BY <1>4 DEF TypeOK, n
    <3> QED BY <3>1, LenProperties, IsASeqOver DEF TypeOK
  <2> QED BY <1>4, <1>6, <1>7, <2>1, <2>2, <2>3 DEF TypeOK, Frame
<1>9. \A i \in 0 .. n : Boundary(i)' = Boundary(i)
  BY <1>4 DEF Boundary, EndOf
<1>10. EndToEnd'
  <2>1. \A i \in 1 .. n + 1 : ShapeOf(stream'[i]) \in Shapes
    BY <1>3, <1>4 DEF EndToEnd, n
  <2>2. \A i \in 1 .. n + 1 : stream'[i].at = Boundary(i - 1)'
    <3> SUFFICES ASSUME NEW i \in 1 .. n + 1 PROVE stream'[i].at = Boundary(i - 1)'
      OBVIOUS
    <3>1. Boundary(i - 1)' = Boundary(i - 1) BY <1>4, <1>9
    <3>2. CASE i = n + 1
      <4>1. stream'[i].at = EndOfStream BY <1>4, <1>5, <3>2
      <4>2. i - 1 = n BY <1>4, <3>2
      <4> QED BY <1>1, <3>1, <4>1, <4>2 DEF n
    <3>3. CASE i \in 1 .. n BY <1>4, <3>1, <3>3 DEF EndToEnd, n
    <3> QED BY <1>4, <3>2, <3>3
  <2>3. \A i, j \in 1 .. n + 1 : i < j => EndOf(stream'[i]) =< stream'[j].at
    <3> SUFFICES ASSUME NEW i \in 1 .. n + 1, NEW j \in 1 .. n + 1, i < j
                 PROVE  EndOf(stream'[i]) =< stream'[j].at
      OBVIOUS
    <3>1. i \in 1 .. n /\ n > 0 /\ stream'[i] = stream[i] BY <1>4
    <3>2. CASE j \in 1 .. n BY <1>4, <3>1, <3>2 DEF EndToEnd, n
    <3>3. CASE j = n + 1
      <4>1. stream'[j].at = EndOf(stream[n])
        BY <1>1, <1>4, <1>5, <3>1, <3>3 DEF Boundary
      <4>2. CASE i = n BY <3>1, <4>1, <4>2, <1>1, <1>5, <1>4 DEF Boundary
      <4>3. CASE i < n
        <5>1. EndOf(stream[i]) =< stream[n].at
          BY <1>4, <3>1, <4>3 DEF EndToEnd, n
        <5>2. stream[i] \in Frame /\ stream[n] \in Frame BY <1>4, <3>1
        <5> QED BY <3>1, <4>1, <5>1, <5>2 DEF EndOf, Frame
      <4> QED BY <1>4, <3>1, <4>2, <4>3
    <3> QED BY <1>4, <3>2, <3>3
  <2> QED BY <1>4, <2>1, <2>2, <2>3 DEF EndToEnd
<1>11. NothingBehindAwaited'
  BY <1>4, <1>7 DEF NothingBehindAwaited, ClientWrites, n
<1>12. ReceivedPrefix'
  BY <1>4, <1>7 DEF ReceivedPrefix, n, TypeOK
<1>13. InPlace'
  <2>1. Len(received) \in 0 .. n BY DEF ReceivedPrefix, TypeOK, n
  <2>2. pc = "payload" => stream'[frame] = stream[frame]
    BY <1>4, <2>1 DEF InPlace, n
  <2>3. Len(received) < n + 1 BY <1>4, <2>1
  <2>4. pc = "payload" => EndOf(stream'[frame]) = EndOf(stream[frame])
    BY <2>2 DEF EndOf
  <2>5. pc' = "length" => taken' = Boundary(Len(received))'
    BY <1>7, <1>9, <2>1 DEF InPlace, Boundary
  <2> QED BY <1>4, <1>7, <2>3, <2>4, <2>5 DEF InPlace
<1> QED BY <1>8, <1>10, <1>11, <1>12, <1>13

(* TCP delivers: only arrived changes. *)
LEMMA InvArrive ==
  ASSUME ReaderInv, Arrive
  PROVE  ReaderInv'
<1> USE DEF ReaderInv
<1>1. EndOfStream \in Nat BY StreamEnd
<1>2. /\ UNCHANGED <<stream, taken, pc, missing, frame, received>>
      /\ arrived' \in (arrived + 1) .. EndOfStream
  BY DEF Arrive
<1>3. EndOfStream' = EndOfStream BY <1>2 DEF EndOfStream, EndOf
<1>4. \A i : Boundary(i)' = Boundary(i) BY <1>2 DEF Boundary, EndOf
<1>5. TypeOK' BY <1>1, <1>2, <1>3 DEF TypeOK
<1>6. EndToEnd' BY <1>2, <1>4 DEF EndToEnd, EndOf
<1>7. NothingBehindAwaited' /\ ReceivedPrefix'
  BY <1>2 DEF NothingBehindAwaited, ReceivedPrefix
<1>8. InPlace' BY <1>2, <1>4 DEF InPlace, EndOf
<1> QED BY <1>5, <1>6, <1>7, <1>8

-------------------------------------------------------------------------------
(* What the read for a length finds: bytes have arrived behind the last     *)
(* frame received, so there is a next one, and it alone begins there.       *)
LEMMA NextFrame ==
  ASSUME ReaderInv, pc = "length", taken < arrived
  PROVE  /\ Len(received) + 1 \in 1 .. Len(stream)
         /\ BeginsAt(taken) = {Len(received) + 1}
         /\ stream[Len(received) + 1].at = taken
<1> DEFINE n == Len(received)
<1> USE DEF ReaderInv
<1>1. /\ n \in Nat /\ Len(stream) \in Nat /\ n =< Len(stream)
      /\ taken \in Nat /\ arrived \in Nat /\ arrived =< EndOfStream
      /\ \A i \in 1 .. Len(stream) : stream[i] \in Frame
  <2>1. EndOfStream \in Nat BY StreamEnd
  <2>2. stream \in Seq(Frame) BY DEF TypeOK, Frame
  <2> QED BY <2>1, <2>2, LenProperties, ElementOfSeq DEF TypeOK, ReceivedPrefix
<1>2. taken = Boundary(n) BY DEF InPlace
<1>3. n # Len(stream) BY <1>1, <1>2, StreamEnd
<1> HIDE DEF n
<1>4. n + 1 \in 1 .. Len(stream) BY <1>1, <1>3
<1>5. stream[n + 1].at = taken BY <1>1, <1>2, <1>4 DEF EndToEnd
<1>6. ASSUME NEW i \in 1 .. Len(stream), stream[i].at = taken PROVE i = n + 1
  <2>1. stream[i] \in Frame /\ stream[n + 1] \in Frame BY <1>1, <1>4
  <2>2. CASE i < n + 1
    <3>1. EndOf(stream[i]) =< stream[n + 1].at BY <1>4, <2>2 DEF EndToEnd
    <3> QED BY <1>5, <1>6, <2>1, <3>1 DEF EndOf, Frame
  <2>3. CASE i > n + 1
    <3>1. EndOf(stream[n + 1]) =< stream[i].at BY <1>4, <2>3 DEF EndToEnd
    <3> QED BY <1>5, <1>6, <2>1, <3>1 DEF EndOf, Frame
  <2> QED BY <1>1, <2>2, <2>3
<1>7. BeginsAt(taken) = {n + 1} BY <1>4, <1>5, <1>6 DEF BeginsAt
<1> QED BY <1>4, <1>5, <1>7 DEF n

(* What the read for a length does: it takes at least the prefix of the     *)
(* next frame and nothing of the frame after it, and either the body is     *)
(* whole and processed, or what is missing of it is waited for.             *)
LEMMA ReadLengthStep ==
  ASSUME LongOrAwaited, ReaderInv, ReadLength
  PROVE  LET k == Len(received) + 1 IN
         /\ taken' \in taken .. arrived
         /\ \/ /\ received' = Append(received, k)
               /\ taken' = EndOf(stream[k])
               /\ UNCHANGED <<pc, missing, frame>>
            \/ /\ received' = received
               /\ pc' = "payload" /\ frame' = k
               /\ missing' \in Nat
               /\ taken' + missing' = EndOf(stream[k])
<1> DEFINE k == Len(received) + 1
           bytes == Min({ReadAhead, arrived - taken})
           body == stream[k].body
<1> USE DEF ReaderInv
<1>1. pc = "length" /\ taken < arrived BY DEF ReadLength
<1>2. k \in 1 .. Len(stream) /\ BeginsAt(taken) = {k} /\ stream[k].at = taken
  BY <1>1, NextFrame
<1>3. /\ stream[k] \in Frame /\ taken \in Nat /\ arrived \in Nat
      /\ Len(received) \in Nat /\ Len(stream) \in Nat
      /\ arrived =< EndOfStream
  <2>1. EndOfStream \in Nat BY StreamEnd
  <2>2. stream \in Seq(Frame) BY DEF TypeOK, Frame
  <2> QED BY <1>2, <2>1, <2>2, LenProperties, ElementOfSeq DEF TypeOK
<1>4. /\ bytes \in {5, arrived - taken} /\ bytes =< 5 /\ bytes =< arrived - taken
      /\ bytes \in Nat \ {0}
  <2>1. ReadAhead \in Int /\ arrived - taken \in Int BY <1>3 DEF ReadAhead
  <2>2. /\ bytes \in {ReadAhead, arrived - taken}
        /\ bytes =< ReadAhead /\ bytes =< arrived - taken
    BY <2>1, MinOfTwo
  <2> QED BY <1>1, <1>3, <2>2 DEF ReadAhead
<1>5. stream[k].prefix = 1 /\ (ShapeOf(stream[k]) \in Awaited \/ 1 + body >= 5)
  <2>1. ShapeOf(stream[k]) \in Shapes BY <1>2 DEF EndToEnd
  <2>2. /\ ShapeOf(stream[k]).prefix = stream[k].prefix
        /\ ShapeOf(stream[k]).body = body
    BY DEF ShapeOf
  <2> QED BY <2>1, <2>2 DEF LongOrAwaited, ReadAhead
<1>6. /\ taken' = taken + bytes
      /\ ReadBody(k, bytes - stream[k].prefix, stream[k].body)
  <2> HIDE DEF k
  <2>1. ~(bytes < stream[k].prefix) BY <1>4, <1>5
  <2> QED BY <1>2, <2>1 DEF ReadLength
<1>7. EndOf(stream[k]) = taken + 1 + body /\ body \in Nat
  BY <1>2, <1>3, <1>5 DEF EndOf, Frame
<1>8. bytes =< 1 + body
  <2>1. CASE 1 + body >= 5 BY <1>4, <1>7, <2>1
  <2>2. CASE ShapeOf(stream[k]) \in Awaited
    <3>1. ~(k < Len(stream)) BY <1>2, <1>3, <2>2 DEF NothingBehindAwaited
    <3>2. k = Len(stream) /\ k # 0 BY <1>2, <1>3, <3>1
    <3>3. EndOfStream = EndOf(stream[k]) BY <3>2, StreamEnd DEF Boundary
    <3> QED BY <1>3, <1>4, <1>7, <3>3
  <2> QED BY <1>5, <2>1, <2>2
<1>9. taken' \in taken .. arrived BY <1>3, <1>4, <1>6
<1>10. CASE bytes - 1 >= body
  <2>1. received' = Append(received, k) /\ UNCHANGED <<pc, missing, frame>>
    BY <1>5, <1>6, <1>10 DEF ReadBody
  <2>2. taken' = EndOf(stream[k])
    <3> HIDE DEF bytes, body, k
    <3>1. bytes = 1 + body BY <1>4, <1>7, <1>8, <1>10
    <3>2. taken' = taken + 1 + body BY <1>3, <1>6, <1>7, <3>1
    <3> QED BY <1>7, <3>2
  <2> QED BY <1>9, <2>1, <2>2
<1>11. CASE ~(bytes - 1 >= body)
  <2>1. /\ received' = received /\ pc' = "payload" /\ frame' = k
        /\ missing' = body - (bytes - 1)
    BY <1>5, <1>6, <1>11 DEF ReadBody
  <2>2. missing' \in Nat /\ taken' + missing' = EndOf(stream[k])
    <3> HIDE DEF bytes, body, k
    <3>1. missing' = body - bytes + 1 /\ body - bytes + 1 \in Nat
      BY <1>4, <1>7, <1>11, <2>1
    <3>2. taken' + missing' = taken + 1 + body BY <1>3, <1>4, <1>6, <1>7, <3>1
    <3> QED BY <1>7, <3>1, <3>2
  <2> QED BY <1>9, <2>1, <2>2
<1> QED BY <1>10, <1>11

-------------------------------------------------------------------------------
(* One more frame received, its body taken to the end. *)
LEMMA InvReceive ==
  ASSUME ReaderInv,
         UNCHANGED <<stream, arrived>>,
         Len(received) + 1 \in 1 .. Len(stream),
         received' = Append(received, Len(received) + 1),
         taken' = EndOf(stream[Len(received) + 1]),
         taken' \in 0 .. arrived,
         pc' = "length", missing' \in Nat, frame' \in 0 .. Len(stream)
  PROVE  ReaderInv'
<1> DEFINE k == Len(received) + 1
           S == 0 .. Len(stream)
<1> USE DEF ReaderInv
<1>1. received \in Seq(S) /\ k \in S /\ Len(received) \in Nat /\ Len(stream) \in Nat
  <2>1. stream \in Seq(Frame) BY DEF TypeOK, Frame
  <2> QED BY <2>1, LenProperties DEF TypeOK
<1>2. /\ received' \in Seq(S) /\ Len(received') = k /\ received'[k] = k
      /\ \A i \in 1 .. Len(received) : received'[i] = received[i]
  <2> HIDE DEF S
  <2> QED BY <1>1, AppendProperties
<1>3. EndOfStream' = EndOfStream /\ \A i : Boundary(i)' = Boundary(i)
  BY DEF EndOfStream, Boundary, EndOf
<1>4. TypeOK' BY <1>2, <1>3 DEF TypeOK
<1>5. EndToEnd' BY <1>3 DEF EndToEnd, EndOf
<1>6. NothingBehindAwaited' BY <1>1, <1>2 DEF NothingBehindAwaited
<1>7. ReceivedPrefix'
  <2>1. \A i \in 1 .. k : received'[i] = i BY <1>1, <1>2 DEF ReceivedPrefix
  <2> QED BY <1>1, <1>2, <2>1 DEF ReceivedPrefix
<1>8. InPlace' BY <1>1, <1>2, <1>3 DEF InPlace, Boundary
<1> QED BY <1>4, <1>5, <1>6, <1>7, <1>8

(* do_read_length takes the length of a frame, whole or in part. *)
LEMMA InvReadLength ==
  ASSUME LongOrAwaited, ReaderInv, ReadLength
  PROVE  ReaderInv'
<1> DEFINE k == Len(received) + 1
<1> USE DEF ReaderInv
<1>1. pc = "length" /\ taken < arrived /\ UNCHANGED <<stream, arrived>>
  BY DEF ReadLength
<1>2. k \in 1 .. Len(stream) BY <1>1, NextFrame
<1>3. EndOfStream \in Nat BY StreamEnd
<1>4. taken' \in 0 .. arrived
  BY <1>3, ReadLengthStep DEF TypeOK
<1>5. CASE received' = Append(received, k)
           /\ taken' = EndOf(stream[k]) /\ UNCHANGED <<pc, missing, frame>>
  <2>1. missing' \in Nat /\ frame' \in 0 .. Len(stream) BY <1>5 DEF TypeOK
  <2> QED BY <1>1, <1>2, <1>4, <1>5, <2>1, InvReceive
<1>6. CASE /\ received' = received /\ pc' = "payload" /\ frame' = k
           /\ missing' \in Nat /\ taken' + missing' = EndOf(stream[k])
  <2>1. EndOfStream' = EndOfStream /\ \A i : Boundary(i)' = Boundary(i)
    BY <1>1 DEF EndOfStream, Boundary, EndOf
  <2>2. Len(received) \in Nat /\ Len(stream) \in Nat
    <3>1. stream \in Seq(Frame) BY DEF TypeOK, Frame
    <3> QED BY <3>1, LenProperties DEF TypeOK
  <2>3. TypeOK' BY <1>1, <1>2, <1>4, <1>6, <2>1, <2>2 DEF TypeOK
  <2>4. EndToEnd' BY <1>1, <2>1 DEF EndToEnd, EndOf
  <2>5. NothingBehindAwaited' /\ ReceivedPrefix'
    BY <1>1, <1>6 DEF NothingBehindAwaited, ReceivedPrefix
  <2>6. InPlace' BY <1>1, <1>2, <1>6, <2>2 DEF InPlace, EndOf
  <2> QED BY <2>3, <2>4, <2>5, <2>6
<1> QED BY <1>5, <1>6, ReadLengthStep

(* do_read_payload takes the rest of the frame and receives it. *)
LEMMA InvReadPayload ==
  ASSUME ReaderInv, ReadPayload
  PROVE  ReaderInv'
<1> DEFINE k == Len(received) + 1
<1> USE DEF ReaderInv
<1>1. /\ pc = "payload" /\ arrived - taken >= missing /\ taken' = taken + missing
      /\ received' = Append(received, frame) /\ pc' = "length"
      /\ missing' = 0 /\ frame' = 0 /\ UNCHANGED <<stream, arrived>>
  BY DEF ReadPayload, Garbage
<1>2. /\ Len(received) < Len(stream) /\ frame = k
      /\ taken + missing = EndOf(stream[k])
  BY <1>1 DEF InPlace
<1>3. Len(received) \in Nat /\ Len(stream) \in Nat
  <2>1. stream \in Seq(Frame) BY DEF TypeOK, Frame
  <2> QED BY <2>1, LenProperties DEF TypeOK
<1>4. EndOfStream \in Nat BY StreamEnd
<1>5. taken' \in 0 .. arrived BY <1>1, <1>4 DEF TypeOK
<1>6. /\ k \in 1 .. Len(stream) /\ received' = Append(received, k)
      /\ taken' = EndOf(stream[k]) /\ missing' \in Nat
      /\ frame' \in 0 .. Len(stream)
  BY <1>1, <1>2, <1>3
<1> QED BY <1>1, <1>5, <1>6, InvReceive

(* Every step of client, network and reader keeps the invariant. *)
LEMMA InvNext ==
  ASSUME LongOrAwaited, ReaderInv, [Next]_vars
  PROVE  ReaderInv'
<1>1. ASSUME NEW shape \in Shapes, ClientWrites(shape) PROVE ReaderInv'
  BY <1>1, InvClientWrites
<1>2. CASE Arrive BY <1>2, InvArrive
<1>3. CASE ReadLength BY <1>3, InvReadLength
<1>4. CASE ReadPayload BY <1>4, InvReadPayload
<1>5. CASE UNCHANGED vars
  BY <1>5 DEF vars, ReaderInv, TypeOK, EndToEnd, NothingBehindAwaited,
              ReceivedPrefix, InPlace, Boundary, EndOf, EndOfStream
<1> QED BY <1>1, <1>2, <1>3, <1>4, <1>5 DEF Next

(* The strengthening holds in every state: frames end to end, a prefix of    *)
(* them received, nothing written behind a short frame that is not answered. *)
THEOREM ReaderInvariant ==
  ASSUME LongOrAwaited
  PROVE  Spec => []ReaderInv
<1>1. Init => ReaderInv BY InvInit
<1>2. ReaderInv /\ [Next]_vars => ReaderInv' BY InvNext
<1> QED BY <1>1, <1>2, PTL DEF Spec

(* Every variable of the read loop keeps its type; in particular no read    *)
(* takes a byte that has not arrived.                                       *)
THEOREM ReaderTypeCorrect ==
  ASSUME LongOrAwaited
  PROVE  Spec => []TypeOK
<1>1. ReaderInv => TypeOK BY DEF ReaderInv
<1> QED BY <1>1, ReaderInvariant, PTL

(* Between two packets the next read begins where a frame begins, for any   *)
(* frames that are long or awaited and any segmentation by TCP.             *)
THEOREM InStepHolds ==
  ASSUME LongOrAwaited
  PROVE  Spec => []InStep
<1>1. ASSUME ReaderInv, pc = "length" PROVE taken = EndOfStream \/ BeginsAt(taken) # {}
  <2>1. CASE taken < arrived BY <1>1, <2>1, NextFrame
  <2>2. CASE ~(taken < arrived)
    <3> DEFINE n == Len(received)
    <3>0. TypeOK BY <1>1 DEF ReaderInv
    <3>1. n \in Nat /\ Len(stream) \in Nat /\ n =< Len(stream) /\ taken = Boundary(n)
      <4>1. stream \in Seq(Frame) BY <3>0 DEF TypeOK, Frame
      <4> QED BY <1>1, <3>0, <4>1, LenProperties
              DEF ReaderInv, ReceivedPrefix, InPlace, TypeOK
    <3> HIDE DEF n
    <3>2. CASE n = Len(stream) BY <3>0, <3>1, <3>2, StreamEnd
    <3>3. CASE n # Len(stream)
      <4>1. n + 1 \in 1 .. Len(stream) /\ (n + 1) - 1 = n BY <3>1, <3>3
      <4>2. stream[n + 1].at = taken BY <1>1, <3>1, <4>1 DEF ReaderInv, EndToEnd
      <4> QED BY <4>1, <4>2 DEF BeginsAt
    <3> QED BY <3>2, <3>3
  <2> QED BY <2>1, <2>2
<1>2. ReaderInv => InStep BY <1>1 DEF InStep
<1> QED BY <1>2, ReaderInvariant, PTL

-------------------------------------------------------------------------------
(* A step of the read loop is a step of PacketStream: a frame written is a   *)
(* packet sent, a body processed is the next packet received, and the rest   *)
(* is a stutter.                                                             *)
LEMMA StepRefines ==
  ASSUME LongOrAwaited, ReaderInv, [Next]_vars
  PROVE  [Abstract!Next]_<<[i \in 1 .. Len(stream) |-> i], received>>
<1> DEFINE sent == [i \in 1 .. Len(stream) |-> i]
<1> USE DEF ReaderInv
<1>1. Len(received) \in Nat /\ Len(stream) \in Nat /\ stream \in Seq(Frame)
  <2>1. stream \in Seq(Frame) BY DEF TypeOK, Frame
  <2> QED BY <2>1, LenProperties DEF TypeOK
<1>2. /\ Len(sent) = Len(stream) /\ sent \in Seq(Nat)
      /\ \A i \in 1 .. Len(stream) : sent[i] = i
  <2>1. sent \in [1 .. Len(stream) -> Nat] BY <1>1
  <2> QED BY <1>1, <2>1, SeqDef
<1>3. ASSUME NEW k, k = Len(received) + 1, k \in 1 .. Len(stream),
             received' = Append(received, k), stream' = stream
      PROVE  Abstract!Receive
  BY <1>1, <1>2, <1>3 DEF Abstract!Receive
<1>4. ASSUME NEW shape \in Shapes, ClientWrites(shape) PROVE Abstract!Next
  <2>1. Len(stream') = Len(stream) + 1 /\ Len(stream) < Frames /\ received' = received
    BY <1>1, <1>4 DEF ClientWrites
  <2>2. sent' = Append(sent, Len(stream) + 1) BY <1>1, <1>2, <2>1
  <2>3. Len(stream) + 1 \in 1 .. Frames BY <1>1, <2>1, FramesAssumption
  <2> QED BY <2>1, <2>2, <2>3 DEF Abstract!Next, Abstract!Send
<1>5. CASE Arrive BY <1>5 DEF Arrive
<1>6. CASE ReadLength
  <2>1. stream' = stream BY <1>6 DEF ReadLength
  <2>2. Len(received) + 1 \in 1 .. Len(stream) BY <1>6, NextFrame DEF ReadLength
  <2>3. received' = Append(received, Len(received) + 1) \/ received' = received
    BY <1>6, ReadLengthStep
  <2> QED BY <1>3, <2>1, <2>2, <2>3 DEF Abstract!Next
<1>7. CASE ReadPayload
  <2>1. stream' = stream /\ received' = Append(received, frame) /\ pc = "payload"
    BY <1>7 DEF ReadPayload
  <2>2. frame = Len(received) + 1 /\ frame \in 1 .. Len(stream)
    BY <1>1, <2>1 DEF InPlace
  <2> QED BY <1>3, <2>1, <2>2 DEF Abstract!Next
<1>8. CASE UNCHANGED vars BY <1>8 DEF vars
<1> QED BY <1>4, <1>5, <1>6, <1>7, <1>8 DEF Next

(* The read loop implements PacketStream for every set of shapes that are    *)
(* long or awaited: process_packet is given the client's frames in order,    *)
(* each once and whole, however TCP cuts the stream.                         *)
THEOREM ReaderImplementsPacketStream ==
  ASSUME LongOrAwaited
  PROVE  Spec => Refinement
<1>1. Init => Abstract!Init BY DEF Init, Abstract!Init
<1>2. ReaderInv /\ [Next]_vars =>
        [Abstract!Next]_<<[i \in 1 .. Len(stream) |-> i], received>>
  BY StepRefines
<1> QED BY <1>1, <1>2, ReaderInvariant, PTL DEF Spec, Refinement, Abstract!Spec

-------------------------------------------------------------------------------
(***************************************************************************)
(* The writer.  What is inductive: the packets that have begun are those    *)
(* that are on the wire; a write that waits for the socket still has bytes  *)
(* to write, and a handler is of a packet that has begun; and of the        *)
(* packets that wait, those that have not begun stand in the order they     *)
(* were sent.  So when one of them gets to the head, or finds the socket    *)
(* idle, all those before it have begun.  When the peer is gone nothing     *)
(* begins any more, and the writes fail one by one.                         *)
(***************************************************************************)
WriterTypeOK ==
  /\ started \in 0 .. Packets
  /\ written \in [1 .. Packets -> Nat]
  /\ asked \in Seq(1 .. Packets)
  /\ handlers \subseteq 1 .. Packets
  /\ wire \in Seq(1 .. Packets)
  /\ buffered \in 0 .. SendBuffer
  /\ peer \in {"up", "gone"}
  /\ failed \subseteq 1 .. Packets

WithinLength ==
  \A f \in 1 .. Packets :
    /\ written[f] =< Length[f]
    /\ written[f] > 0 => f =< started

WritesAreDue ==
  /\ \A i \in 1 .. Len(asked) : asked[i] =< started /\ written[asked[i]] < Length[asked[i]]
  /\ \A f \in handlers : written[f] > 0 \/ f \in failed

FailWithPeer ==
  /\ peer = "up" => failed = {}
  /\ \A f \in failed : f =< started

OnTheWire ==
  /\ \A i \in 1 .. Len(wire) : written[wire[i]] > 0
  /\ \A f \in 1 .. Packets : written[f] > 0 => \E i \in 1 .. Len(wire) : wire[i] = f

WaitInOrder ==
  \A i, j \in 1 .. Len(asked) :
    i < j /\ written[asked[i]] = 0 /\ written[asked[j]] = 0 => asked[i] < asked[j]

WriterInv ==
  /\ WriterTypeOK
  /\ WithinLength
  /\ WritesAreDue
  /\ FailWithPeer
  /\ OneWriteEach
  /\ OnTheWire
  /\ BeginInOrder
  /\ WaitInOrder

(* An element of a sequence is one of its kind. *)
LEMMA ElementOf ==
  ASSUME NEW S, NEW q \in Seq(S), NEW n \in 1 .. Len(q)
  PROVE  q[n] \in S
OBVIOUS

(* The head of a queue, and what is behind it. *)
LEMMA HeadAndTail ==
  ASSUME NEW S, NEW q \in Seq(S), q # <<>>
  PROVE  /\ Len(q) \in Nat \ {0} /\ Head(q) = q[1] /\ Tail(q) \in Seq(S)
         /\ Len(Tail(q)) = Len(q) - 1
         /\ \A i \in 1 .. Len(Tail(q)) : Tail(q)[i] = q[i + 1]
OBVIOUS

(* One more at the end of a queue. *)
LEMMA AppendedTo ==
  ASSUME NEW S, NEW q \in Seq(S), NEW e \in S
  PROVE  /\ Append(q, e) \in Seq(S) /\ Len(Append(q, e)) = Len(q) + 1
         /\ \A i \in 1 .. Len(q) : Append(q, e)[i] = q[i]
         /\ Append(q, e)[Len(q) + 1] = e
OBVIOUS

(* A frame begins only when all those sent before it have begun: the        *)
(* packets before the head of the queue, or before a write that meets an    *)
(* idle socket.                                                             *)
LEMMA OlderHaveBegun ==
  ASSUME WriterInv, peer = "up", NEW f \in 1 .. Packets, f =< started + 1,
         asked = <<>> \/ (asked # <<>> /\ f = asked[1]) \/ written[f] > 0
  PROVE  \A g \in 1 .. f - 1 : written[g] > 0
<1>. SUFFICES ASSUME NEW g \in 1 .. f - 1, written[g] = 0
              PROVE  FALSE
  BY PacketsAssumption DEF WriterInv, WriterTypeOK
<1>. USE DEF WriterInv, WriterTypeOK
<1>1. g \in 1 .. Packets /\ g \in 1 .. started /\ g < f
  BY PacketsAssumption
<1>2. CASE written[f] > 0
  <2>1. PICK i \in 1 .. Len(wire) : wire[i] = f
    BY <1>2 DEF OnTheWire
  <2>2. PICK j \in 1 .. i : wire[j] = g
    BY <2>1 DEF BeginInOrder
  <2>3. j \in 1 .. Len(wire)
    BY <2>1, <2>2
  <2>. QED
    BY <2>2, <2>3 DEF OnTheWire
<1>3. CASE written[f] = 0 /\ (asked = <<>> \/ (asked # <<>> /\ f = asked[1]))
  <2>1. written[g] < Length[g]
    BY <1>1, LengthAssumption
  <2>2. g \notin handlers /\ g \notin failed
    BY DEF WritesAreDue, FailWithPeer
  <2>3. PICK i \in 1 .. Len(asked) : asked[i] = g
    BY <1>1, <2>1, <2>2 DEF OneWriteEach
  <2>4. f = asked[1] /\ 1 \in 1 .. Len(asked) /\ 1 < i
    BY <1>1, <1>3, <2>3
  <2>5. f < g
    BY <1>3, <2>3, <2>4 DEF WaitInOrder
  <2>. QED
    BY <1>1, <2>5
<1>. QED
  BY <1>2, <1>3

(* A run of the bytes of one frame at the end of the wire. *)
LEMMA RunIsSeq ==
  ASSUME NEW S, NEW e \in S, NEW n \in Nat
  PROVE  BytesOf(e, n) \in Seq(S) /\ Len(BytesOf(e, n)) = n
<1>1. BytesOf(e, n) \in [1 .. n -> S]
  BY DEF BytesOf
<1>. QED
  BY <1>1

WithRun(w, q, e, n) ==
  /\ Len(w) = Len(q) + n
  /\ \A i \in 1 .. Len(q) : w[i] = q[i]
  /\ \A i \in Len(q) + 1 .. Len(q) + n : w[i] = e

LEMMA RunAppended ==
  ASSUME NEW S, NEW q \in Seq(S), NEW e \in S, NEW n \in Nat
  PROVE  \E w \in Seq(S) : w = q \o BytesOf(e, n) /\ WithRun(w, q, e, n)
<1>1. \A i \in 1 .. n : BytesOf(e, n)[i] = e
  BY DEF BytesOf
<1>2. BytesOf(e, n) \in Seq(S) /\ Len(BytesOf(e, n)) = n
  BY RunIsSeq
<1>3. PICK r \in Seq(S) : r = BytesOf(e, n) /\ Len(r) = n /\ \A i \in 1 .. n : r[i] = e
  BY <1>1, <1>2
<1>4. Len(q) \in Nat /\ q \o r \in Seq(S)
  OBVIOUS
<1>5. PICK w \in Seq(S) : w = q \o r
  BY <1>4
<1>6. Len(w) = Len(q) + n /\ \A i \in 1 .. Len(q) : w[i] = q[i]
  <2>1. Len(r) = n
    BY <1>3
  <2>2. Len(q \o r) = Len(q) + Len(r) /\ \A i \in 1 .. Len(q) : (q \o r)[i] = q[i]
    BY ConcatProperties
  <2>. QED
    BY <1>5, <2>1, <2>2
<1>7. ASSUME NEW i \in Len(q) + 1 .. Len(q) + n
      PROVE  w[i] = e
  <2>1. w[i] = r[i - Len(q)] /\ i - Len(q) \in 1 .. n
    BY <1>3, <1>4, <1>5
  <2>. QED
    BY <1>3, <2>1
<1>8. w = q \o BytesOf(e, n)
  BY <1>3, <1>5
<1>. QED
  BY <1>6, <1>7, <1>8 DEF WithRun

(* The kernel takes at least a byte, and no more than there is or fits. *)
LEMMA LeastOfTwo ==
  ASSUME NEW a \in Nat \ {0}, NEW b \in Nat \ {0}
  PROVE  \E n \in Nat \ {0} : n = Min({a, b}) /\ n =< a /\ n =< b
BY MinOfTwo

(* The kernel takes some of a frame: it has begun, within its length, and   *)
(* the wire is in order, if all those before it have begun.                 *)
LEMMA SomeIsWritten ==
  ASSUME WriterInv, NEW f \in 1 .. Packets,
         started' \in 0 .. Packets, started =< started', f =< started',
         written[f] < Length[f], buffered < SendBuffer,
         \A g \in 1 .. f - 1 : written[g] > 0,
         WriteSome(f)
  PROVE  /\ written' \in [1 .. Packets -> Nat] /\ wire' \in Seq(1 .. Packets)
         /\ buffered' \in 0 .. SendBuffer
         /\ written'[f] > 0
         /\ \A g \in 1 .. Packets : g # f => written'[g] = written[g]
         /\ WithinLength' /\ OnTheWire' /\ BeginInOrder'
<1>0. /\ written \in [1 .. Packets -> Nat] /\ wire \in Seq(1 .. Packets)
      /\ buffered \in 0 .. SendBuffer /\ started \in 0 .. Packets
      /\ WithinLength /\ OnTheWire /\ BeginInOrder
  BY DEF WriterInv, WriterTypeOK
<1>1. PICK n \in Nat \ {0} :
        /\ n =< SendBuffer - buffered /\ n =< Length[f] - written[f]
        /\ written' = [written EXCEPT ![f] = @ + n]
        /\ wire' = wire \o BytesOf(f, n)
        /\ buffered' = buffered + n
  <2>1. SendBuffer - buffered \in Nat \ {0}
    BY <1>0, SendBufferAssumption
  <2>2. Length[f] - written[f] \in Nat \ {0}
    BY <1>0, LengthAssumption
  <2>. PICK a \in Nat \ {0} : a = SendBuffer - buffered
    BY <2>1
  <2>. PICK b \in Nat \ {0} : b = Length[f] - written[f]
    BY <2>2
  <2>3. PICK n \in Nat \ {0} : n = Min({a, b}) /\ n =< a /\ n =< b
    BY LeastOfTwo
  <2>4. n = Min({SendBuffer - buffered, FrameBytes(f) - written[f]})
    BY <2>3 DEF FrameBytes
  <2>. QED
    BY <2>3, <2>4 DEF WriteSome
<1>2. written[f] \in Nat /\ Length[f] \in Nat /\ n \in Int /\ n > 0
  BY <1>0, LengthAssumption
<1>4. /\ wire' \in Seq(1 .. Packets) /\ Len(wire') = Len(wire) + n
      /\ Len(wire) \in Nat
      /\ \A i \in 1 .. Len(wire) : wire'[i] = wire[i]
      /\ \A i \in Len(wire) + 1 .. Len(wire) + n : wire'[i] = f
  <2>1. PICK q \in Seq(1 .. Packets) : q = wire
    BY <1>0
  <2>2. PICK w \in Seq(1 .. Packets) : w = q \o BytesOf(f, n) /\ WithRun(w, q, f, n)
    BY RunAppended
  <2>3. wire' = w
    BY <1>1, <2>1, <2>2
  <2>. QED
    BY <2>1, <2>2, <2>3 DEF WithRun
<1>5. /\ written' \in [1 .. Packets -> Nat]
      /\ written'[f] = written[f] + n
      /\ \A g \in 1 .. Packets : g # f => written'[g] = written[g]
  BY <1>0, <1>1, <1>2
<1>6. buffered' \in 0 .. SendBuffer
  BY <1>0, <1>1, <1>2, SendBufferAssumption
<1>7. WithinLength'
  <2>1. ASSUME NEW g \in 1 .. Packets
        PROVE  written'[g] =< Length[g] /\ (written'[g] > 0 => g =< started')
    <3>1. CASE g = f
      <4>. QED
        BY <1>0, <1>1, <1>2, <1>5, <3>1
    <3>2. CASE g # f
      BY <1>0, <1>5, <3>2 DEF WithinLength
    <3>. QED
      BY <3>1, <3>2
  <2>. QED
    BY <2>1 DEF WithinLength
<1>8. ASSUME NEW i \in 1 .. Len(wire')
      PROVE  \/ i \in 1 .. Len(wire) /\ wire'[i] = wire[i] /\ wire[i] \in 1 .. Packets
             \/ i \in Len(wire) + 1 .. Len(wire) + n /\ wire'[i] = f
  <2>1. i \in 1 .. Len(wire) \/ i \in Len(wire) + 1 .. Len(wire) + n
    BY <1>1, <1>4
  <2>. QED
    BY <2>1, <1>0, <1>4, ElementOf
<1>9. OnTheWire'
  <2>1. ASSUME NEW i \in 1 .. Len(wire')
        PROVE  written'[wire'[i]] > 0
    <3>1. CASE i \in 1 .. Len(wire) /\ wire'[i] = wire[i] /\ wire[i] \in 1 .. Packets
      BY <3>1, <1>0, <1>1, <1>5 DEF OnTheWire
    <3>2. CASE wire'[i] = f
      BY <3>2, <1>0, <1>1, <1>5
    <3>. QED
      BY <3>1, <3>2, <1>8
  <2>2. ASSUME NEW g \in 1 .. Packets, written'[g] > 0
        PROVE  \E i \in 1 .. Len(wire') : wire'[i] = g
    <3>1. CASE g = f
      <4>1. Len(wire) + 1 \in 1 .. Len(wire') /\ wire'[Len(wire) + 1] = f
        BY <1>1, <1>4
      <4>. QED
        BY <3>1, <4>1
    <3>2. CASE g # f
      <4>1. PICK i \in 1 .. Len(wire) : wire[i] = g
        BY <3>2, <2>2, <1>0, <1>5 DEF OnTheWire
      <4>2. i \in 1 .. Len(wire') /\ wire'[i] = g
        BY <4>1, <1>1, <1>4
      <4>. QED
        BY <4>2
    <3>. QED
      BY <3>1, <3>2
  <2>. QED
    BY <2>1, <2>2 DEF OnTheWire
<1>10. BeginInOrder'
  <2>1. ASSUME NEW i \in 1 .. Len(wire'), NEW g \in 1 .. wire'[i] - 1
        PROVE  \E j \in 1 .. i : wire'[j] = g
    <3>1. CASE i \in 1 .. Len(wire) /\ wire'[i] = wire[i] /\ wire[i] \in 1 .. Packets
      <4>1. PICK j \in 1 .. i : wire[j] = g
        BY <3>1, <1>0 DEF BeginInOrder
      <4>2. j \in 1 .. Len(wire)
        BY <3>1, <4>1
      <4>. QED
        BY <4>1, <4>2, <1>4
    <3>2. CASE i \in Len(wire) + 1 .. Len(wire) + n /\ wire'[i] = f
      <4>1. g \in 1 .. Packets /\ written[g] > 0
        BY <3>2, PacketsAssumption
      <4>2. PICK j \in 1 .. Len(wire) : wire[j] = g
        BY <4>1, <1>0 DEF OnTheWire
      <4>3. j \in 1 .. i /\ wire'[j] = g
        BY <4>2, <3>2, <1>1, <1>4
      <4>. QED
        BY <4>3
    <3>. QED
      BY <3>1, <3>2, <1>8
  <2>. QED
    BY <2>1 DEF BeginInOrder
<1>11. written'[f] > 0
  BY <1>2, <1>5
<1>. QED
  BY <1>4, <1>5, <1>6, <1>7, <1>9, <1>10, <1>11

(* A write is asked for: it is done at once, or waits behind the others. *)
LEMMA AskPreserves ==
  ASSUME WriterInv, NEW f \in 1 .. Packets,
         started' \in 0 .. Packets,
         \/ f = started + 1 /\ started' = started + 1
         \/ written[f] > 0 /\ started' = started,
         written[f] < Length[f],
         \A i \in 1 .. Len(asked) : asked[i] # f,
         Ask(f, handlers \ {f}), peer' = peer
  PROVE  WriterInv'
<1>0. /\ started \in 0 .. Packets /\ written \in [1 .. Packets -> Nat]
      /\ asked \in Seq(1 .. Packets) /\ handlers \subseteq 1 .. Packets
      /\ wire \in Seq(1 .. Packets) /\ buffered \in 0 .. SendBuffer
      /\ peer \in {"up", "gone"} /\ failed \subseteq 1 .. Packets
      /\ WithinLength /\ WritesAreDue /\ FailWithPeer /\ OneWriteEach
      /\ OnTheWire /\ BeginInOrder /\ WaitInOrder
  BY DEF WriterInv, WriterTypeOK
<1>1. f =< started' /\ started =< started' /\ f =< started + 1
  BY <1>0 DEF WithinLength
<1>2. CASE asked = <<>> /\ peer = "up" /\ buffered < SendBuffer
  <2>1. /\ WriteSome(f) /\ handlers' = (handlers \ {f}) \cup {f} /\ asked' = <<>>
        /\ failed' = failed /\ failed = {}
    BY <1>0, <1>2 DEF Ask, SocketReady, Attempt, FailWithPeer
  <2>2. \A g \in 1 .. f - 1 : written[g] > 0
    BY <1>1, <1>2, OlderHaveBegun
  <2>3. /\ written' \in [1 .. Packets -> Nat] /\ wire' \in Seq(1 .. Packets)
        /\ buffered' \in 0 .. SendBuffer
        /\ written'[f] > 0
        /\ \A g \in 1 .. Packets : g # f => written'[g] = written[g]
        /\ WithinLength' /\ OnTheWire' /\ BeginInOrder'
    BY <1>1, <1>2, <2>1, <2>2, SomeIsWritten
  <2>4. WritesAreDue'
    BY <1>0, <2>1, <2>3 DEF WritesAreDue
  <2>5. OneWriteEach'
    <3>1. ASSUME NEW g \in 1 .. started', written'[g] < Length[g]
          PROVE  g \in handlers'
      <4>1. CASE g = f
        BY <2>1, <4>1
      <4>2. CASE g # f
        <5>0. g \in 1 .. Packets /\ g \in 1 .. started
          BY <1>0, <3>1, <4>2, PacketsAssumption
        <5>1. written[g] < Length[g]
          BY <2>3, <3>1, <4>2, <5>0
        <5>2. g \in handlers
          BY <1>0, <1>2, <2>1, <5>0, <5>1 DEF OneWriteEach
        <5>. QED
          BY <2>1, <4>2, <5>2
      <4>. QED
        BY <4>1, <4>2
    <3>2. Len(asked') = 0
      BY <2>1
    <3>. QED
      BY <3>1, <3>2 DEF OneWriteEach
  <2>6. WaitInOrder' /\ FailWithPeer'
    BY <2>1 DEF WaitInOrder, FailWithPeer
  <2>7. WriterTypeOK'
    BY <1>0, <2>1, <2>3 DEF WriterTypeOK
  <2>. QED
    BY <2>3, <2>4, <2>5, <2>6, <2>7 DEF WriterInv
<1>4. CASE asked = <<>> /\ peer = "gone"
  <2>1. /\ handlers' = (handlers \ {f}) \cup {f} /\ asked' = asked /\ failed' = failed \cup {f}
        /\ written' = written /\ wire' = wire /\ buffered' = buffered /\ Len(asked) = 0
    BY <1>4 DEF Ask, SocketReady, Attempt
  <2>2. WriterTypeOK' /\ WithinLength'
    BY <1>0, <1>1, <2>1 DEF WriterTypeOK, WithinLength
  <2>3. WritesAreDue' /\ FailWithPeer'
    BY <1>0, <1>1, <1>4, <2>1 DEF WritesAreDue, FailWithPeer
  <2>4. OneWriteEach'
    <3>1. ASSUME NEW g \in 1 .. started', written[g] < Length[g]
          PROVE  g \in handlers' \/ g \in failed'
      <4>1. CASE g = f
        BY <2>1, <4>1
      <4>2. CASE g # f
        <5>1. g \in 1 .. started
          BY <1>0, <3>1, <4>2
        <5>. QED
          BY <1>0, <2>1, <3>1, <5>1 DEF OneWriteEach
      <4>. QED
        BY <4>1, <4>2
    <3>. QED
      BY <2>1, <3>1 DEF OneWriteEach
  <2>5. OnTheWire' /\ BeginInOrder' /\ WaitInOrder'
    BY <1>0, <2>1 DEF OnTheWire, BeginInOrder, WaitInOrder
  <2>. QED
    BY <2>2, <2>3, <2>4, <2>5 DEF WriterInv
<1>3. CASE ~ (asked = <<>> /\ SocketReady)
  <2>1. /\ asked' = Append(asked, f) /\ handlers' = handlers \ {f} /\ failed' = failed
        /\ written' = written /\ wire' = wire /\ buffered' = buffered
    BY <1>3 DEF Ask
  <2>2. /\ asked' \in Seq(1 .. Packets) /\ Len(asked) \in Nat
        /\ Len(asked') = Len(asked) + 1
        /\ \A i \in 1 .. Len(asked) : asked'[i] = asked[i]
        /\ asked'[Len(asked) + 1] = f
    BY <1>0, <2>1
  <2>3. WriterTypeOK'
    BY <1>0, <2>1, <2>2 DEF WriterTypeOK
  <2>4. WithinLength'
    BY <1>0, <1>1, <2>1 DEF WithinLength
  <2>5. ASSUME NEW i \in 1 .. Len(asked')
        PROVE  \/ i \in 1 .. Len(asked) /\ asked'[i] = asked[i] /\ asked[i] \in 1 .. Packets
               \/ i = Len(asked) + 1 /\ asked'[i] = f
    <3>1. i \in 1 .. Len(asked) \/ i = Len(asked) + 1
      BY <2>2
    <3>. QED
      BY <3>1, <1>0, <2>2, ElementOf
  <2>6. WritesAreDue'
    <3>1. ASSUME NEW i \in 1 .. Len(asked')
          PROVE  asked'[i] =< started' /\ written'[asked'[i]] < Length[asked'[i]]
      BY <1>0, <1>1, <2>1, <2>5 DEF WritesAreDue
    <3>2. \A g \in handlers' : written'[g] > 0 \/ g \in failed'
      BY <1>0, <2>1 DEF WritesAreDue
    <3>. QED
      BY <3>1, <3>2 DEF WritesAreDue
  <2>7. OneWriteEach'
    <3>1. ASSUME NEW i \in 1 .. Len(asked'), NEW j \in 1 .. Len(asked'), asked'[i] = asked'[j]
          PROVE  i = j
      <4>1. CASE i \in 1 .. Len(asked) /\ asked'[i] = asked[i]
        <5>1. j \in 1 .. Len(asked) /\ asked'[j] = asked[j]
          BY <2>5, <3>1, <4>1
        <5>. QED
          BY <1>0, <3>1, <4>1, <5>1 DEF OneWriteEach
      <4>2. CASE i = Len(asked) + 1 /\ asked'[i] = f
        BY <2>5, <3>1, <4>2
      <4>. QED
        BY <2>5, <4>1, <4>2
    <3>2. ASSUME NEW i \in 1 .. Len(asked')
          PROVE  asked'[i] \notin handlers'
      BY <1>0, <2>1, <2>5 DEF OneWriteEach
    <3>3. ASSUME NEW g \in 1 .. started', written'[g] < Length[g]
          PROVE  g \in handlers' \/ g \in failed' \/ \E i \in 1 .. Len(asked') : asked'[i] = g
      <4>1. CASE g = f
        <5>1. Len(asked) + 1 \in 1 .. Len(asked')
          BY <2>2
        <5>. QED
          BY <2>2, <4>1, <5>1
      <4>2. CASE g # f
        <5>1. g \in 1 .. started /\ written[g] < Length[g]
          BY <1>0, <2>1, <3>3, <4>2
        <5>2. g \in handlers \/ g \in failed \/ \E i \in 1 .. Len(asked) : asked[i] = g
          BY <1>0, <5>1 DEF OneWriteEach
        <5>3. CASE g \in handlers \/ g \in failed
          BY <2>1, <4>2, <5>3
        <5>4. CASE \E i \in 1 .. Len(asked) : asked[i] = g
          <6>1. PICK i \in 1 .. Len(asked) : asked[i] = g
            BY <5>4
          <6>2. i \in 1 .. Len(asked') /\ asked'[i] = g
            BY <2>2, <6>1
          <6>. QED
            BY <6>2
        <5>. QED
          BY <5>2, <5>3, <5>4
      <4>. QED
        BY <4>1, <4>2
    <3>. QED
      BY <3>1, <3>2, <3>3 DEF OneWriteEach
  <2>8. OnTheWire' /\ BeginInOrder' /\ FailWithPeer'
    BY <1>0, <1>1, <2>1 DEF OnTheWire, BeginInOrder, FailWithPeer
  <2>9. WaitInOrder'
    <3>1. ASSUME NEW i \in 1 .. Len(asked'), NEW j \in 1 .. Len(asked'), i < j,
                 written'[asked'[i]] = 0, written'[asked'[j]] = 0
          PROVE  asked'[i] < asked'[j]
      <4>1. i \in 1 .. Len(asked) /\ asked'[i] = asked[i] /\ asked[i] \in 1 .. Packets
        BY <2>2, <2>5, <3>1
      <4>2. CASE j \in 1 .. Len(asked) /\ asked'[j] = asked[j]
        BY <1>0, <2>1, <3>1, <4>1, <4>2 DEF WaitInOrder
      <4>3. CASE asked'[j] = f
        <5>1. f = started + 1
          BY <1>0, <2>1, <3>1, <4>3
        <5>2. asked[i] =< started
          BY <1>0, <4>1 DEF WritesAreDue
        <5>. QED
          BY <1>0, <4>1, <4>3, <5>1, <5>2
      <4>. QED
        BY <2>5, <4>2, <4>3
    <3>. QED
      BY <3>1 DEF WaitInOrder
  <2>. QED
    BY <2>3, <2>4, <2>6, <2>7, <2>8, <2>9 DEF WriterInv
<1>. QED
  BY <1>0, <1>2, <1>3, <1>4 DEF SocketReady

LEMMA SendPacketBufPreserves ==
  ASSUME WriterInv, SendPacketBuf
  PROVE  WriterInv'
<1>. PICK f \in 1 .. Packets : f = started + 1
  BY PacketsAssumption DEF SendPacketBuf, WriterInv, WriterTypeOK
<1>1. /\ started \in 0 .. Packets /\ written \in [1 .. Packets -> Nat]
      /\ asked \in Seq(1 .. Packets) /\ handlers \subseteq 1 .. Packets
      /\ WithinLength /\ WritesAreDue /\ FailWithPeer
  BY DEF WriterInv, WriterTypeOK
<1>2. written[f] = 0
  BY <1>1 DEF WithinLength
<1>3. handlers \ {f} = handlers
  BY <1>1, <1>2 DEF WritesAreDue, FailWithPeer
<1>4. Ask(f, handlers \ {f}) /\ peer' = peer
  BY <1>3 DEF SendPacketBuf
<1>5. started' = started + 1 /\ started' \in 0 .. Packets
  BY <1>1, PacketsAssumption DEF SendPacketBuf
<1>6. written[f] < Length[f]
  BY <1>2, LengthAssumption
<1>7. \A i \in 1 .. Len(asked) : asked[i] # f
  BY <1>1 DEF WritesAreDue
<1>. QED
  BY <1>4, <1>5, <1>6, <1>7, AskPreserves

LEMMA PerformPreserves ==
  ASSUME WriterInv, Perform
  PROVE  WriterInv'
<1>0. /\ started \in 0 .. Packets /\ written \in [1 .. Packets -> Nat]
      /\ asked \in Seq(1 .. Packets) /\ handlers \subseteq 1 .. Packets
      /\ wire \in Seq(1 .. Packets) /\ buffered \in 0 .. SendBuffer
      /\ peer \in {"up", "gone"} /\ failed \subseteq 1 .. Packets
      /\ WithinLength /\ WritesAreDue /\ FailWithPeer /\ OneWriteEach
      /\ OnTheWire /\ BeginInOrder /\ WaitInOrder
  BY DEF WriterInv, WriterTypeOK
<1>1. /\ asked # <<>> /\ SocketReady /\ started' = started /\ peer' = peer
      /\ Len(asked) \in Nat \ {0} /\ Head(asked) = asked[1] /\ Tail(asked) \in Seq(1 .. Packets)
      /\ Len(Tail(asked)) = Len(asked) - 1
      /\ \A i \in 1 .. Len(Tail(asked)) : Tail(asked)[i] = asked[i + 1]
  BY <1>0, HeadAndTail DEF Perform
<1>2. 1 \in 1 .. Len(asked) /\ asked[1] \in 1 .. Packets
  <2>1. 1 \in 1 .. Len(asked)
    BY <1>1
  <2>. QED
    BY <1>0, <2>1, ElementOf
<1>. PICK f \in 1 .. Packets : f = asked[1]
  BY <1>2
<1>3. /\ Attempt(f) /\ handlers' = handlers \cup {f} /\ asked' = Tail(asked)
  BY <1>1 DEF Perform
<1>4. f =< started /\ written[f] < Length[f]
  BY <1>0, <1>2 DEF WritesAreDue
<1>6. /\ written' \in [1 .. Packets -> Nat] /\ wire' \in Seq(1 .. Packets)
      /\ buffered' \in 0 .. SendBuffer /\ failed' \subseteq 1 .. Packets
      /\ failed \subseteq failed' /\ (written'[f] > 0 \/ f \in failed')
      /\ \A g \in 1 .. Packets : g # f => written'[g] = written[g]
      /\ WithinLength' /\ OnTheWire' /\ BeginInOrder' /\ FailWithPeer'
  <2>1. CASE peer = "up"
    <3>1. WriteSome(f) /\ failed' = failed /\ buffered < SendBuffer
      BY <1>1, <1>3, <2>1 DEF Attempt, SocketReady
    <3>2. \A g \in 1 .. f - 1 : written[g] > 0
      BY <1>0, <1>1, <1>4, <2>1, OlderHaveBegun
    <3>3. /\ written' \in [1 .. Packets -> Nat] /\ wire' \in Seq(1 .. Packets)
          /\ buffered' \in 0 .. SendBuffer
          /\ written'[f] > 0
          /\ \A g \in 1 .. Packets : g # f => written'[g] = written[g]
          /\ WithinLength' /\ OnTheWire' /\ BeginInOrder'
      BY <1>0, <1>1, <1>4, <3>1, <3>2, SomeIsWritten
    <3>4. FailWithPeer'
      BY <1>0, <1>1, <3>1 DEF FailWithPeer
    <3>. QED
      BY <1>0, <3>1, <3>3, <3>4
  <2>2. CASE peer = "gone"
    <3>1. /\ failed' = failed \cup {f}
          /\ written' = written /\ wire' = wire /\ buffered' = buffered
      BY <1>3, <2>2 DEF Attempt
    <3>2. WithinLength' /\ OnTheWire' /\ BeginInOrder'
      BY <1>0, <1>1, <3>1 DEF WithinLength, OnTheWire, BeginInOrder
    <3>3. FailWithPeer'
      BY <1>0, <1>1, <1>4, <2>2, <3>1 DEF FailWithPeer
    <3>. QED
      BY <1>0, <3>1, <3>2, <3>3
  <2>. QED
    BY <1>0, <2>1, <2>2
<1>7. ASSUME NEW i \in 1 .. Len(asked')
      PROVE  /\ i + 1 \in 1 .. Len(asked) /\ asked'[i] = asked[i + 1]
             /\ asked'[i] \in 1 .. Packets /\ asked'[i] # f
  <2>1. i + 1 \in 1 .. Len(asked) /\ asked'[i] = asked[i + 1]
    BY <1>1, <1>3
  <2>2. asked[i + 1] \in 1 .. Packets
    BY <2>1, <1>0, ElementOf
  <2>3. asked[i + 1] # asked[1]
    BY <2>1, <1>0, <1>2 DEF OneWriteEach
  <2>. QED
    BY <2>1, <2>2, <2>3
<1>8. WritesAreDue'
  <2>1. ASSUME NEW i \in 1 .. Len(asked')
        PROVE  asked'[i] =< started' /\ written'[asked'[i]] < Length[asked'[i]]
    <3>1. i + 1 \in 1 .. Len(asked) /\ asked'[i] = asked[i + 1]
          /\ asked'[i] \in 1 .. Packets /\ asked'[i] # f
      BY <1>7
    <3>2. asked'[i] =< started /\ written[asked'[i]] < Length[asked'[i]]
      BY <1>0, <3>1 DEF WritesAreDue
    <3>3. written'[asked'[i]] = written[asked'[i]]
      BY <1>6, <3>1
    <3>. QED
      BY <1>1, <3>2, <3>3
  <2>2. \A g \in handlers' : written'[g] > 0 \/ g \in failed'
    BY <1>0, <1>3, <1>6 DEF WritesAreDue
  <2>. QED
    BY <2>1, <2>2 DEF WritesAreDue
<1>9. OneWriteEach'
  <2>1. ASSUME NEW i \in 1 .. Len(asked'), NEW j \in 1 .. Len(asked'), asked'[i] = asked'[j]
        PROVE  i = j
    <3>1. i + 1 = j + 1
      BY <1>0, <1>7, <2>1 DEF OneWriteEach
    <3>. QED
      BY <3>1
  <2>2. ASSUME NEW i \in 1 .. Len(asked')
        PROVE  asked'[i] \notin handlers'
    BY <1>0, <1>3, <1>7 DEF OneWriteEach
  <2>3. ASSUME NEW g \in 1 .. started', written'[g] < Length[g]
        PROVE  g \in handlers' \/ g \in failed' \/ \E i \in 1 .. Len(asked') : asked'[i] = g
    <3>1. CASE g = f
      BY <1>3, <3>1
    <3>2. CASE g # f
      <4>0. g \in 1 .. Packets /\ g \in 1 .. started
        BY <1>0, <1>1, <2>3, PacketsAssumption
      <4>1. written[g] < Length[g]
        BY <1>6, <2>3, <3>2, <4>0
      <4>2. CASE g \in handlers \/ g \in failed
        BY <1>3, <1>6, <4>2
      <4>3. ASSUME NEW i \in 1 .. Len(asked), asked[i] = g
            PROVE  \E j \in 1 .. Len(asked') : asked'[j] = g
        <5>1. i # 1 /\ i - 1 \in 1 .. Len(asked')
          BY <1>1, <1>3, <3>2, <4>3
        <5>2. asked'[i - 1] = g
          BY <5>1, <1>7, <4>3
        <5>. QED
          BY <5>1, <5>2
      <4>. QED
        BY <1>0, <4>0, <4>1, <4>2, <4>3 DEF OneWriteEach
    <3>. QED
      BY <3>1, <3>2
  <2>. QED
    BY <2>1, <2>2, <2>3 DEF OneWriteEach
<1>10. WaitInOrder'
  <2>1. ASSUME NEW i \in 1 .. Len(asked'), NEW j \in 1 .. Len(asked'), i < j,
               written'[asked'[i]] = 0, written'[asked'[j]] = 0
        PROVE  asked'[i] < asked'[j]
    <3>1. written[asked[i + 1]] = 0
      <4>1. asked'[i] = asked[i + 1] /\ asked'[i] \in 1 .. Packets /\ asked'[i] # f
        BY <1>7
      <4>. QED
        BY <4>1, <1>6, <2>1
    <3>2. written[asked[j + 1]] = 0
      <4>1. asked'[j] = asked[j + 1] /\ asked'[j] \in 1 .. Packets /\ asked'[j] # f
        BY <1>7
      <4>. QED
        BY <4>1, <1>6, <2>1
    <3>3. i \in Int /\ j \in Int /\ i + 1 < j + 1
      <4>1. i + 1 \in 1 .. Len(asked) /\ j + 1 \in 1 .. Len(asked)
        BY <1>7
      <4>. QED
        BY <4>1, <2>1, <1>1, <1>3
    <3>. QED
      BY <1>0, <1>7, <3>1, <3>2, <3>3 DEF WaitInOrder
  <2>. QED
    BY <2>1 DEF WaitInOrder
<1>11. WriterTypeOK'
  BY <1>0, <1>1, <1>3, <1>6 DEF WriterTypeOK
<1>. QED
  BY <1>6, <1>8, <1>9, <1>10, <1>11 DEF WriterInv

LEMMA WriteHandlerPreserves ==
  ASSUME WriterInv, NEW f \in 1 .. Packets, WriteHandler(f)
  PROVE  WriterInv'
<1>0. /\ started \in 0 .. Packets /\ written \in [1 .. Packets -> Nat]
      /\ asked \in Seq(1 .. Packets) /\ handlers \subseteq 1 .. Packets
      /\ wire \in Seq(1 .. Packets) /\ buffered \in 0 .. SendBuffer
      /\ peer \in {"up", "gone"} /\ failed \subseteq 1 .. Packets
      /\ WithinLength /\ WritesAreDue /\ FailWithPeer /\ OneWriteEach
      /\ OnTheWire /\ BeginInOrder /\ WaitInOrder
  BY DEF WriterInv, WriterTypeOK
<1>1. f \in handlers /\ started' = started /\ peer' = peer
  BY DEF WriteHandler
<1>2. CASE written[f] < Length[f] /\ f \notin failed
  <2>1. Ask(f, handlers \ {f})
    BY <1>2 DEF WriteHandler, FrameBytes
  <2>2. written[f] > 0 /\ \A i \in 1 .. Len(asked) : asked[i] # f
    BY <1>0, <1>1, <1>2 DEF WritesAreDue, OneWriteEach
  <2>. QED
    BY <1>0, <1>1, <1>2, <2>1, <2>2, AskPreserves
<1>3. CASE ~ (written[f] < Length[f]) \/ f \in failed
  <2>1. /\ handlers' = handlers \ {f} /\ written' = written /\ asked' = asked /\ failed' = failed
        /\ wire' = wire /\ buffered' = buffered
    BY <1>3 DEF WriteHandler, FrameBytes
  <2>2. OneWriteEach'
    BY <1>0, <1>1, <1>3, <2>1 DEF OneWriteEach
  <2>3. WriterTypeOK'
    BY <1>0, <1>1, <2>1 DEF WriterTypeOK
  <2>4. /\ WithinLength' /\ WritesAreDue' /\ FailWithPeer' /\ OnTheWire' /\ BeginInOrder'
        /\ WaitInOrder'
    BY <1>0, <1>1, <2>1
    DEF WithinLength, WritesAreDue, FailWithPeer, OnTheWire, BeginInOrder, WaitInOrder
  <2>. QED
    BY <2>2, <2>3, <2>4 DEF WriterInv
<1>. QED
  BY <1>2, <1>3

(* Frames begin on the wire in the order they were sent, and each has one   *)
(* write under way until it is written or fails, for any number of packets, *)
(* of any lengths, any send buffer, and whenever the peer leaves.           *)
THEOREM WriterInvariant == WriterSpec => []WriterInv
<1>1. WriterInit => WriterInv
  <2>. SUFFICES ASSUME WriterInit
                PROVE  WriterInv
    OBVIOUS
  <2>1. WriterTypeOK
    BY PacketsAssumption, SendBufferAssumption DEF WriterInit, WriterTypeOK
  <2>2. WithinLength
    BY LengthAssumption DEF WriterInit, WithinLength
  <2>3. /\ WritesAreDue /\ FailWithPeer /\ OneWriteEach /\ OnTheWire /\ BeginInOrder
        /\ WaitInOrder
    BY DEF WriterInit, WritesAreDue, FailWithPeer, OneWriteEach, OnTheWire, BeginInOrder, WaitInOrder
  <2>. QED
    BY <2>1, <2>2, <2>3 DEF WriterInv
<1>2. WriterInv /\ [WriterNext]_wvars => WriterInv'
  <2>. SUFFICES ASSUME WriterInv, [WriterNext]_wvars
                PROVE  WriterInv'
    OBVIOUS
  <2>1. CASE SendPacketBuf
    BY <2>1, SendPacketBufPreserves
  <2>2. CASE Perform
    BY <2>2, PerformPreserves
  <2>3. ASSUME NEW f \in 1 .. Packets, WriteHandler(f)
        PROVE  WriterInv'
    BY <2>3, WriteHandlerPreserves
  <2>4. CASE PeerReads
    <3>1. buffered \in 0 .. SendBuffer
      BY DEF WriterInv, WriterTypeOK
    <3>2. buffered' \in 0 .. SendBuffer
      BY <2>4, <3>1, SendBufferAssumption DEF PeerReads
    <3>. QED
      BY <2>4, <3>2
      DEF PeerReads, WriterInv, WriterTypeOK, WithinLength, WritesAreDue, FailWithPeer,
          OneWriteEach, OnTheWire, BeginInOrder, WaitInOrder
  <2>5. CASE PeerLeaves
    BY <2>5
    DEF PeerLeaves, WriterInv, WriterTypeOK, WithinLength, WritesAreDue, FailWithPeer,
        OneWriteEach, OnTheWire, BeginInOrder, WaitInOrder
  <2>6. CASE UNCHANGED wvars
    BY <2>6
    DEF wvars, WriterInv, WriterTypeOK, WithinLength, WritesAreDue, FailWithPeer,
        OneWriteEach, OnTheWire, BeginInOrder, WaitInOrder
  <2>. QED
    BY <2>1, <2>2, <2>3, <2>4, <2>5, <2>6 DEF WriterNext
<1>. QED
  BY <1>1, <1>2, PTL DEF WriterSpec

(* Packets begin on the wire in the order they were sent. *)
THEOREM BeginInOrderHolds == WriterSpec => []BeginInOrder
<1>1. WriterInv => BeginInOrder
  BY DEF WriterInv
<1>. QED
  BY <1>1, WriterInvariant, PTL

(* A packet has one write under way until it is written or fails, and never *)
(* two.                                                                     *)
THEOREM OneWriteEachHolds == WriterSpec => []OneWriteEach
<1>1. WriterInv => OneWriteEach
  BY DEF WriterInv
<1>. QED
  BY <1>1, WriterInvariant, PTL

(* For any number of packets of any lengths, any room in the send buffer    *)
(* and any delay of writes and handlers, writes that overlap begin in order *)
(* and none is lost or doubled, also when the peer goes away between them.  *)
THEOREM WritesInOrderHolds == WriterSpec => []WritesInOrder
BY BeginInOrderHolds, OneWriteEachHolds, PTL DEF WritesInOrder
===============================================================================
