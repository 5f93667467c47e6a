----------------------------- MODULE FrameReader ------------------------------
(***************************************************************************)
(* The read loop of ServerConnection on the byte stream of its socket:     *)
(* do_read_packet_length takes up to five bytes and decodes a length from  *)
(* them, do_read_packet_payload waits for what is missing of the body and  *)
(* gives it to process_packet.                                             *)
(*                                                                         *)
(* The stream is a sequence of frames, each a length prefix and a body;    *)
(* bytes are counted, never spelt.  TCP delivers any run of bytes at a     *)
(* time: a segment may split a frame, or end in the next one.              *)
(***************************************************************************)
EXTENDS Integers, Sequences, FiniteSetsExt

CONSTANTS
  Shapes,     \* the frames a client sends: [prefix : 1..3, body : Nat \ {0}]
  Awaited,    \* those after which it waits until they have been processed
  Frames      \* bound: how many frames the client sends

ASSUME ShapesAssumption    == Shapes \subseteq [prefix : 1 .. 3, body : Nat \ {0}]
ASSUME FramesAssumption    == Frames \in Nat
ASSUME AwaitedAssumption   == Awaited \subseteq Shapes

VARIABLES
  stream,     \* the frames written by the client, in order, and where they begin
  arrived,    \* bytes of the stream that have reached the socket
  taken,      \* bytes of it that reads have taken from the socket
  pc,         \* "length", "payload": the outstanding read; or "stopped"
  missing,    \* bytes of the body do_read_packet_payload still waits for
  frame,      \* the frame that body is of, 0 when it is of none
  received    \* what process_packet was given, a frame or Garbage

vars == <<stream, arrived, taken, pc, missing, frame, received>>

ReadAhead == 5     \* the bytes read for a length prefix
Garbage   == 0     \* a payload that is not the body of a frame

-------------------------------------------------------------------------------
EndOf(f)    == f.at + f.prefix + f.body
ShapeOf(f)  == [prefix |-> f.prefix, body |-> f.body]
EndOfStream == IF stream = <<>> THEN 0 ELSE EndOf(stream[Len(stream)])

(* The frames that begin at byte b: one, or none when b is inside a frame.  *)
BeginsAt(b) == {i \in 1 .. Len(stream) : stream[i].at = b}

ClientWrites(shape) ==
  /\ Len(stream) < Frames
  /\ \A i \in 1 .. Len(stream) : ShapeOf(stream[i]) \in Awaited => Len(received) >= i
  /\ stream' = Append(stream,
                  [at |-> EndOfStream, prefix |-> shape.prefix, body |-> shape.body])
  /\ UNCHANGED <<arrived, taken, pc, missing, frame, received>>

Arrive ==
  /\ \E b \in (arrived + 1) .. EndOfStream : arrived' = b
  /\ UNCHANGED <<stream, taken, pc, missing, frame, received>>

-------------------------------------------------------------------------------
(* Faults: the return after process_packet is missing; the bytes that came  *)
(* with the prefix are waited for again; five of them are always assumed.   *)
ReadBody_NoReturn(f, initial, packet_len) ==
  /\ received' = IF initial >= packet_len THEN Append(received, f) ELSE received
  /\ pc' = "payload"
  /\ missing' = IF initial >= packet_len THEN 0 ELSE packet_len - initial
  /\ frame' = f

ReadBody_WholeBody(f, initial, packet_len) ==
  IF initial >= packet_len
    THEN received' = Append(received, f) /\ UNCHANGED <<pc, missing, frame>>
    ELSE pc' = "payload" /\ missing' = packet_len /\ frame' = f /\ UNCHANGED received

ReadBody_AssumesFive(f, initial, packet_len) ==
  IF initial >= packet_len
    THEN received' = Append(received, f) /\ UNCHANGED <<pc, missing, frame>>
    ELSE pc' = "payload" /\ missing' = packet_len - ReadAhead /\ frame' = f
           /\ UNCHANGED received

(* do_read_packet_payload: `initial' bytes came with the prefix.  When they *)
(* are the whole body, or more than it, the body is processed at once and   *)
(* the rest of them is forgotten; else a read waits for what is missing.    *)
(* All `initial' bytes are copied into a vector of packet_len: where they   *)
(* are more, the copy runs past its end, at most by four bytes, which C++   *)
(* leaves undefined.  The outcome here is the usual one, that they fall     *)
(* into what the vector has allocated for an earlier, longer packet.        *)
ReadBody(f, initial, packet_len) ==
  IF initial >= packet_len
    THEN /\ received' = Append(received, f)
         /\ UNCHANGED <<pc, missing, frame>>
    ELSE /\ pc' = "payload"
         /\ missing' = packet_len - initial
         /\ frame' = f
         /\ UNCHANGED received

(* A prefix that does not decode: the loop ends. *)
Stop ==
  /\ pc' = "stopped"
  /\ UNCHANGED <<missing, frame, received>>

(* The read for a length completes with what has arrived, up to five bytes. *)
(* Where no frame begins the bytes decode to whatever they decode to.       *)
ReadLength ==
  /\ pc = "length"
  /\ taken < arrived
  /\ LET bytes == Min({ReadAhead, arrived - taken}) IN
       /\ taken' = taken + bytes
       /\ \/ \E f \in BeginsAt(taken) :
               IF bytes < stream[f].prefix
                 THEN Stop
                 ELSE ReadBody(f, bytes - stream[f].prefix, stream[f].body)
          \/ /\ BeginsAt(taken) = {}
             /\ \/ Stop
                \/ \E header_consumed \in 1 .. bytes, shape \in Shapes :
                     ReadBody(Garbage, bytes - header_consumed, shape.body)
  /\ UNCHANGED <<stream, arrived>>

(* async_read completes when the rest of the body has arrived. *)
ReadPayload ==
  /\ pc = "payload"
  /\ arrived - taken >= missing
  /\ taken' = taken + missing
  /\ received' = Append(received, frame)
  /\ pc' = "length"
  /\ missing' = 0
  /\ frame' = Garbage
  /\ UNCHANGED <<stream, arrived>>

-------------------------------------------------------------------------------
Init ==
  /\ stream = <<>>
  /\ arrived = 0 /\ taken = 0
  /\ pc = "length" /\ missing = 0 /\ frame = Garbage
  /\ received = <<>>

Next ==
  \/ \E shape \in Shapes : ClientWrites(shape)
  \/ Arrive
  \/ ReadLength
  \/ ReadPayload

(* TCP delivers what was written, and the io_context runs the reads that    *)
(* can complete.                                                            *)
Fairness == WF_vars(Arrive) /\ WF_vars(ReadLength) /\ WF_vars(ReadPayload)

Spec == Init /\ [][Next]_vars /\ Fairness

-------------------------------------------------------------------------------
(* Every variable has its type, and no read takes a byte that has not come. *)
TypeOK ==
  /\ stream \in Seq([at : Nat, prefix : 1 .. 3, body : Nat \ {0}])
  /\ arrived \in 0 .. EndOfStream
  /\ taken \in 0 .. arrived
  /\ pc \in {"length", "payload", "stopped"}
  /\ missing \in Nat
  /\ frame \in 0 .. Len(stream)
  /\ received \in Seq(0 .. Len(stream))

Abstract == INSTANCE PacketStream WITH
  Packets  <- 1 .. Frames,
  sent     <- [i \in 1 .. Len(stream) |-> i],
  received <- received

(* The read loop implements PacketStream: process_packet is given the       *)
(* bodies of the client's frames, in order, none skipped and none mangled,  *)
(* however TCP cuts the stream.                                             *)
Refinement == Abstract!Spec

(* What the loop relies on: a length of one byte, and a frame too short for  *)
(* the five bytes of the first read only from a client that then waits.     *)
LongOrAwaited ==
  \A shape \in Shapes :
    /\ shape.prefix = 1
    /\ shape \in Awaited \/ shape.prefix + shape.body >= ReadAhead

(* Every frame the client writes is processed in the end: the loop neither  *)
(* stops on a good frame nor waits for bytes it has already taken.          *)
AllProcessed == \A i \in 1 .. Frames : Len(stream) = i ~> Len(received) >= i

(* Between two packets the next read begins where a frame begins.           *)
InStep == pc = "length" => taken = EndOfStream \/ BeginsAt(taken) # {}

===============================================================================
