----------------------------- MODULE FrameWriter ------------------------------
(***************************************************************************)
(* send_packet_buf: every packet is one asio::async_write, started without *)
(* waiting for the last one to complete.                                   *)
(*                                                                         *)
(* async_write is a composed operation (asio is external to the            *)
(* repository): it asks the socket to write some of its frame and, as long *)
(* as bytes are left, asks again from the handler of the last write.  The  *)
(* socket performs one write at a time, in the order they were asked for,  *)
(* each of them for as much as the send buffer of the kernel takes; a      *)
(* write asked of an idle socket is tried at once.  When the peer is gone  *)
(* a write fails: its handler logs that and does no more, the connection   *)
(* goes on sending, and each of its packets fails in its turn.             *)
(***************************************************************************)
EXTENDS Integers, Sequences, FiniteSetsExt

CONSTANTS
  Packets,     \* bound: how many packets are sent
  Length,      \* the bytes of each of them, with its length prefix
  SendBuffer   \* the bytes the kernel holds for a peer that does not read

ASSUME PacketsAssumption    == Packets \in Nat
ASSUME LengthAssumption     == Length \in [1 .. Packets -> Nat \ {0}]
ASSUME SendBufferAssumption == SendBuffer \in Nat \ {0}

VARIABLES
  started,    \* frames handed to async_write so far: 1 .. started
  written,    \* written[f]: bytes of frame f the kernel has taken
  asked,      \* the writes the socket has not performed, frames in order
  handlers,   \* frames whose last write is done and whose handler is queued
  wire,       \* the bytes taken, each the frame it is of, in order
  buffered,   \* how many of them the peer has not read
  peer,       \* is the peer "up" or "gone"?
  failed      \* frames of which a write has failed

wvars == <<started, written, asked, handlers, wire, buffered, peer, failed>>

-------------------------------------------------------------------------------
BytesOf(f, n) == [i \in 1 .. n |-> f]

(* Fault: the buffer given to async_write is a byte shorter than the frame. *)
FrameBytes_Shorter(f) == Length[f] - 1

(* The bytes of a frame: its length and the packet, copied for the write.   *)
FrameBytes(f) == Length[f]

(* The kernel takes what it has room for of the rest of frame f. *)
WriteSome(f) ==
  LET n == Min({SendBuffer - buffered, FrameBytes(f) - written[f]}) IN
    /\ written' = [written EXCEPT ![f] = @ + n]
    /\ wire' = wire \o BytesOf(f, n)
    /\ buffered' = buffered + n

(* A write is performed: some bytes are taken, or there is nobody to take   *)
(* them.                                                                    *)
Attempt(f) ==
  IF peer = "up"
    THEN WriteSome(f) /\ UNCHANGED failed
    ELSE failed' = failed \cup {f} /\ UNCHANGED <<written, wire, buffered>>

SocketReady == peer = "gone" \/ buffered < SendBuffer

(* async_write_some: tried at once on an idle socket, else it waits its turn *)
Ask(f, others) ==
  IF asked = <<>> /\ SocketReady
    THEN /\ Attempt(f)
         /\ handlers' = others \cup {f}
         /\ UNCHANGED asked
    ELSE /\ asked' = Append(asked, f)
         /\ handlers' = others
         /\ UNCHANGED <<written, wire, buffered, failed>>

(* Fault: the write is posted to the threads of the io_context.             *)
SendPacketBuf_Posts ==
  /\ started < Packets
  /\ started' = started + 1
  /\ handlers' = handlers \cup {started + 1}
  /\ UNCHANGED <<written, asked, wire, buffered, peer, failed>>

(* Fault: the length and the packet are two writes, both begun at once.     *)
SendPacketBuf_InTwo ==
  /\ started < Packets
  /\ started' = started + 1
  /\ asked' = asked \o <<started + 1, started + 1>>
  /\ UNCHANGED <<written, handlers, wire, buffered, peer, failed>>

(* send_packet_buf: the frame is handed to async_write, which asks for its  *)
(* first write before it returns.                                           *)
SendPacketBuf ==
  /\ started < Packets
  /\ started' = started + 1
  /\ Ask(started + 1, handlers)
  /\ UNCHANGED peer

(* The socket is writable, or gone: the write at the head is performed.     *)
Perform ==
  /\ asked # <<>>
  /\ SocketReady
  /\ Attempt(Head(asked))
  /\ handlers' = handlers \cup {Head(asked)}
  /\ asked' = Tail(asked)
  /\ UNCHANGED <<started, peer>>

(* The handler of a write: the rest of the frame is asked for, or the       *)
(* operation is complete, all of it written or with an error.               *)
WriteHandler(f) ==
  /\ f \in handlers
  /\ IF written[f] < FrameBytes(f) /\ f \notin failed
       THEN Ask(f, handlers \ {f})
       ELSE /\ handlers' = handlers \ {f}
            /\ UNCHANGED <<written, asked, wire, buffered, failed>>
  /\ UNCHANGED <<started, peer>>

PeerReads ==
  /\ peer = "up"
  /\ \E n \in 0 .. buffered - 1 : buffered' = n
  /\ UNCHANGED <<started, written, asked, handlers, wire, peer, failed>>

(* The peer resets the connection. *)
PeerLeaves ==
  /\ peer = "up"
  /\ peer' = "gone"
  /\ UNCHANGED <<started, written, asked, handlers, wire, buffered, failed>>

-------------------------------------------------------------------------------
WriterInit ==
  /\ started = 0
  /\ written = [f \in 1 .. Packets |-> 0]
  /\ asked = <<>>
  /\ handlers = {}
  /\ wire = <<>>
  /\ buffered = 0
  /\ peer = "up"
  /\ failed = {}

WriterNext ==
  \/ SendPacketBuf
  \/ Perform
  \/ \E f \in 1 .. Packets : WriteHandler(f)
  \/ PeerReads
  \/ PeerLeaves

(* The io_context runs the handlers that are queued, the socket performs    *)
(* what it can, and the peer goes on reading for as long as it is up.       *)
WriterFairness ==
  /\ WF_wvars(Perform) /\ WF_wvars(PeerReads)
  /\ \A f \in 1 .. Packets : WF_wvars(WriteHandler(f))

WriterSpec == WriterInit /\ [][WriterNext]_wvars /\ WriterFairness

-------------------------------------------------------------------------------
(* No write is under way for frame f: no handler holds its bytes, nor the   *)
(* connection, any longer.                                                  *)
Ended(f) == f \notin handlers /\ \A i \in 1 .. Len(asked) : asked[i] # f

(* Every packet handed to send_packet_buf comes to its end: it is all on    *)
(* the wire, or has failed, which only a peer that is gone makes it do.     *)
AllWritten ==
  \A f \in 1 .. Packets :
    started = f ~> Ended(f) /\ (written[f] = Length[f] \/ (f \in failed /\ peer = "gone"))

(* The bytes of a frame are together: no frame begins inside another, so    *)
(* the peer finds a length prefix where the last frame ended.               *)
Framed ==
  \A i \in 1 .. Len(wire) - 1 :
    wire[i] # wire[i + 1] =>
      \A j, k \in 1 .. Len(wire) : j =< i /\ k > i => wire[j] # wire[k]

(* Frames begin on the wire in the order they were sent, however the writes *)
(* and the handlers of those before them are delayed.                       *)
BeginInOrder ==
  \A i \in 1 .. Len(wire) : \A f \in 1 .. wire[i] - 1 : \E j \in 1 .. i : wire[j] = f

(* A packet has one write under way until it is written, and never two,     *)
(* which would put the same bytes on the wire twice: it waits for the       *)
(* socket, or its handler is queued.  None is left with neither, which      *)
(* nothing would ever take up again, unless a write of it has failed.       *)
OneWriteEach ==
  /\ \A i, j \in 1 .. Len(asked) : asked[i] = asked[j] => i = j
  /\ \A i \in 1 .. Len(asked) : asked[i] \notin handlers
  /\ \A f \in 1 .. started :
       written[f] < Length[f] =>
         f \in handlers \/ f \in failed \/ \E i \in 1 .. Len(asked) : asked[i] = f

(* So writes that overlap still begin in order, with none lost or doubled.  *)
WritesInOrder == BeginInOrder /\ OneWriteEach

===============================================================================
