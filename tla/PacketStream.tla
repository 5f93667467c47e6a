----------------------------- MODULE PacketStream -----------------------------
(***************************************************************************)
(* What the two ends of a connection are promised of each other: packets   *)
(* are received in the order they were sent, each of them once and whole.  *)
(* The receiver may fall silent (the connection is lost); it never invents, *)
(* reorders or skips.                                                      *)
(***************************************************************************)
EXTENDS Naturals, Sequences

CONSTANT Packets

VARIABLES sent, received

Init ==
  /\ sent = <<>>
  /\ received = <<>>

Send(p) ==
  /\ sent' = Append(sent, p)
  /\ UNCHANGED received

Receive ==
  /\ Len(received) < Len(sent)
  /\ received' = Append(received, sent[Len(received) + 1])
  /\ UNCHANGED sent

Next == (\E p \in Packets : Send(p)) \/ Receive

Spec == Init /\ [][Next]_<<sent, received>>
===============================================================================
