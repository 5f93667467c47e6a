---------------------------- MODULE MCFrameWriter -----------------------------
(***************************************************************************)
(* FrameWriter for TLC: four packets, of which the second is a long one (a  *)
(* chunk among the packets of the join sequence).  The send buffer holds    *)
(* any of the short ones at once and not the long one.                      *)
(***************************************************************************)
EXTENDS FrameWriter

MCPackets == 4
MCLength  == <<1, 4, 2, 2>>
===============================================================================
