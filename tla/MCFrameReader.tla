---------------------------- MODULE MCFrameReader -----------------------------
(***************************************************************************)
(* FrameReader for TLC.  The read for a length takes up to five bytes, so   *)
(* a frame is long when it has that many, and short when the read reaches   *)
(* past it (Login Acknowledged is a length and an id).  A wide frame has a  *)
(* length of two bytes: its body, of 128 bytes and more, is counted as      *)
(* eight.  With three frames each kind meets each other on both sides.      *)
(***************************************************************************)
EXTENDS FrameReader

Shape(p, b) == [prefix |-> p, body |-> b]

MCShort   == {Shape(1, 1), Shape(1, 3)}
MCLong    == {Shape(1, 4), Shape(1, 6), Shape(1, 9)}
MCWide    == {Shape(2, 8)}
MCAny     == MCShort \cup MCLong
MCAndWide == MCLong \cup MCWide
===============================================================================
