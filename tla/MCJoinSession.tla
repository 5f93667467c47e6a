---------------------------- MODULE MCJoinSession ----------------------------
(***************************************************************************)
(* JoinSession for TLC: every registry of the server, a client that may     *)
(* fall two packets behind before the server handles another, so that       *)
(* packets of two states are in flight together, and that changes its       *)
(* settings twice of its own accord, so that a Client Information packet    *)
(* can cross every change of state.                                         *)
(***************************************************************************)
EXTENDS JoinSession

MCRegistries == Len(AllRegistries)
MCMaxOutbox  == 2
MCMaxPings   == 2
MCMaxInfos   == 2
MCMaxUnread  == 2
===============================================================================
