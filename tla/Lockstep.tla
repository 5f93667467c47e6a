------------------------------- MODULE Lockstep -------------------------------
(***************************************************************************)
(* What the two ends of a connection promise each other about the protocol *)
(* state, which no packet carries: the leader takes the next state only    *)
(* when the follower is in the state it leaves, the follower goes nowhere  *)
(* but after it, and neither ever goes back.                               *)
(***************************************************************************)
VARIABLES leader, follower

(* The changes of state there are. *)
Changes ==
  {<<"Handshake", "Status">>, <<"Handshake", "Login">>,
   <<"Login", "Configuration">>, <<"Configuration", "Play">>}

Init ==
  /\ leader = "Handshake"
  /\ follower = "Handshake"

Lead ==
  /\ leader = follower
  /\ <<leader, leader'>> \in Changes
  /\ UNCHANGED follower

Follow ==
  /\ follower # leader
  /\ follower' = leader
  /\ UNCHANGED leader

Spec == Init /\ [][Lead \/ Follow]_<<leader, follower>>
===============================================================================
