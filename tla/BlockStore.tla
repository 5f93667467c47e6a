------------------------------ MODULE BlockStore ------------------------------
(***************************************************************************)
(* What a ChunkColumn promises the threads that share it: a map from       *)
(* places to block states that starts as air, and of which one call        *)
(* changes one place, at once.                                             *)
(***************************************************************************)
CONSTANTS Places, States, Air

VARIABLE world

Init == world = [p \in Places |-> Air]

Set(p, s) == world' = [world EXCEPT ![p] = s]

Next == \E p \in Places, s \in States : Set(p, s)

Spec == Init /\ [][Next]_world
===============================================================================
