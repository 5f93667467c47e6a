------------------------------- MODULE MCWorld --------------------------------
(***************************************************************************)
(* World for TLC: sections of 2 x 2 x 2 blocks, three of them from y = -2,   *)
(* so that y = 0 begins a section above the lowest as it does in the code.  *)
(* Words of 5 bits take five entries of one bit or two of two, with a bit   *)
(* to spare; an index has four values, which the states of a section        *)
(* outnumber when other threads add theirs.                                 *)
(***************************************************************************)
EXTENDS World

MCWidth    == 2
MCHeight   == 2
MCSections == 3
MCMinY     == -2
MCStates   == {Air, 1, 9, 10, 85}
MCLayers   == <<85, 10, 9>>
MCWordBits == 5
MCMinBits  == 1
MCMaxBits  == 2
MCIndexMod == 4

(* A block of the section of air comes and goes; the section of three       *)
(* states gets up to two more, once by coordinates of another chunk.        *)
Edit(x, y, z, s) == [at |-> [x |-> x, y |-> y, z |-> z], state |-> s]
MCEdits == {Edit(0, -2, 1, 1), Edit(0, -2, 1, Air),
            Edit(1, 0, 0, 1), Edit(1, 0, 0, Air), Edit(-2, 1, 0, 9)}

MCMaxCalls    == 2
MCMaxEntities == 5
MCTypes       == {"player"}
MCIdMod       == 4
===============================================================================
