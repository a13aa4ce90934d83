------------------------------ MODULE IndexLog ------------------------------
(***************************************************************************)
(* What the index promises to those who read it, independently of how the  *)
(* scraper writes it: at every moment there is a height up to which every  *)
(* appearance can be found, and nothing beyond it; part of it is final.    *)
(***************************************************************************)
EXTENDS Integers

CONSTANTS MaxHeight, Content  \* the blocks in which an address appears

VARIABLES
    final,    \* the height up to which the index is immutable
    height,   \* the height up to which it is complete
    found     \* the blocks whose appearances can be found

Promise == found = {b \in Content : b <= height}

Init == final = 0 /\ height = 0 /\ Promise

\* appearances are added at the end, and become final from the front
Extend ==
    /\ height' \in height .. MaxHeight
    /\ final' \in final .. height'
    /\ Promise'

\* what is not final may be withdrawn, from the end
FallBack ==
    /\ height' \in final .. height
    /\ final' = final
    /\ Promise'

Spec == Init /\ [][Extend \/ FallBack]_<<final, height, found>>
=============================================================================
