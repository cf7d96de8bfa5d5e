---------------------------- MODULE ChunkDelivery ----------------------------
(***************************************************************************)
(* What tracking the world promises, whatever travels through the blob     *)
(* cache: every piece of a chunk the server announces is written into the  *)
(* world once, in whatever order the pieces become complete, and nothing   *)
(* else changes the world.  The promise ends with the first packet that    *)
(* cannot be decoded or is decoded wrongly (void).                         *)
(***************************************************************************)
CONSTANTS
    Cells,          \* places of the world
    Nothing         \* contents of a cell nobody has filled

VARIABLES
    announced,      \* pieces: what p.fills maps to contents are cells
    applied,        \* the pieces that were written into the world
    world,
    void

vars == <<announced, applied, world, void>>

Init ==
    /\ announced = {} /\ applied = {} /\ void = FALSE
    /\ world = [c \in Cells |-> Nothing]

Announce ==
    /\ announced \subseteq announced'
    /\ UNCHANGED <<applied, world, void>>

\* Some pieces that were announced and are not yet in the world are written,
\* one of them last into each cell that any of them fills.
Apply ==
    /\ applied \subseteq applied' /\ applied' \subseteq announced
    /\ \A c \in Cells :
         LET writers == {p \in applied' \ applied : c \in DOMAIN p.fills}
         IN IF writers = {} THEN world'[c] = world[c]
            ELSE \E p \in writers : world'[c] = p.fills[c]
    /\ UNCHANGED <<announced, void>>

Spoil == void' = TRUE

Next == Announce \/ Apply \/ Spoil

\* Once void, a behaviour may do anything but take that back.
Spec == Init /\ [][Next]_vars
=============================================================================
