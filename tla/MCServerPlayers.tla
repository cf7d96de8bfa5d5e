--------------------------- MODULE MCServerPlayers ---------------------------
EXTENDS ServerPlayers, TLC

\* Endpoints and GUIDs are only compared with each other.
Symmetry == Permutations(Endpoints) \cup Permutations(Guids)
=============================================================================
