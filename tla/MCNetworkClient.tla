-------------------------- MODULE MCNetworkClient --------------------------
(* NetworkClient on a fixed set of application threads.                    *)
EXTENDS NetworkClient, TLC

Symmetry == Permutations(Apps)
=============================================================================
