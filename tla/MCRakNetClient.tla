-------------------------- MODULE MCRakNetClient --------------------------
(* RakNetClient on a fixed set of application threads.                     *)
EXTENDS RakNetClient
=============================================================================
