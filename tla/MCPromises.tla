----------------------------- MODULE MCPromises -----------------------------
(* Promises on a fixed set of threads.                                     *)
EXTENDS Promises
=============================================================================
