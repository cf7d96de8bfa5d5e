----------------------------- MODULE MCQueuePump -----------------------------
(* QueuePump with two callers, a close inside a close listener, and a       *)
(* deadline that sets itself again.  Without symmetry, for the sake of      *)
(* Settles.                                                                 *)
EXTENDS QueuePump
=============================================================================
