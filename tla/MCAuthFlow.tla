---------------------------- MODULE MCAuthFlow ----------------------------
(* AuthFlow with one Xbox token besides XSTS: two logins of one flow, two  *)
(* flows on the same files, and a login that finds what an earlier one     *)
(* left, after a crash or a failing file operation.                        *)
EXTENDS AuthFlow

CONSTANTS f1, f2, l1, l2

MCKeys == <<"userToken", "deviceToken">>
MCScenarios ==
    {[calls |-> {<<l1, f1, 0>>, <<l2, f1, 0>>}, inTurn |-> FALSE, faults |-> 0],
     [calls |-> {<<l1, f1, 0>>, <<l2, f2, 0>>}, inTurn |-> FALSE, faults |-> 0],
     [calls |-> {<<l1, f1, 2>>, <<l2, f1, 0>>}, inTurn |-> TRUE, faults |-> 2]}
=============================================================================
