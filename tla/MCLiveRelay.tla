---------------------------- MODULE MCLiveRelay ----------------------------
(* LiveRelay under small loads, each of which brings one concern to bear:  *)
(* a second login, the order of the player's packets, the spawn, and the   *)
(* chunks around start_game.                                               *)
EXTENDS LiveRelay

Load(up, serverbound, clientbound) ==
    [up |-> up, serverbound |-> serverbound, clientbound |-> clientbound]

MCLoads == {Load(2, <<>>, <<"plain">>),
            Load(1, <<"plain", "plain">>, <<>>),
            Load(1, <<"radius">>, <<"spawn">>),
            Load(1, <<"cache">>, <<>>),
            Load(1, <<>>, <<"chunk", "start", "plain">>)}
=============================================================================
