------------------------------ MODULE MCNetwork ------------------------------
(* Two groups, weights of both signs on either side of the threshold, index *)
(* lists that are unsorted, repeat themselves and leave the group.          *)
EXTENDS Network

MCSizes == [n \in Names |-> IF n = "A" THEN {1, 2} ELSE {1}]
MCWeights == {-3, 1}
MCDraws == {<<-3, 1>>}
MCProjections == {<<"A", "A">>, <<"A", "B">>}
MCPreLists == {<<1, 0, 1, 7>>}
MCPostLists == {<<1, 0, -1>>}
=============================================================================
