--------------------------- MODULE MCLogViewers ------------------------------
(* A small instance of LogViewers for TLC: the log of j1 has two lines, of *)
(* which the second is of level DEBUG, that of j2 one.                     *)
EXTENDS LogViewers

CONSTANTS j1, j2

Lengths == [j \in Jobs |-> IF j = j1 THEN 2 ELSE 1]
Debugs == {<<j1, 2>>}
Found == {<<j1, 2>>, <<j2, 1>>}

==============================================================================
