----------------------------- MODULE MCResources -----------------------------
(* A small instance of Resources for TLC: the attempts ask for different   *)
(* amounts, some sets of them fit and others do not, and the pools are    *)
(* smaller than the number of attempts.                                    *)
EXTENDS Resources, TLC

CONSTANTS v1, v2, v3, v4

CpusOf == (v1 :> 1) @@ (v2 :> 2) @@ (v3 :> 1) @@ (v4 :> 1)
MemoryOf == (v1 :> 2) @@ (v2 :> 1) @@ (v3 :> 3) @@ (v4 :> 1)

Pools == ("ip" :> 2) @@ ("cid" :> 2)

==============================================================================
