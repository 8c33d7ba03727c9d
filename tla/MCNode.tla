------------------------------- MODULE MCNode --------------------------------
(***************************************************************************)
(* A serving node, its successor on the same path and a node that joins    *)
(* the first one, with a local client each.                                *)
(***************************************************************************)
EXTENDS Node

CONSTANTS s1, s2, j, own, other, c1, c2

TwoServers == {s1, s2}
OneJoin == {j}
FirstServer == [n \in OneJoin |-> s1]
TwoPaths == {own, other}
JoinApart == [n \in {s1, s2, j} |-> IF n = j THEN other ELSE own]
TwoClients == {c1, c2}
OneEach == [c \in TwoClients |-> IF c = c1 THEN own ELSE other]
==============================================================================
