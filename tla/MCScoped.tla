------------------------------ MODULE MCScoped -------------------------------
(* Two clients that choose the same id, the second in the same process as    *)
(* the first or in the next: its session is number 2 or number 1.            *)
EXTENDS Scoped

CONSTANTS j1, j2, j3, j4, c1, c2, x

ScopedIds == {1, 2} \X {x}
Connections == (j1 :> c1) @@ (j2 :> c1) @@ (j3 :> c2) @@ (j4 :> c2)
SameName == [j \in {j1, j2, j3, j4} |-> x]
Scopes == (j1 :> <<1, x>>) @@ (j2 :> <<1, x>>) @@ (j3 :> <<1, x>>) @@ (j4 :> <<2, x>>)
=============================================================================
