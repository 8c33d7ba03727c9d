------------------------------ MODULE MCReqRep -------------------------------
(* A small instance of ReqRep: both requests by one client.                *)
EXTENDS ReqRep

CONSTANTS r1, r2, c1

BothByOne == (r1 :> c1) @@ (r2 :> c1)
=============================================================================
