------------------------------ MODULE MCSessions -----------------------------
(* Small instances of Sessions.                                            *)
EXTENDS Sessions

CONSTANTS j1, j2, i1, i2, t1, t2, c1, c2

OneJob == j1 :> i1
TwoJobs == (j1 :> i1) @@ (j2 :> i2)

OneEach == (t1 :> c1) @@ (t2 :> c2)
SameSession == (t1 :> c1) @@ (t2 :> c1)

\* Delivery ids are alike, so are the sessions of OneEach with their goroutines, and
\* the jobs of TwoJobs with their message ids (TLC takes the group they generate).
SwapSessions == (c1 :> c2) @@ (c2 :> c1) @@ (t1 :> t2) @@ (t2 :> t1)
SwapJobs == (j1 :> j2) @@ (j2 :> j1) @@ (i1 :> i2) @@ (i2 :> i1)
Symmetry == Permutations(Deliveries) \cup {SwapSessions, SwapJobs}

\* Bounds of the instance with two sessions: no session sends a take, and the bus is
\* not closed under the sessions.
LeasedWork == ~closed /\ \A t \in Takers : At(t, "none") \/ work[t].kind # "take"
=============================================================================
