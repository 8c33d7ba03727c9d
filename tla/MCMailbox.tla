----------------------------- MODULE MCMailbox ------------------------------
(* Small instances of Mailbox: the second job is a retry of the first.     *)
EXTENDS MailboxImplements

CONSTANTS j1, j2, j3, i1, i2

OneRetry == (j1 :> i1) @@ (j2 :> i1) @@ (j3 :> i2)
RetryOnly == (j1 :> i1) @@ (j2 :> i1)
Distinct == (j1 :> i1) @@ (j2 :> i2)

\* takers are alike, and so are delivery ids
Symmetry == Permutations(Takers) \cup Permutations(Deliveries)
=============================================================================
