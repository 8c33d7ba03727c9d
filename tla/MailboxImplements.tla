-------------------------- MODULE MailboxImplements --------------------------
(* Mailbox keeps the promise of WorkQueue: the life of a job is where it is  *)
(* in the bus, or, when it is nowhere, what Put and Ack returned.            *)
EXTENDS Mailbox

LifeOf(j) ==
    IF fate[j] \in {"fresh", "merged", "acked"} THEN fate[j]
    ELSE IF j \in ToSet(q) THEN "ready"
    ELSE IF j \in InHand THEN "held"
    ELSE IF j \in Leased(inflight) THEN "leased"
    ELSE "gone"

WQ == INSTANCE WorkQueue WITH open <- ~closed, life <- [j \in Jobs |-> LifeOf(j)]

\* Every step of the mailbox (an expiry of several leases with a pop behind it, a
\* pop whose save is undone, a cancelled Take on a closed bus, a reload) is one
\* change of lives that the promise allows, or none: no accepted job leaves an
\* open bus but by an Ack, an acknowledged one never comes back, a merge has a
\* job to merge with.
KeepsPromise == WQ!Spec

\* The same, and leases end: with the sweeper and time running, on a disk that
\* may fail.
KeepsFairPromise == WQ!Promise
=============================================================================
