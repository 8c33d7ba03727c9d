------------------------------ MODULE WorkQueue ------------------------------
(***************************************************************************)
(* What a mailbox of the bus promises about each job, without queue,       *)
(* waiters, delivery ids, index or file: the life of a job from Put to its *)
(* acknowledgement, and which calls and accidents may change it.           *)
(* MailboxImplements shows that Mailbox keeps this promise.                *)
(***************************************************************************)
CONSTANTS
    Jobs,   \* the messages handed to Put; a retry is another job
    IdOf    \* the id of each job (JobsAssumption of Mailbox)

VARIABLES
    open,   \* the bus accepts calls
    life    \* how far each job is

wqVars == <<open, life>>

Lives == {"fresh",     \* not put, or every Put of it was refused
          "merged",    \* Put took it for a copy of a job the bus has
          "ready",     \* queued
          "held",      \* given to a taker that has no lease of it yet
          "leased",
          "acked",     \* acknowledged: final
          "gone"}      \* not acknowledged, and not in the bus: a closed bus or
                       \* the end of the process dropped it, or a failed Ack

Are(state) == {j \in Jobs : life[j] = state}

Become(js, state) == life' = [j \in Jobs |-> IF j \in js THEN state ELSE life[j]]

-----------------------------------------------------------------------------
Init == open = TRUE /\ life = [j \in Jobs |-> "fresh"]

(* Put accepts a job: a taker gets it at once, or it is queued, ...        *)
Accept(j) ==
    /\ open /\ life[j] = "fresh"
    /\ Become({j}, "ready") \/ Become({j}, "held")
    /\ UNCHANGED open

(* ... or swallows it beside a job of the same id that is not finished.    *)
Merge(j) ==
    /\ open /\ life[j] = "fresh"
    /\ \E k \in Are("ready") \cup Are("leased") : IdOf[k] = IdOf[j]
    /\ Become({j}, "merged")
    /\ UNCHANGED open

(* Jobs circulate: leases of the jobs "back" end by a nack or because they *)
(* elapsed, the jobs "out" go to takers, the others of back to the queue.  *)
(* One call takes at most one job out of the queue.  A closed bus only     *)
(* nacks.                                                                  *)
Circulate(back, out) ==
    /\ back \cup out # {}
    /\ back \subseteq Are("leased") /\ out \subseteq back \cup Are("ready")
    /\ \A j, k \in out \ back : j = k
    /\ open \/ (out = {} /\ \A j, k \in back : j = k)
    /\ life' = [j \in Jobs |-> IF j \in out THEN "held"
                               ELSE IF j \in back THEN "ready" ELSE life[j]]
    /\ UNCHANGED open

(* Hold leases what a taker has; ...                                       *)
Lease(j) ==
    /\ open /\ life[j] = "held"
    /\ Become({j}, "leased")
    /\ UNCHANGED open

(* ... if it cannot, or the taker gives up, the job is queued again, and   *)
(* only a closed bus drops it.                                             *)
PutBack(j) ==
    /\ life[j] = "held"
    /\ Become({j}, "ready") \/ (~open /\ Become({j}, "gone"))
    /\ UNCHANGED open

(* Ack finishes a leased job for good, or drops it and returns an error.   *)
Finish(j) ==
    /\ life[j] = "leased"
    /\ Become({j}, "acked") \/ Become({j}, "gone")
    /\ UNCHANGED open

(* Close drops the queue.                                                  *)
Shut ==
    /\ open /\ open' = FALSE
    /\ Become(Are("ready"), "gone")

(* The process ends and a new one loads the file: of the jobs that were    *)
(* accepted and not acknowledged some are queued or leased again.          *)
Recover ==
    /\ open' = TRUE
    /\ LET Unfinished == Jobs \ (Are("fresh") \cup Are("merged") \cup Are("acked"))
       IN  \E queued \in SUBSET Unfinished : \E leases \in SUBSET (Unfinished \ queued) :
              life' = [j \in Jobs |-> IF j \in queued THEN "ready"
                                      ELSE IF j \in leases THEN "leased"
                                      ELSE IF j \in Unfinished THEN "gone"
                                      ELSE life[j]]

Next ==
    \/ \E j \in Jobs : Accept(j) \/ Merge(j) \/ Lease(j) \/ PutBack(j) \/ Finish(j)
    \/ \E back \in SUBSET Are("leased") :
          \E out \in SUBSET (back \cup Are("ready")) : Circulate(back, out)
    \/ Shut \/ Recover

Spec == Init /\ [][Next]_wqVars

-----------------------------------------------------------------------------
(* A lease does not outlive its time on an open bus.                       *)
LeasesEnd == \A j \in Jobs : (life[j] = "leased") ~> (life[j] # "leased" \/ ~open)

Promise == Spec /\ LeasesEnd
=============================================================================
