------------------------------- MODULE Mailbox -------------------------------
(***************************************************************************)
(* One named mailbox of mailbox.Bus: a queue of jobs, the goroutines that  *)
(* wait in Take, the leased deliveries, the index of message ids, and the  *)
(* file the bus is loaded from after a restart.  Mailboxes of one bus      *)
(* share only the mutex and the file, so one of them is modelled.          *)
(*                                                                         *)
(* A method that runs under Bus.mu is one step.  Take and Reserve are not: *)
(* they release the mutex between popping the job (or joining the          *)
(* waiters), receiving from the channel, Hold and Requeue, and those are   *)
(* steps of their own.                                                     *)
(***************************************************************************)
EXTENDS Naturals, FiniteSets, Sequences, SequencesExt, Functions

CONSTANTS
    Jobs,        \* the messages handed to Put; a retry is another job
    Ids,         \* message ids (Msg.ID)
    IdOf,        \* the id of each job
    Takers,      \* goroutines that call Take, TryTake and Reserve
    Deliveries,  \* the delivery ids newID may still produce (bound)
    MaxQueue,    \* Bus.maxQueue
    Durable,     \* the bus was made by OpenPersistent
    DiskFaults,  \* persistLocked may return an error
    MaxRestarts, \* how often the process is restarted (bound)
    NoJob        \* no message

ASSUME JobsAssumption == NoJob \notin Jobs /\ IdOf \in [Jobs -> Ids]
ASSUME DeliveriesAssumption == IsFiniteSet(Deliveries)
ASSUME LimitsAssumption == MaxQueue \in Nat \ {0} /\ MaxRestarts \in Nat
ASSUME DiskAssumption == Durable \in BOOLEAN /\ DiskFaults \in BOOLEAN

VARIABLES
    closed,    \* Bus.closed
    q,         \* box.q, oldest job first
    waiters,   \* box.waiters: the takers whose channels are queued
    pc,        \* where each taker is
    hand,      \* the job in a taker's channel, and later in its variable msg
    inflight,  \* Bus.inflight: the job each delivery id leases, or NoJob
    dedup,     \* Bus.dedup: how many copies of an id are queued or leased
    disk,      \* what the file holds: the queue and the leases
    issued,    \* delivery ids newID has produced
    elapsed,   \* deliveries whose Expires lies in the past
    fate,      \* history: what has become of each job
    restarts   \* history: how often the process was restarted

memory == <<closed, q, waiters, pc, hand, inflight, dedup>>
vars == <<closed, q, waiters, pc, hand, inflight, dedup, disk,
          issued, elapsed, fate, restarts>>

Maybe == Jobs \cup {NoJob}
NoLeases == [d \in Deliveries |-> NoJob]
Snapshots == [q : Seq(Jobs), inflight : [Deliveries -> Maybe]]

PCs == {"idle",     \* not in a call
        "wait",     \* in Take's select, with a channel
        "got",      \* Take returned a job, Hold comes next
        "requeue"}  \* Hold failed, Requeue comes next

Fates == {"fresh",     \* not put, or every Put of it was refused
          "accepted",  \* Put returned nil and the bus took the job
          "merged",    \* Put returned nil because its id was indexed
          "acked",     \* an Ack of the job returned nil
          "unsaved"}   \* an Ack dropped the job, its save failed

-----------------------------------------------------------------------------
(* The index of ids, and the file.                                         *)

Copies(js, id) == Cardinality({i \in DOMAIN js : IdOf[js[i]] = id})

IndexAdd(index, js) == [id \in Ids |-> index[id] + Copies(js, id)]

IndexKept(index, js) == index                    \* mutant: the count stays

IndexDel(index, js) ==
    [id \in Ids |-> IF index[id] > Copies(js, id)
                    THEN index[id] - Copies(js, id)
                    ELSE 0]

Indexed(id) == dedup[id] > 0

FullOffByOne == Len(q) > MaxQueue                \* mutant

Full == Len(q) >= MaxQueue

LeaseCopies(leases, id) ==
    Cardinality({d \in Deliveries : leases[d] # NoJob /\ IdOf[leases[d]] = id})

\* mutant: no fsync before the rename, a crash may find the old file
SavedUnsynced == Durable /\ disk' \in {disk, [q |-> q', inflight |-> inflight']}

\* mutant: the leases are not written
SavedQueues == disk' = IF Durable THEN [q |-> q'] ELSE disk

\* persistLocked returns nil: the file holds the memory this step leaves
Saved == disk' = IF Durable THEN [q |-> q', inflight |-> inflight'] ELSE disk

\* persistLocked returns an error: the file is as it was
SaveFails == Durable /\ DiskFaults /\ UNCHANGED disk

SavedOrNot == Saved \/ SaveFails

-----------------------------------------------------------------------------
(* deliverLocked, for the jobs of js one after the other: the oldest       *)
(* waiters get the first of them, the others go in front of the queue one  *)
(* by one.                                                                 *)

NoHandOffs(js) == 0                              \* mutant: the waiters are not seen

HandOffs(js) == IF Len(js) < Len(waiters) THEN Len(js) ELSE Len(waiters)
Unhanded(js) == SubSeq(js, HandOffs(js) + 1, Len(js))

WaitersAfter(js) == SubSeq(waiters, HandOffs(js) + 1, Len(waiters))

HandsWith(hands, js) ==
    [t \in Takers |->
        IF \E i \in 1..HandOffs(js) : waiters[i] = t
        THEN js[CHOOSE i \in 1..HandOffs(js) : waiters[i] = t]
        ELSE hands[t]]

HandAfter(js) == HandsWith(hand, js)

\* mutant: the bound of Put applied to jobs that come back
QueueBoundedAfter(js) == IF Full THEN q ELSE Reverse(Unhanded(js)) \o q

\* mutant: jobs come back at the end of the queue
QueueAppendedAfter(js) == q \o Unhanded(js)

QueueAfter(js) == Reverse(Unhanded(js)) \o q

WaitersKept(t) == waiters                        \* mutant: still listed

WaitersWithout(t) ==
    IF t \in ToSet(waiters)
    THEN RemoveAt(waiters, CHOOSE i \in DOMAIN waiters : waiters[i] = t)
    ELSE waiters

-----------------------------------------------------------------------------
Expired == {d \in Deliveries : inflight[d] # NoJob /\ d \in elapsed}

Orders(ds) == {s \in [1..Cardinality(ds) -> ds] : IsInjective(s)}

LeasedBy(s) == [i \in DOMAIN s |-> inflight[s[i]]]

LeasesKept(ds) == inflight                       \* mutant: no delete

Without(ds) == [d \in Deliveries |-> IF d \in ds THEN NoJob ELSE inflight[d]]

ReindexForgotten(js) == IndexDel(dedup, js)      \* mutant: no indexAddLocked

\* each released job leaves the index, and joins it again if it is queued
ReindexedAfter(js) == IndexAdd(IndexDel(dedup, js), Unhanded(js))

\* requeueExpiredLocked ranges over a map: the order is arbitrary
ExpiredJobs == {LeasedBy(s) : s \in Orders(Expired)}

\* Bound: no taker starts a call that could run out of delivery ids
DeliveryLeft ==
    Cardinality({t \in Takers : pc[t] # "idle"}) < Cardinality(Deliveries \ issued)

-----------------------------------------------------------------------------
Init ==
    /\ closed = FALSE
    /\ q = <<>>
    /\ waiters = <<>>
    /\ pc = [t \in Takers |-> "idle"]
    /\ hand = [t \in Takers |-> NoJob]
    /\ inflight = NoLeases
    /\ dedup = [id \in Ids |-> 0]
    /\ disk = [q |-> <<>>, inflight |-> NoLeases]
    /\ issued = {}
    /\ elapsed = {}
    /\ fate = [j \in Jobs |-> "fresh"]
    /\ restarts = 0

(* Put: merged into a copy that is indexed, ...                            *)
PutMerges(j) ==
    /\ ~closed /\ fate[j] = "fresh" /\ Indexed(IdOf[j])
    /\ fate' = [fate EXCEPT ![j] = "merged"]
    /\ UNCHANGED <<memory, disk, issued, elapsed, restarts>>

\* mutant: the newest waiter gets the job
PutHandsToNewest(j) ==
    /\ ~closed /\ fate[j] = "fresh" /\ ~Indexed(IdOf[j])
    /\ waiters # <<>>
    /\ waiters' = Front(waiters)
    /\ hand' = [hand EXCEPT ![Last(waiters)] = j]
    /\ fate' = [fate EXCEPT ![j] = "accepted"]
    /\ UNCHANGED <<closed, q, pc, inflight, dedup, disk, issued, elapsed, restarts>>

(* ... handed to the oldest waiter, neither indexed nor saved, ...         *)
PutHandsOff(j) ==
    /\ ~closed /\ fate[j] = "fresh" /\ ~Indexed(IdOf[j])
    /\ waiters # <<>>
    /\ waiters' = Tail(waiters)
    /\ hand' = [hand EXCEPT ![Head(waiters)] = j]
    /\ fate' = [fate EXCEPT ![j] = "accepted"]
    /\ UNCHANGED <<closed, q, pc, inflight, dedup, disk, issued, elapsed, restarts>>

(* ... or queued and saved.                                                *)
PutQueues(j) ==
    /\ ~closed /\ fate[j] = "fresh" /\ ~Indexed(IdOf[j])
    /\ waiters = <<>>
    /\ ~Full
    /\ q' = Append(q, j)
    /\ dedup' = IndexAdd(dedup, <<j>>)
    /\ fate' = [fate EXCEPT ![j] = "accepted"]
    /\ UNCHANGED <<closed, waiters, pc, hand, inflight, issued, elapsed, restarts>>
    /\ Saved

(* Put returns ErrClosed, ErrDropped, or the error of a save it undid.     *)
PutRefused(j) ==
    /\ fate[j] = "fresh"
    /\ \/ closed
       \/ /\ ~Indexed(IdOf[j]) /\ waiters = <<>>
          /\ Full \/ SaveFails
    /\ UNCHANGED vars

\* The head of the queue that the expired jobs js leave is popped and the pop
\* saved; if the save fails the job stays, and so does what js changed.
Pop(t, js, next) ==
    LET queue == QueueAfter(js)
    IN  /\ queue # <<>>
        /\ waiters' = WaitersAfter(js)
        /\ \/ /\ q' = Tail(queue)
              /\ hand' = [HandAfter(js) EXCEPT ![t] = Head(queue)]
              /\ dedup' = IndexDel(ReindexedAfter(js), <<Head(queue)>>)
              /\ pc' = [pc EXCEPT ![t] = next]
              /\ Saved
           \/ /\ q' = queue
              /\ hand' = HandAfter(js)
              /\ dedup' = ReindexedAfter(js)
              /\ pc' = pc
              /\ SaveFails

(* takeChan: expired jobs return first, unsaved; then the head of the      *)
(* queue goes into a fresh channel, or the channel joins the waiters.      *)
TakeChan(t) ==
    /\ ~closed /\ pc[t] = "idle" /\ DeliveryLeft
    /\ inflight' = Without(Expired)
    /\ \E js \in ExpiredJobs :
          \/ Pop(t, js, "wait")
          \/ /\ QueueAfter(js) = <<>>
             /\ q' = <<>>
             /\ waiters' = Append(WaitersAfter(js), t)
             /\ hand' = HandAfter(js)
             /\ dedup' = ReindexedAfter(js)
             /\ pc' = [pc EXCEPT ![t] = "wait"]
             /\ UNCHANGED disk
    /\ UNCHANGED <<closed, issued, elapsed, fate, restarts>>

(* TryTake: as takeChan, but an empty queue is ErrEmpty.                   *)
TryTake(t) ==
    /\ ~closed /\ pc[t] = "idle" /\ DeliveryLeft
    /\ inflight' = Without(Expired)
    /\ \E js \in ExpiredJobs :
          \/ Pop(t, js, "got")
          \/ /\ QueueAfter(js) = <<>>
             /\ q' = <<>>
             /\ waiters' = WaitersAfter(js)
             /\ hand' = HandAfter(js)
             /\ dedup' = ReindexedAfter(js)
             /\ UNCHANGED <<pc, disk>>
    /\ UNCHANGED <<closed, issued, elapsed, fate, restarts>>

(* Take: the select receives the job, ...                                  *)
Receive(t) ==
    /\ pc[t] = "wait" /\ hand[t] # NoJob
    /\ pc' = [pc EXCEPT ![t] = "got"]
    /\ UNCHANGED <<closed, q, waiters, hand, inflight, dedup, disk, issued,
                   elapsed, fate, restarts>>

(* ... or finds the channel closed by Close, ...                           *)
TakeFails(t) ==
    /\ pc[t] = "wait" /\ hand[t] = NoJob /\ t \notin ToSet(waiters)
    /\ pc' = [pc EXCEPT ![t] = "idle"]
    /\ UNCHANGED <<closed, q, waiters, hand, inflight, dedup, disk, issued,
                   elapsed, fate, restarts>>

(* ... or ctx is done and cancelWaiter puts a job that came meanwhile in   *)
(* front of the queue, whoever else waits and whether or not the bus is    *)
(* closed, ignoring the result of the save.                                *)
Cancel(t) ==
    /\ pc[t] = "wait"
    /\ pc' = [pc EXCEPT ![t] = "idle"]
    /\ waiters' = WaitersWithout(t)
    /\ hand' = [hand EXCEPT ![t] = NoJob]
    /\ UNCHANGED <<closed, inflight, issued, elapsed, fate, restarts>>
    /\ \/ /\ hand[t] = NoJob
          /\ UNCHANGED <<q, dedup, disk>>
       \/ /\ hand[t] # NoJob
          /\ q' = <<hand[t]>> \o q
          /\ dedup' = IndexAdd(dedup, <<hand[t]>>)
          /\ SavedOrNot

(* Hold leases the job under a new delivery id; if that cannot be saved,   *)
(* or the bus is closed, Reserve and takeJob call Requeue next.            *)
Hold(t, d) ==
    /\ pc[t] = "got" /\ ~closed /\ d \notin issued
    /\ inflight' = [inflight EXCEPT ![d] = hand[t]]
    /\ dedup' = IndexAdd(dedup, <<hand[t]>>)
    /\ issued' = issued \cup {d}
    /\ hand' = [hand EXCEPT ![t] = NoJob]
    /\ pc' = [pc EXCEPT ![t] = "idle"]
    /\ UNCHANGED <<closed, q, waiters, elapsed, fate, restarts>>
    /\ Saved

\* mutant: the caller calls Hold again instead of Requeue
HoldRetries(t) ==
    /\ pc[t] = "got"
    /\ closed \/ SaveFails
    /\ UNCHANGED vars

HoldFails(t) ==
    /\ pc[t] = "got"
    /\ closed \/ SaveFails
    /\ pc' = [pc EXCEPT ![t] = "requeue"]
    /\ UNCHANGED <<closed, q, waiters, hand, inflight, dedup, disk, issued,
                   elapsed, fate, restarts>>

(* Requeue gives the job to a waiter or to the front of the queue; on a    *)
(* closed bus its ErrClosed is ignored and the job is gone.                *)
Requeue(t) ==
    /\ pc[t] = "requeue"
    /\ pc' = [pc EXCEPT ![t] = "idle"]
    /\ UNCHANGED <<closed, inflight, issued, elapsed, fate, restarts>>
    /\ \/ /\ closed
          /\ hand' = [hand EXCEPT ![t] = NoJob]
          /\ UNCHANGED <<q, waiters, dedup, disk>>
       \/ /\ ~closed
          /\ LET js == <<hand[t]>>
             IN  /\ q' = QueueAfter(js)
                 /\ waiters' = WaitersAfter(js)
                 /\ hand' = HandsWith([hand EXCEPT ![t] = NoJob], js)
                 /\ dedup' = IndexAdd(dedup, Unhanded(js))
          /\ SavedOrNot

(* Ack and Nack work on a closed bus too; their error is that of the save, *)
(* and the job has left the memory all the same.  An id that is not leased *)
(* is ErrNotFound and changes nothing.                                     *)
Ack(d) ==
    /\ inflight[d] # NoJob
    /\ inflight' = Without({d})
    /\ dedup' = IndexDel(dedup, <<inflight[d]>>)
    /\ UNCHANGED <<closed, q, waiters, pc, hand, issued, elapsed, restarts>>
    /\ \/ Saved /\ fate' = [fate EXCEPT ![inflight[d]] = "acked"]
       \/ SaveFails /\ fate' = [fate EXCEPT ![inflight[d]] = "unsaved"]

Nack(d) ==
    /\ inflight[d] # NoJob
    /\ inflight' = Without({d})
    /\ LET js == <<inflight[d]>>
       IN  /\ q' = QueueAfter(js)
           /\ waiters' = WaitersAfter(js)
           /\ hand' = HandAfter(js)
           /\ dedup' = ReindexedAfter(js)
    /\ UNCHANGED <<closed, pc, issued, elapsed, fate, restarts>>
    /\ SavedOrNot

NoSweeper == FALSE /\ UNCHANGED vars             \* mutant: never started

(* The sweeper's ExpireLeases, once a second.                              *)
ExpireLeases ==
    /\ ~closed /\ Expired # {}
    /\ inflight' = Without(Expired)
    /\ \E js \in ExpiredJobs :
          /\ q' = QueueAfter(js)
          /\ waiters' = WaitersAfter(js)
          /\ hand' = HandAfter(js)
          /\ dedup' = ReindexedAfter(js)
    /\ UNCHANGED <<closed, pc, issued, elapsed, fate, restarts>>
    /\ SavedOrNot

(* Close drops the queue from memory and not from the file, and leaves the *)
(* leases where they are; the waiters' channels are closed.                *)
Close ==
    /\ ~closed
    /\ closed' = TRUE
    /\ q' = <<>>
    /\ waiters' = <<>>
    /\ UNCHANGED <<pc, hand, inflight, dedup, disk, issued, elapsed, fate, restarts>>

-----------------------------------------------------------------------------
(* Time passes the Expires of a lease that is in memory or in the file.    *)
LeaseElapses(d) ==
    /\ d \notin elapsed
    /\ inflight[d] # NoJob \/ disk.inflight[d] # NoJob
    /\ elapsed' = elapsed \cup {d}
    /\ UNCHANGED <<memory, disk, issued, fate, restarts>>

(* The process ends, by a crash or after Close, and OpenPersistent loads   *)
(* the file.  A save is a write to a temporary file and a rename, so a     *)
(* crash inside a step leaves the file of before it or of after it.        *)
Restart ==
    /\ Durable /\ restarts < MaxRestarts
    /\ closed' = FALSE
    /\ q' = disk.q
    /\ inflight' = disk.inflight
    /\ dedup' = [id \in Ids |-> Copies(disk.q, id) + LeaseCopies(disk.inflight, id)]
    /\ waiters' = <<>>
    /\ pc' = [t \in Takers |-> "idle"]
    /\ hand' = [t \in Takers |-> NoJob]
    /\ restarts' = restarts + 1
    /\ UNCHANGED <<disk, issued, elapsed, fate>>

-----------------------------------------------------------------------------
Put(j) == PutMerges(j) \/ PutHandsOff(j) \/ PutQueues(j) \/ PutRefused(j)

TakerStep(t) ==
    \/ TakeChan(t) \/ TryTake(t)
    \/ Receive(t) \/ TakeFails(t) \/ Cancel(t)
    \/ \E d \in Deliveries : Hold(t, d)
    \/ HoldFails(t) \/ Requeue(t)

DeliveryStep(d) == Ack(d) \/ Nack(d) \/ LeaseElapses(d)

Next ==
    \/ \E j \in Jobs : Put(j)
    \/ \E t \in Takers : TakerStep(t)
    \/ \E d \in Deliveries : DeliveryStep(d)
    \/ ExpireLeases \/ Close \/ Restart

Spec == Init /\ [][Next]_vars

(* The Go scheduler runs a goroutine that can run, the ticker of the       *)
(* sweeper fires, and time passes.  Nothing makes a client ack, put or     *)
(* take, or a disk fail or recover.                                        *)
TakerProceeds(t) ==
    Receive(t) \/ TakeFails(t) \/ (\E d \in Deliveries : Hold(t, d))
    \/ HoldFails(t) \/ Requeue(t)

Fairness ==
    /\ \A t \in Takers : WF_vars(TakerProceeds(t))
    /\ \A d \in Deliveries : WF_vars(LeaseElapses(d))
    /\ WF_vars(ExpireLeases)

FairSpec == Spec /\ Fairness

-----------------------------------------------------------------------------
(* Properties.                                                             *)

\* Every variable has its type: the state of box and Bus as declared in
\* mailbox.go, waiters without repetitions, fates from the list.
TypeOK ==
    /\ closed \in BOOLEAN
    /\ q \in Seq(Jobs)
    /\ waiters \in Seq(Takers)
    /\ pc \in [Takers -> PCs]
    /\ hand \in [Takers -> Maybe]
    /\ inflight \in [Deliveries -> Maybe]
    /\ dedup \in [Ids -> Nat]
    /\ disk \in Snapshots
    /\ issued \subseteq Deliveries
    /\ elapsed \subseteq Deliveries
    /\ fate \in [Jobs -> Fates]
    /\ restarts \in 0..MaxRestarts

Leased(leases) == {leases[d] : d \in Deliveries} \ {NoJob}
InHand == {hand[t] : t \in Takers} \ {NoJob}
Located == ToSet(q) \cup InHand \cup Leased(inflight)
InFile == ToSet(disk.q) \cup Leased(disk.inflight)

\* A queue and a set of leases hold no job twice.
NoRepetition(queue, leases) ==
    /\ IsInjective(queue)
    /\ \A d, e \in Deliveries : leases[d] # NoJob /\ leases[d] = leases[e] => d = e
    /\ ToSet(queue) \cap Leased(leases) = {}

\* Nor do these together with what the takers hold.
OncePlaced(queue, hands, leases) ==
    /\ NoRepetition(queue, leases)
    /\ \A t, u \in Takers : hands[t] # NoJob /\ hands[t] = hands[u] => t = u
    /\ \A t \in Takers : hands[t] \notin ToSet(queue) \cup Leased(leases)

\* A job is in at most one place of the bus (the queue, one taker's channel or
\* variable, one lease), and in at most one place of the file: a hand-off, a
\* cancelled Take, an expiry and a failed save each move it and never copy it
\* (deliverLocked, cancelWaiter, requeueExpiredLocked, the rollbacks).
SinglePlace ==
    /\ OncePlaced(q, hand, inflight)
    /\ NoRepetition(disk.q, disk.inflight)

\* A taker between Take and Hold or Requeue has the job it took.
HandsFull == \A t \in Takers : pc[t] \in {"got", "requeue"} => hand[t] # NoJob

\* The wait lists agree with the goroutines: who is in box.waiters waits in
\* Take with an empty channel, once, and on an open bus a taker that waits is
\* in the list or has its job (a send on w never blocks and never meets a
\* channel twice: w <- msg; close(w) in Put and deliverLocked).
WaitersWait ==
    /\ IsInjective(waiters)
    /\ \A t \in ToSet(waiters) : pc[t] = "wait" /\ hand[t] = NoJob
    /\ HandsFull
    /\ \A t \in Takers : /\ pc[t] = "idle" => hand[t] = NoJob
                         /\ ~closed /\ pc[t] = "wait" /\ hand[t] = NoJob
                               => t \in ToSet(waiters)

\* Bus.dedup is what its comment says while the bus is open, the number of
\* copies of an id that are queued or leased: no path through take, requeue,
\* expiry, rollback and reload leaves a count behind (it would swallow later
\* puts of the id) or loses one (a retry would be queued twice).
DedupExact ==
    ~closed => \A id \in Ids : dedup[id] = Copies(q, id) + LeaseCopies(inflight, id)

\* Until the bus is closed, and within one life of the process, an accepted
\* job that nobody has acknowledged is in the bus or in a taker's hands,
\* whatever happens to its takers and to the disk.
NoJobLost ==
    ~closed /\ restarts = 0 => \A j \in Jobs : fate[j] = "accepted" => j \in Located

\* What is in the bus or in the file is a job that Put accepted and for which no
\* Ack returned nil: no expiry, late Nack or restart brings an acknowledged job
\* back (persistLocked's comment on what a crash could resurrect), and a refused
\* or merged one leaves nothing behind (the rollback of Put).
OnlyUnackedInside ==
    \A j \in Located \cup InFile : fate[j] \in {"accepted", "unsaved"}

\* On a disk that works, every job queued or leased in a durable bus is queued
\* or leased in the file: takeChan's unsaved expiry included, a crash at any
\* point loses nothing but jobs in the hands of takers.
QueuedOrLeasedIsSaved ==
    Durable /\ ~DiskFaults =>
        ToSet(q) \cup Leased(inflight) \subseteq InFile

\* The queue grows beyond maxQueue only by jobs that were already accepted:
\* no interleaving of Put with takers and expiry lets Put overfill it.
PutNeverOverfills ==
    [][Len(q') > MaxQueue /\ restarts' = restarts =>
          \A j \in ToSet(q') : fate[j] # "fresh"]_vars

\* Jobs that stay queued stay in order, jobs that come back come in front of
\* them and new ones behind, and a job leaves only after those before it.
Position(queue, j) == CHOOSE i \in DOMAIN queue : queue[i] = j

QueueKeepsOrder ==
    [][~closed' /\ restarts' = restarts =>
         /\ \A i, k \in DOMAIN q : i < k /\ q[i] \in ToSet(q') =>
               q[k] \in ToSet(q') /\ Position(q', q[i]) < Position(q', q[k])
         /\ \A j \in ToSet(q') \ ToSet(q) : \A k \in ToSet(q') \cap ToSet(q) :
               (fate[j] = "fresh") <=> Position(q', k) < Position(q', j)]_vars

\* Jobs reach the waiting takers in the order in which these began to wait.
OldestWaiterFirst ==
    [][\A i, k \in DOMAIN waiters :
          i < k /\ hand'[waiters[k]] # NoJob => hand'[waiters[i]] # NoJob]_vars

\* No job lies in the queue while a taker waits, but for the job of a cancelled
\* Take: cancelWaiter puts it in front of the queue and wakes nobody, and every
\* other way into the queue (Put, Nack, Requeue, expiry, a taker that joins the
\* waiters) looks for the counterpart first.
Stranded == q # <<>> /\ waiters # <<>>

StrandedOnlyByCancel ==
    [][Stranded' /\ ~Stranded =>
          \E t \in Takers : /\ pc[t] = "wait" /\ pc'[t] = "idle"
                            /\ hand[t] # NoJob /\ Head(q') = hand[t]]_vars

\* A job that left the queue does not stay in a taker's hands: it is leased,
\* goes back, or a closed bus gives it up.
HandsEmpty ==
    \A t \in Takers : (hand[t] # NoJob) ~> (hand[t] = NoJob)

-----------------------------------------------------------------------------
(* What the repository says and the code does not do (runs that expect a   *)
(* violation).                                                             *)

\* "jobs survive a restart": once the bus is closed no job leaves the file but
\* by an Ack.
ClosedBusKeepsFile ==
    [][closed /\ closed' =>
         \A j \in ToSet(disk.q) : j \in ToSet(disk'.q) \/ fate'[j] = "acked"]_vars
=============================================================================
