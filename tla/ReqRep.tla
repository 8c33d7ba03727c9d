-------------------------------- MODULE ReqRep --------------------------------
(***************************************************************************)
(* Request and reply over one service: clients that call Client.Request,   *)
(* workers that loop over Ready and Rep, the hub's table of pending        *)
(* requests, and between them a queue of jobs, one per request that was    *)
(* put and not merged.                                                     *)
(*                                                                         *)
(* The queue is the mailbox of Mailbox and the leases are those of         *)
(* Sessions, reduced to what a requester can tell: how many jobs of each   *)
(* request are queued, which worker has which, and whether it is leased.   *)
(***************************************************************************)
EXTENDS Naturals, FiniteSets, Sequences, SequencesExt, Functions

CONSTANTS
    Requests,  \* calls of Client.Request; each has its own correlation id
    Clients,   \* sessions that call Request
    ClientOf,  \* the client that makes each request
    Workers,   \* sessions that call Ready and Rep
    MaxQueue,  \* Bus.maxQueue
    Capacity,  \* how many frames a connection holds for a client (bound)
    MaxFaults, \* how many sessions, leases and entries may fail (bound)
    NoReq,     \* no request
    Failed     \* an err frame

ASSUME RequestsAssumption ==
    /\ NoReq \notin Requests /\ Failed \notin Requests /\ NoReq # Failed
    /\ IsFiniteSet(Requests)
    /\ ClientOf \in [Requests -> Clients]
ASSUME SessionsAssumption == Clients \cap Workers = {}
ASSUME BoundsAssumption ==
    MaxQueue \in Nat \ {0} /\ Capacity \in Nat \ {0} /\ MaxFaults \in Nat

VARIABLES
    open,     \* ~session.closed, of clients and workers
    cur,      \* the request a client's Request waits for, or NoReq
    desync,   \* Client.desync
    inbox,    \* req frames written to a connection and not read by the hub
    answers,  \* rep and err frames written to it and not read by the client
    hpc,      \* where the req handler of a client's session is
    pending,  \* Hub.pending: no entry, an entry, or one past its expires
    queued,   \* how many jobs of a request are in the queue
    wpc,      \* where a worker is
    job,      \* the request whose job a worker has, or NoReq
    lease,    \* whether the bus has a lease of that delivery
    clearing, \* sessions whose close has not reached clearPending
    found,    \* whether the rep handler of a worker found an entry
    used,     \* history: the requests that were begun
    faults    \* history: how much has failed

client == <<cur, desync, used>>
vars == <<open, cur, desync, inbox, answers, hpc, pending, queued, wpc, job,
          lease, clearing, found, used, faults>>

MaybeReq == Requests \cup {NoReq}

HandlerPCs == {"read",  \* no req frame is being handled
               "set",   \* a frame was read, its entry comes next
               "put",   \* the entry is set, Bus.Put comes next
               "drop"}  \* Put failed: the entry is removed, the error replied

WorkerPCs == {"idle",    \* between calls
              "wait",    \* takeJob's goroutine is in Bus.waiters
              "taken",   \* Take returned, Hold comes next
              "work",    \* the job was delivered under a lease
              "ack",    \* rep: takeRepAck returned, claimInflight and Ack
              "delete", \* rep: the entry is looked up and removed
              "reply",  \* rep: replies to the worker and to the requester
              "gone"}    \* the session is over

NoHandler == [at |-> "read", req |-> NoReq]

Init ==
    /\ open = [s \in Clients \cup Workers |-> TRUE]
    /\ cur = [c \in Clients |-> NoReq]
    /\ desync = [c \in Clients |-> FALSE]
    /\ inbox = [c \in Clients |-> <<>>]
    /\ answers = [c \in Clients |-> <<>>]
    /\ hpc = [c \in Clients |-> NoHandler]
    /\ pending = [r \in Requests |-> "none"]
    /\ queued = [r \in Requests |-> 0]
    /\ wpc = [w \in Workers |-> "idle"]
    /\ job = [w \in Workers |-> NoReq]
    /\ lease = [w \in Workers |-> FALSE]
    /\ clearing = {}
    /\ found = [w \in Workers |-> FALSE]
    /\ used = {}
    /\ faults = 0

-----------------------------------------------------------------------------
(* The queue.                                                              *)

\* mutant: a request is taken for queued because the table has it
IndexedIfPending(r) == pending[r] # "none"

\* Bus.dedup: a job is indexed while it is queued or leased
Indexed(r) == queued[r] > 0 \/ \E w \in Workers : job[w] = r /\ lease[w]

Waiting == {w \in Workers : wpc[w] = "wait"}

QueueEmpty == \A r \in Requests : queued[r] = 0

\* Bus.Put's len(box.q) >= b.maxQueue
Full == MapThenSumSet(LAMBDA r : queued[r], Requests) >= MaxQueue

\* mutant: the waiter's channel is closed without the job
DeliverNothing(r) ==
    \/ \E w \in Waiting :
          /\ wpc' = [wpc EXCEPT ![w] = "taken"]
          /\ UNCHANGED <<job, queued>>
    \/ /\ Waiting = {}
       /\ queued' = [queued EXCEPT ![r] = @ + 1]
       /\ UNCHANGED <<wpc, job>>

\* deliverLocked: a waiting taker gets the job, or the queue does
Deliver(r) ==
    \/ \E w \in Waiting :
          /\ wpc' = [wpc EXCEPT ![w] = "taken"]
          /\ job' = [job EXCEPT ![w] = r]
          /\ UNCHANGED queued
    \/ /\ Waiting = {}
       /\ queued' = [queued EXCEPT ![r] = @ + 1]
       /\ UNCHANGED <<wpc, job>>

-----------------------------------------------------------------------------
(* session.reply and session.close.                                        *)

\* close of a client's session, up to clearPending; what is on the connection
\* is gone and Request, if it waits, returns the error
Closes(c) ==
    /\ open' = [open EXCEPT ![c] = FALSE]
    /\ clearing' = clearing \cup {c}
    /\ cur' = [cur EXCEPT ![c] = NoReq]
    /\ inbox' = [inbox EXCEPT ![c] = <<>>]
    /\ answers' = [answers EXCEPT ![c] = <<>>]

\* reply to a client: nothing for a session that ended; a write that the
\* connection does not take before its deadline ends the session
Reply(c, f) ==
    \/ /\ open[c] /\ Len(answers[c]) < Capacity
       /\ answers' = [answers EXCEPT ![c] = Append(@, f)]
       /\ UNCHANGED <<open, clearing, cur, inbox>>
    \/ open[c] /\ Len(answers[c]) >= Capacity /\ Closes(c)
    \/ ~open[c] /\ UNCHANGED <<open, clearing, cur, inbox, answers>>

-----------------------------------------------------------------------------
(* Client.Request: one goroutine per connection.                           *)

Send(c, r) == inbox' = [inbox EXCEPT ![c] = Append(@, r)]

\* the first attempt
Begin(c, r) ==
    /\ ClientOf[r] = c /\ r \notin used
    /\ open[c] /\ cur[c] = NoReq /\ ~desync[c]
    /\ cur' = [cur EXCEPT ![c] = r]
    /\ used' = used \cup {r}
    /\ Send(c, r)
    /\ UNCHANGED <<open, desync, answers, hpc, pending, clearing, queued, wpc,
                   job, lease, found, faults>>

(* The deadline passes between two frames: the next attempt has the same   *)
(* id.  Bound: the hub has read the frame of the attempt before.           *)
Retry(c) ==
    /\ open[c] /\ cur[c] # NoReq
    /\ answers[c] = <<>> /\ inbox[c] = <<>>
    /\ Send(c, cur[c])
    /\ UNCHANGED <<open, client, answers, hpc, pending, clearing, queued, wpc,
                   job, lease, found, faults>>

(* A frame arrives: an err begins the next attempt, any other frame is     *)
(* what Request returns.                                                   *)
ReadFrame(c) ==
    /\ open[c] /\ cur[c] # NoReq /\ answers[c] # <<>>
    /\ answers' = [answers EXCEPT ![c] = Tail(@)]
    /\ \/ /\ Head(answers[c]) = Failed
          /\ Send(c, cur[c])
          /\ UNCHANGED client
       \/ /\ Head(answers[c]) # Failed
          /\ cur' = [cur EXCEPT ![c] = NoReq]
          /\ UNCHANGED <<inbox, desync, used>>
    /\ UNCHANGED <<open, hpc, pending, clearing, queued, wpc, job, lease, found,
                   faults>>

(* The deadline passes inside a frame, whose rest stays on the connection: *)
(* this call and every later one fail.                                     *)
ReadBreaks(c) ==
    /\ open[c] /\ cur[c] # NoReq /\ answers[c] # <<>>
    /\ answers' = [answers EXCEPT ![c] = Tail(@)]
    /\ desync' = [desync EXCEPT ![c] = TRUE]
    /\ cur' = [cur EXCEPT ![c] = NoReq]
    /\ UNCHANGED <<open, inbox, hpc, pending, clearing, queued, wpc, job, lease,
                   found, used, faults>>

(* The last attempt timed out or was answered with an err: ErrAbandoned,   *)
(* and the connection is used on.                                          *)
Abandon(c) ==
    /\ open[c] /\ cur[c] # NoReq
    /\ \/ answers[c] = <<>> /\ UNCHANGED answers
       \/ /\ answers[c] # <<>> /\ Head(answers[c]) = Failed
          /\ answers' = [answers EXCEPT ![c] = Tail(@)]
    /\ cur' = [cur EXCEPT ![c] = NoReq]
    /\ UNCHANGED <<open, desync, inbox, hpc, pending, clearing, queued, wpc,
                   job, lease, found, used, faults>>

-----------------------------------------------------------------------------
(* The handler of req frames, in the reader of the client's session.       *)

Due == {r \in Requests : pending[r] = "due"}

ReadReq(c) ==
    /\ open[c] /\ inbox[c] # <<>> /\ hpc[c].at = "read"
    /\ hpc' = [hpc EXCEPT ![c] = [at |-> "set", req |-> Head(inbox[c])]]
    /\ inbox' = [inbox EXCEPT ![c] = Tail(@)]
    /\ UNCHANGED <<open, clearing, client, answers, pending, queued, wpc, job,
                   lease, found, faults>>

(* expirePendingLocked drops what is due and the entry is set; that of an  *)
(* earlier attempt is replaced.  The session may have ended meanwhile.     *)
Register(c) ==
    /\ hpc[c].at = "set"
    /\ hpc' = [hpc EXCEPT ![c].at = "put"]
    /\ pending' = [r \in Requests |-> IF r = hpc[c].req THEN "live"
                                      ELSE IF r \in Due THEN "none"
                                      ELSE pending[r]]
    /\ UNCHANGED <<open, clearing, client, inbox, answers, queued, wpc, job,
                   lease, found, faults>>

\* Bus.Put: merged, delivered, or refused
PutReq(c) ==
    /\ hpc[c].at = "put"
    /\ LET r == hpc[c].req
       IN  \/ /\ Indexed(r)
              /\ hpc' = [hpc EXCEPT ![c] = NoHandler]
              /\ UNCHANGED <<queued, wpc, job>>
           \/ /\ ~Indexed(r) /\ (Waiting # {} \/ ~Full)
              /\ hpc' = [hpc EXCEPT ![c] = NoHandler]
              /\ Deliver(r)
           \/ /\ ~Indexed(r) /\ Waiting = {} /\ Full
              /\ hpc' = [hpc EXCEPT ![c].at = "drop"]
              /\ UNCHANGED <<queued, wpc, job>>
    /\ UNCHANGED <<open, client, inbox, answers, pending, clearing, lease,
                   found, faults>>

\* mutant: the caller is not told
DropSilently(c) ==
    /\ hpc[c].at = "drop"
    /\ pending' = [pending EXCEPT ![hpc[c].req] = "none"]
    /\ hpc' = [hpc EXCEPT ![c] = NoHandler]
    /\ UNCHANGED <<open, client, clearing, inbox, answers, queued, wpc, job,
                   lease, found, faults>>

\* the entry of this session under this id goes, be it of an earlier attempt
DropEntry(c) ==
    /\ hpc[c].at = "drop"
    /\ pending' = [pending EXCEPT ![hpc[c].req] = "none"]
    /\ hpc' = [hpc EXCEPT ![c] = NoHandler]
    /\ Reply(c, Failed)
    /\ UNCHANGED <<desync, used, queued, wpc, job, lease, found, faults>>

-----------------------------------------------------------------------------
(* A worker: Ready, the job, Rep, and again.                               *)

\* takeJob: Take pops a job or waits
Ready(w) ==
    /\ open[w] /\ wpc[w] = "idle"
    /\ \/ /\ QueueEmpty
          /\ wpc' = [wpc EXCEPT ![w] = "wait"]
          /\ UNCHANGED <<queued, job>>
       \/ \E r \in Requests :
             /\ queued[r] > 0
             /\ queued' = [queued EXCEPT ![r] = @ - 1]
             /\ job' = [job EXCEPT ![w] = r]
             /\ wpc' = [wpc EXCEPT ![w] = "taken"]
    /\ UNCHANGED <<open, client, inbox, answers, hpc, pending, clearing, lease,
                   found, faults>>

(* Hold, trackInflight, trackRepAck, and the job is written; a session     *)
(* that ended meanwhile leaves the lease behind.                           *)
HoldJob(w) ==
    /\ wpc[w] = "taken"
    /\ lease' = [lease EXCEPT ![w] = TRUE]
    /\ wpc' = [wpc EXCEPT ![w] = IF open[w] THEN "work" ELSE "gone"]
    /\ UNCHANGED <<open, client, inbox, answers, hpc, pending, clearing, queued,
                   job, found, faults>>

\* the context of a session that ended: Take is cancelled, a job goes back
CancelTake(w) ==
    /\ ~open[w]
    /\ \/ wpc[w] = "wait" /\ UNCHANGED queued
       \/ wpc[w] = "taken" /\ queued' = [queued EXCEPT ![job[w]] = @ + 1]
    /\ wpc' = [wpc EXCEPT ![w] = "gone"]
    /\ job' = [job EXCEPT ![w] = NoReq]
    /\ UNCHANGED <<open, client, inbox, answers, hpc, pending, clearing, lease,
                   found, faults>>

\* the worker has done the job and its rep frame is read: takeRepAck
ReadRep(w) ==
    /\ open[w] /\ wpc[w] = "work"
    /\ wpc' = [wpc EXCEPT ![w] = "ack"]
    /\ UNCHANGED <<open, client, inbox, answers, hpc, pending, clearing, queued,
                   job, lease, found, faults>>

\* claimInflight, false for a session that ended, and Bus.Ack, whose error is
\* ignored: the lease may have expired
AckJob(w) ==
    /\ wpc[w] = "ack"
    /\ wpc' = [wpc EXCEPT ![w] = "delete"]
    /\ lease' = [lease EXCEPT ![w] = @ /\ ~open[w]]
    /\ UNCHANGED <<open, client, inbox, answers, hpc, pending, clearing, queued,
                   job, found, faults>>

DeleteEntry(w) ==
    /\ wpc[w] = "delete"
    /\ found' = [found EXCEPT ![w] = pending[job[w]] # "none"]
    /\ pending' = [pending EXCEPT ![job[w]] = "none"]
    /\ wpc' = [wpc EXCEPT ![w] = "reply"]
    /\ UNCHANGED <<open, client, inbox, answers, hpc, clearing, queued, job,
                   lease, faults>>

\* The worker is told ok first; if that fails, or if there was no entry, there is
\* no reply to the requester, whose id is the one it chose.
ReplyRep(w) ==
    /\ wpc[w] = "reply"
    /\ \/ open[w] /\ found[w] /\ Reply(ClientOf[job[w]], job[w])
       \/ ~(open[w] /\ found[w]) /\ UNCHANGED <<open, clearing, cur, inbox, answers>>
    /\ wpc' = [wpc EXCEPT ![w] = IF open[w] THEN "idle" ELSE "gone"]
    /\ job' = [job EXCEPT ![w] = IF lease[w] THEN @ ELSE NoReq]
    /\ found' = [found EXCEPT ![w] = FALSE]
    /\ UNCHANGED <<desync, used, hpc, pending, queued, lease, faults>>

-----------------------------------------------------------------------------
(* What fails.                                                             *)

\* the connection of a client ends
ClientEnds(c) ==
    /\ open[c] /\ faults < MaxFaults
    /\ faults' = faults + 1
    /\ Closes(c)
    /\ UNCHANGED <<desync, used, hpc, pending, queued, wpc, job, lease, found>>

\* that of a worker: it gets no job any more and does the one it has in vain
WorkerEnds(w) ==
    /\ open[w] /\ faults < MaxFaults
    /\ faults' = faults + 1
    /\ open' = [open EXCEPT ![w] = FALSE]
    /\ wpc' = [wpc EXCEPT ![w] = IF @ \in {"idle", "work"} THEN "gone" ELSE @]
    /\ UNCHANGED <<client, inbox, answers, hpc, pending, clearing, queued, job,
                   lease, found>>

\* close's last step: clearPending
ClearPending(c) ==
    /\ c \in clearing
    /\ clearing' = clearing \ {c}
    /\ pending' = [r \in Requests |-> IF ClientOf[r] = c THEN "none" ELSE pending[r]]
    /\ UNCHANGED <<open, client, inbox, answers, hpc, queued, wpc, job, lease,
                   found, faults>>

\* mutant: close does not nack and nothing sweeps
LeaseStays(w) == FALSE /\ UNCHANGED vars

\* the lease of a session that ended is nacked or expires
LeaseReturns(w) ==
    /\ ~open[w] /\ lease[w]
    /\ lease' = [lease EXCEPT ![w] = FALSE]
    /\ Deliver(job[w])
    /\ UNCHANGED <<open, client, inbox, answers, hpc, pending, clearing, found,
                   faults>>

\* the lease of a slow worker expires under it
LeaseLapses(w) ==
    /\ open[w] /\ lease[w] /\ faults < MaxFaults
    /\ faults' = faults + 1
    /\ lease' = [lease EXCEPT ![w] = FALSE]
    /\ Deliver(job[w])
    /\ UNCHANGED <<open, client, inbox, answers, hpc, pending, clearing, found>>

\* PendingTTL passes over an entry
EntryElapses(r) ==
    /\ pending[r] = "live" /\ faults < MaxFaults
    /\ faults' = faults + 1
    /\ pending' = [pending EXCEPT ![r] = "due"]
    /\ UNCHANGED <<open, client, inbox, answers, hpc, clearing, queued, wpc,
                   job, lease, found>>

-----------------------------------------------------------------------------
HandlerStep(c) == ReadReq(c) \/ Register(c) \/ PutReq(c) \/ DropEntry(c)

WorkerStep(w) ==
    \/ Ready(w) \/ HoldJob(w) \/ CancelTake(w)
    \/ ReadRep(w) \/ AckJob(w) \/ DeleteEntry(w) \/ ReplyRep(w)

ClientStep(c) ==
    \/ \E r \in Requests : Begin(c, r)
    \/ Retry(c) \/ ReadFrame(c) \/ ReadBreaks(c) \/ Abandon(c)

Next ==
    \/ \E c \in Clients :
          ClientStep(c) \/ HandlerStep(c) \/ ClientEnds(c) \/ ClearPending(c)
    \/ \E w \in Workers :
          WorkerStep(w) \/ WorkerEnds(w) \/ LeaseReturns(w) \/ LeaseLapses(w)
    \/ \E r \in Requests : EntryElapses(r)

Spec == Init /\ [][Next]_vars

(* Goroutines run; close reaches its end; a lease nobody renews expires;   *)
(* a waiting client's deadline passes and it reads what there is; workers  *)
(* that are alive loop.  Nothing makes a client begin or abandon a         *)
(* request, and nothing makes anything fail.                               *)
Fairness ==
    /\ \A c \in Clients : /\ WF_vars(Retry(c)) /\ WF_vars(ReadFrame(c))
                          /\ WF_vars(HandlerStep(c)) /\ WF_vars(ClearPending(c))
    /\ \A w \in Workers : WF_vars(WorkerStep(w)) /\ WF_vars(LeaseReturns(w))

FairSpec == Spec /\ Fairness

-----------------------------------------------------------------------------
(* Properties.                                                             *)

\* Every variable has its type, and a worker that was given a job has one.
ReqRepTypeOK ==
    /\ open \in [Clients \cup Workers -> BOOLEAN]
    /\ cur \in [Clients -> MaybeReq]
    /\ desync \in [Clients -> BOOLEAN]
    /\ inbox \in [Clients -> Seq(Requests)]
    /\ answers \in [Clients -> Seq(Requests \cup {Failed})]
    /\ hpc \in [Clients -> [at : HandlerPCs, req : MaybeReq]]
    /\ pending \in [Requests -> {"none", "live", "due"}]
    /\ queued \in [Requests -> Nat]
    /\ wpc \in [Workers -> WorkerPCs]
    /\ job \in [Workers -> MaybeReq]
    /\ lease \in [Workers -> BOOLEAN]
    /\ clearing \subseteq Clients
    /\ found \in [Workers -> BOOLEAN]
    /\ used \subseteq Requests
    /\ faults \in 0..MaxFaults
    /\ \A w \in Workers :
          wpc[w] \notin {"idle", "wait", "gone"} \/ lease[w] => job[w] # NoReq

\* A job of this request is queued, or will be done or given back.
HasJob(r) ==
    \/ queued[r] > 0
    \/ \E w \in Workers :
          /\ job[w] = r
          /\ wpc[w] \in {"taken", "work", "ack", "delete"} \/ lease[w]

\* A request in the table has a job whose worker will look it up, so an entry is
\* never left waiting for nobody: not by a retry that is merged into the job of a
\* worker that is just replying, dying or losing its lease (the comment on Put in
\* the handler of req).
PendingHasJob ==
    \A r \in Requests :
        pending[r] # "none" =>
            \/ HasJob(r)
            \/ hpc[ClientOf[r]].req = r /\ hpc[ClientOf[r]].at \in {"put", "drop"}

\* As long as nothing fails, a client that waits, and whose attempts the hub has
\* all handled, has an entry or an answer under way: no interleaving of attempts
\* with replies of several workers removes an entry and answers nothing.
WaiterRegistered ==
    \A c \in Clients :
        LET r == cur[c]
        IN  faults = 0 /\ r # NoReq /\ inbox[c] = <<>> /\ answers[c] = <<>>
              /\ hpc[c].at = "read"
            => \/ pending[r] # "none"
               \/ \E w \in Workers : job[w] = r /\ found[w] /\ wpc[w] = "reply"

\* A cancelled Take put a job into the queue beside a worker that waits, and woke
\* nobody (StrandedOnlyByCancel of Mailbox).
Stranded == ~QueueEmpty /\ Waiting # {}

\* "A retry re-enqueues if the worker holding the request died": a client that
\* goes on retrying is answered, whichever worker, lease, entry or answer was
\* lost, as long as one worker is left and no job is stranded.
RetryRecovers ==
    \A r \in Requests : cur[ClientOf[r]] = r ~> (cur[ClientOf[r]] # r \/ Stranded)

\* "`req` / `rep` with a correlation `id`": what Request returns is the answer to
\* its request.
AnswerBelongs ==
    [][\A c \in Clients : ReadFrame(c) /\ cur'[c] = NoReq => Head(answers[c]) = cur[c]]_vars
=============================================================================
