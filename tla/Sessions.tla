------------------------------- MODULE Sessions -------------------------------
(***************************************************************************)
(* The hub's sessions over one mailbox: hub.session of hub.go with its     *)
(* reader, the goroutines started by take, ready and reserve frames, and   *)
(* close.  A session's mutex and the bus's mutex are never held together   *)
(* by these handlers, so a handler is a sequence of steps, each one        *)
(* critical section, and any other goroutine may run in between.           *)
(*                                                                         *)
(* The bus is Mailbox: each step here is a step of it joined with what the *)
(* hub changes, or a step of the hub alone.  A goroutine of the hub is a   *)
(* taker of the mailbox.                                                   *)
(***************************************************************************)
EXTENDS Mailbox

CONSTANTS
    Conns,       \* the connections, one session each
    SessionOf,   \* the session whose frame starts each goroutine
    NoDelivery   \* no delivery id

ASSUME SessionsAssumption ==
    NoDelivery \notin Deliveries /\ SessionOf \in [Takers -> Conns]

VARIABLES
    open,      \* ~session.closed
    cancelled, \* the session's context is cancelled
    tracked,   \* session.inflight
    toNack,    \* the ids close() copied and has not nacked yet
    repAck,    \* session.repAck: message id -> delivery id
    reader,    \* what handle, in the session's reader, does next
    work,      \* what each job goroutine does next
    seen,      \* history: the delivery ids in frames written to the session
    taken      \* history: the deliveries whose jobs were written for a take

hubVars == <<open, cancelled, tracked, toNack, repAck, reader, work, seen, taken>>
allVars == <<vars, hubVars>>

Kinds == {"take", "ready", "reserve"}

WorkPCs == {"none",   \* no goroutine
            "take",   \* in Bus.Take, or in Hold or Requeue after it
            "track",  \* Hold returned: trackInflight
            "rep",    \* ready: trackRepAck
            "write",  \* reply with the job
            "claim",  \* take: claimInflight after the write
            "ack"}    \* take: Bus.Ack

Idle == [at |-> "none", kind |-> "take", d |-> NoDelivery, job |-> NoJob]

Reading == [at |-> "read", d |-> NoDelivery]

ReaderPCs == {"read",   \* waiting for the next frame
              "handle", \* has read a frame
              "drop",   \* ack and nack: dropInflight
              "claim",  \* rep: claimInflight
              "ack"}    \* rep: Bus.Ack

-----------------------------------------------------------------------------
InitSessions ==
    /\ Init
    /\ open = [s \in Conns |-> TRUE]
    /\ cancelled = [s \in Conns |-> FALSE]
    /\ tracked = [s \in Conns |-> {}]
    /\ toNack = [s \in Conns |-> {}]
    /\ repAck = [s \in Conns |-> [id \in Ids |-> NoDelivery]]
    /\ reader = [s \in Conns |-> Reading]
    /\ work = [t \in Takers |-> Idle]
    /\ seen = [s \in Conns |-> {}]
    /\ taken = [s \in Conns |-> {}]

At(t, at) == work[t].at = at
Goto(t, at) == work' = [work EXCEPT ![t].at = at]
Done(t) == work' = [work EXCEPT ![t] = Idle]

Handles(s) == reader[s].at = "handle"
Read(s) == reader' = [reader EXCEPT ![s] = Reading]

-----------------------------------------------------------------------------
(* The job goroutines: takeJob (take and ready) and reserveJob.            *)

(* handle starts the goroutine.                                            *)
JobFrame(t, kind) ==
    /\ Handles(SessionOf[t]) /\ At(t, "none")
    /\ Read(SessionOf[t])
    /\ work' = [work EXCEPT ![t] = [Idle EXCEPT !.at = "take", !.kind = kind]]
    /\ UNCHANGED <<vars, open, cancelled, tracked, toNack, repAck, seen, taken>>

(* Bus.Take; an error is replied and the goroutine ends.                   *)
JobTakes(t) ==
    /\ At(t, "take")
    /\ TakeChan(t)
    /\ IF pc'[t] = "idle" THEN Done(t) ELSE UNCHANGED work
    /\ UNCHANGED <<open, cancelled, tracked, toNack, repAck, reader, seen, taken>>

JobReceives(t) == Receive(t) /\ UNCHANGED hubVars

(* Take's error paths: the bus is closed, or the context is cancelled.     *)
JobTakeFails(t) ==
    /\ At(t, "take")
    /\ \/ closed /\ pc[t] = "idle" /\ UNCHANGED vars
       \/ TakeFails(t)
       \/ cancelled[SessionOf[t]] /\ Cancel(t)
    /\ Done(t)
    /\ UNCHANGED <<open, cancelled, tracked, toNack, repAck, reader, seen, taken>>

\* mutant: the delivery id is not kept
JobHoldsNoId(t, d) ==
    /\ Hold(t, d)
    /\ work' = [work EXCEPT ![t] = [@ EXCEPT !.at = "track", !.job = hand[t]]]
    /\ UNCHANGED <<open, cancelled, tracked, toNack, repAck, reader, seen, taken>>

JobHolds(t, d) ==
    /\ Hold(t, d)
    /\ work' = [work EXCEPT ![t] = [@ EXCEPT !.at = "track", !.d = d, !.job = hand[t]]]
    /\ UNCHANGED <<open, cancelled, tracked, toNack, repAck, reader, seen, taken>>

JobHoldFails(t) == HoldFails(t) /\ UNCHANGED hubVars

JobRequeues(t) ==
    /\ Requeue(t) /\ Done(t)
    /\ UNCHANGED <<open, cancelled, tracked, toNack, repAck, reader, seen, taken>>

\* mutant: no trackInflight
JobTracksNot(t) ==
    /\ At(t, "track")
    /\ Goto(t, IF work[t].kind = "ready" THEN "rep" ELSE "write")
    /\ UNCHANGED <<vars, open, cancelled, tracked, toNack, repAck, reader, seen, taken>>

(* trackInflight does not look whether the session is still open.          *)
JobTracks(t) ==
    /\ At(t, "track")
    /\ tracked' = [tracked EXCEPT ![SessionOf[t]] = @ \cup {work[t].d}]
    /\ Goto(t, IF work[t].kind = "ready" THEN "rep" ELSE "write")
    /\ UNCHANGED <<vars, open, cancelled, toNack, repAck, reader, seen, taken>>

JobTracksRep(t) ==
    /\ At(t, "rep")
    /\ repAck' = [repAck EXCEPT ![SessionOf[t]][IdOf[work[t].job]] = work[t].d]
    /\ Goto(t, "write")
    /\ UNCHANGED <<vars, open, cancelled, tracked, toNack, reader, seen, taken>>

(* reply writes the frame; only ready and reserve tell the delivery id.    *)
JobWrites(t) ==
    LET s == SessionOf[t]
    IN  /\ At(t, "write") /\ open[s]
        /\ \/ /\ work[t].kind = "take"
              /\ taken' = [taken EXCEPT ![s] = @ \cup {work[t].d}]
              /\ Goto(t, "claim")
              /\ UNCHANGED seen
           \/ /\ work[t].kind # "take"
              /\ seen' = [seen EXCEPT ![s] = @ \cup {work[t].d}]
              /\ Done(t)
              /\ UNCHANGED taken
        /\ UNCHANGED <<vars, open, cancelled, tracked, toNack, repAck, reader>>

ClosesAll(s) ==                                  \* mutant: everybody's ids
    /\ open' = [open EXCEPT ![s] = FALSE]
    /\ toNack' = [toNack EXCEPT ![s] = UNION {tracked[r] : r \in Conns}]
    /\ tracked' = [tracked EXCEPT ![s] = {}]

\* close() runs its critical section: the deliveries tracked at this moment
\* will be nacked.
Closes(s) ==
    /\ open' = [open EXCEPT ![s] = FALSE]
    /\ toNack' = [toNack EXCEPT ![s] = tracked[s]]
    /\ tracked' = [tracked EXCEPT ![s] = {}]

(* reply fails, because the session is closed or because the write fails   *)
(* and reply closes it.  In either case claimInflight finds it closed.     *)
JobWriteFails(t) ==
    LET s == SessionOf[t]
    IN  /\ At(t, "write")
        /\ \/ open[s] /\ Closes(s)
           \/ ~open[s] /\ UNCHANGED <<open, toNack, tracked>>
        /\ repAck' = IF work[t].kind = "reserve"
                     THEN repAck
                     ELSE [repAck EXCEPT ![s][IdOf[work[t].job]] = NoDelivery]
        /\ Done(t)
        /\ UNCHANGED <<vars, cancelled, reader, seen, taken>>

ClaimsClosed(s, d) ==                            \* mutant: closed or not
    tracked' = [tracked EXCEPT ![s] = @ \ {d}]

\* claimInflight: what it does to session.inflight when the session is open
Claims(s, d) == open[s] /\ tracked' = [tracked EXCEPT ![s] = @ \ {d}]

(* A take is acknowledged after the write, unless close() came first.      *)
JobClaims(t) ==
    LET s == SessionOf[t]
    IN  /\ At(t, "claim")
        /\ \/ Claims(s, work[t].d) /\ Goto(t, "ack")
           \/ ~open[s] /\ Done(t) /\ UNCHANGED tracked
        /\ UNCHANGED <<vars, open, cancelled, toNack, repAck, reader, seen, taken>>

\* Bus.Ack or Bus.Nack of an id: ErrNotFound if the lease is gone
AckIfLeased(d) == Ack(d) \/ (inflight[d] = NoJob /\ UNCHANGED vars)
NackIfLeased(d) == Nack(d) \/ (inflight[d] = NoJob /\ UNCHANGED vars)

JobNacks(t) ==                                   \* mutant: the failure path
    /\ At(t, "ack") /\ NackIfLeased(work[t].d) /\ Done(t)
    /\ UNCHANGED <<open, cancelled, tracked, toNack, repAck, reader, seen, taken>>

JobAcks(t) ==
    /\ At(t, "ack") /\ AckIfLeased(work[t].d) /\ Done(t)
    /\ UNCHANGED <<open, cancelled, tracked, toNack, repAck, reader, seen, taken>>

-----------------------------------------------------------------------------
(* The reader: run reads a frame, then handle has it.                      *)

\* The ids that clients can name in ack and nack frames: those that some client
\* was sent, and has passed on or kept for its next connection.  An id is 96
\* random bits (newID), so that nobody names another.
Known == UNION {seen[r] : r \in Conns}

ReadFrame(s) ==
    /\ reader[s].at = "read" /\ open[s] /\ ~cancelled[s]
    /\ reader' = [reader EXCEPT ![s].at = "handle"]
    /\ UNCHANGED <<vars, open, cancelled, tracked, toNack, repAck, work, seen, taken>>

(* A frame that touches neither leases nor goroutines: hello, ping, pong,  *)
(* a rep whose message was not delivered here under ready.                 *)
OtherFrame(s) ==
    /\ Handles(s) /\ Read(s)
    /\ UNCHANGED <<vars, open, cancelled, tracked, toNack, repAck, work, seen, taken>>

(* ack and nack: the bus first, then dropInflight; an error of the bus is  *)
(* replied and skips it.  Whose delivery it is is not asked: the lease of  *)
(* another session ends, and its list keeps the id.                        *)
LeaseFrameReplied(s, d) ==
    \/ /\ inflight[d] # NoJob /\ Saved
       /\ reader' = [reader EXCEPT ![s] = [at |-> "drop", d |-> d]]
    \/ /\ inflight[d] = NoJob \/ SaveFails
       /\ Read(s)

AckFrame(s, d) ==
    /\ Handles(s)
    /\ AckIfLeased(d)
    /\ LeaseFrameReplied(s, d)
    /\ UNCHANGED <<open, cancelled, tracked, toNack, repAck, work, seen, taken>>

NackFrame(s, d) ==
    /\ Handles(s)
    /\ NackIfLeased(d)
    /\ LeaseFrameReplied(s, d)
    /\ UNCHANGED <<open, cancelled, tracked, toNack, repAck, work, seen, taken>>

DropInflight(s) ==
    /\ reader[s].at = "drop"
    /\ tracked' = [tracked EXCEPT ![s] = @ \ {reader[s].d}]
    /\ Read(s)
    /\ UNCHANGED <<vars, open, cancelled, toNack, repAck, work, seen, taken>>

RepFrameKeeps(s, id) ==                          \* mutant: no delete
    LET d == repAck[s][id]
    IN  /\ Handles(s) /\ d # NoDelivery
        /\ reader' = [reader EXCEPT ![s] = [at |-> "claim", d |-> d]]
        /\ UNCHANGED <<vars, open, cancelled, tracked, toNack, repAck, work, seen, taken>>

(* rep: takeRepAck, then claimInflight, then Bus.Ack.                      *)
RepFrame(s, id) ==
    LET d == repAck[s][id]
    IN  /\ Handles(s) /\ d # NoDelivery
        /\ repAck' = [repAck EXCEPT ![s][id] = NoDelivery]
        /\ reader' = [reader EXCEPT ![s] = [at |-> "claim", d |-> d]]
        /\ UNCHANGED <<vars, open, cancelled, tracked, toNack, work, seen, taken>>

RepClaims(s) ==
    /\ reader[s].at = "claim"
    /\ \/ /\ Claims(s, reader[s].d)
          /\ reader' = [reader EXCEPT ![s].at = "ack"]
       \/ /\ ~open[s]
          /\ Read(s)
          /\ UNCHANGED tracked
    /\ UNCHANGED <<vars, open, cancelled, toNack, repAck, work, seen, taken>>

RepAcks(s) ==
    /\ reader[s].at = "ack"
    /\ AckIfLeased(reader[s].d)
    /\ Read(s)
    /\ UNCHANGED <<open, cancelled, tracked, toNack, repAck, work, seen, taken>>

-----------------------------------------------------------------------------
(* The end of a session.                                                   *)

(* close() is called: by heartbeat (the peer was silent, or a ping could   *)
(* not be written), by Hub.Close, or after the context was cancelled.      *)
CloseSession(s) ==
    /\ open[s] /\ Closes(s)
    /\ UNCHANGED <<vars, cancelled, repAck, reader, work, seen, taken>>

(* close() nacks the ids it copied, one after the other.                   *)
NackCopied(s, d) ==
    /\ d \in toNack[s]
    /\ NackIfLeased(d)
    /\ toNack' = [toNack EXCEPT ![s] = @ \ {d}]
    /\ UNCHANGED <<open, cancelled, tracked, repAck, reader, work, seen, taken>>

(* wire.Read fails, because the peer is gone or close() closed the         *)
(* connection, and run returns; or the context of ServeConn is cancelled.  *)
ContextDone(s) ==
    /\ ~cancelled[s]
    /\ cancelled' = [cancelled EXCEPT ![s] = TRUE]
    /\ UNCHANGED <<vars, open, tracked, toNack, repAck, reader, work, seen, taken>>

-----------------------------------------------------------------------------
(* The bus on its own: puts of clients, the sweeper, time, Hub.Close.      *)
BusStep ==
    /\ \/ \E j \in Jobs : Put(j)
       \/ \E d \in Deliveries : LeaseElapses(d)
       \/ ExpireLeases \/ Close
    /\ UNCHANGED hubVars

JobStep(t) ==
    \/ \E kind \in Kinds : JobFrame(t, kind)
    \/ JobTakes(t) \/ JobReceives(t) \/ JobTakeFails(t)
    \/ \E d \in Deliveries : JobHolds(t, d)
    \/ JobHoldFails(t) \/ JobRequeues(t)
    \/ JobTracks(t) \/ JobTracksRep(t)
    \/ JobWrites(t) \/ JobWriteFails(t)
    \/ JobClaims(t) \/ JobAcks(t)

ReaderStep(s) ==
    \/ \E d \in Known : AckFrame(s, d) \/ NackFrame(s, d)
    \/ \E id \in Ids : RepFrame(s, id)
    \/ ReadFrame(s) \/ OtherFrame(s)
    \/ DropInflight(s) \/ RepClaims(s) \/ RepAcks(s)

EndStep(s) ==
    CloseSession(s) \/ ContextDone(s) \/ \E d \in Deliveries : NackCopied(s, d)

NextSessions ==
    \/ BusStep
    \/ \E t \in Takers : JobStep(t)
    \/ \E s \in Conns : ReaderStep(s) \/ EndStep(s)

SessionsSpec == InitSessions /\ [][NextSessions]_allVars

(* Goroutines run; a closed connection ends its reader, and a cancelled    *)
(* context ends the session and the calls that wait on it.  The client     *)
(* need not send anything, and a lease need not elapse.                    *)
JobProceeds(t) ==
    \/ JobTakes(t) \/ JobReceives(t) \/ JobTakeFails(t)
    \/ \E d \in Deliveries : JobHolds(t, d)
    \/ JobHoldFails(t) \/ JobRequeues(t)
    \/ JobTracks(t) \/ JobTracksRep(t)
    \/ JobWrites(t) \/ JobWriteFails(t)
    \/ JobClaims(t) \/ JobAcks(t)

HandleProceeds(s) ==
    OtherFrame(s) \/ DropInflight(s) \/ RepClaims(s) \/ RepAcks(s)

SessionsFairness ==
    /\ \A t \in Takers : WF_allVars(JobProceeds(t))
    /\ \A s \in Conns : /\ WF_allVars(HandleProceeds(s))
                        /\ WF_allVars(~open[s] /\ ContextDone(s))
                        /\ WF_allVars(cancelled[s] /\ CloseSession(s))
    /\ \A s \in Conns, d \in Deliveries : WF_allVars(NackCopied(s, d))

FairSessionsSpec == SessionsSpec /\ SessionsFairness

-----------------------------------------------------------------------------
(* Properties.                                                             *)

\* Every variable of the hub has its type (struct session of hub.go).
SessionsTypeOK ==
    /\ open \in [Conns -> BOOLEAN] /\ cancelled \in [Conns -> BOOLEAN]
    /\ tracked \in [Conns -> SUBSET Deliveries]
    /\ toNack \in [Conns -> SUBSET Deliveries]
    /\ repAck \in [Conns -> [Ids -> Deliveries \cup {NoDelivery}]]
    /\ reader \in [Conns -> [at : ReaderPCs, d : Deliveries \cup {NoDelivery}]]
    /\ work \in [Takers -> [at : WorkPCs, kind : Kinds,
                            d : Deliveries \cup {NoDelivery}, job : Maybe]]
    /\ seen \in [Conns -> SUBSET Deliveries]
    /\ taken \in [Conns -> SUBSET Deliveries]

\* A goroutine has d and no session lists it: it was leased a moment ago, or
\* it is claimed and about to be acked.
InFlux(d) ==
    \/ \E t \in Takers : work[t].d = d /\ work[t].at \in {"track", "ack"}
    \/ \E s \in Conns : reader[s] = [at |-> "ack", d |-> d]

\* Every lease has one watcher, whoever has ended meanwhile: it is listed in
\* session.inflight of one session, or copied by one close() that will nack it,
\* or a goroutine is about to list it or to ack it (trackInflight,
\* claimInflight, dropInflight, close).  A delivery tracked after its session's
\* close() copied the list stays listed there and waits for its lease.
LeaseWatched ==
    \A d \in Deliveries : inflight[d] # NoJob =>
        Cardinality({s \in Conns : d \in tracked[s] \cup toNack[s]})
            = (IF InFlux(d) THEN 0 ELSE 1)

\* claimInflight does what it is for: a delivery that takeJob or the rep
\* handler is going to ack is not one that close() is going to nack.
ClaimExclusive ==
    \A s \in Conns : \A d \in toNack[s] :
        /\ \A t \in Takers : ~(work[t].d = d /\ At(t, "ack"))
        /\ \A r \in Conns : reader[r] # [at |-> "ack", d |-> d]

\* The handler of an ack or nack frame that names d has ended the lease, on
\* whatever session, and replies.
SettledByFrame(d) ==
    \E r \in Conns :
        /\ Handles(r)
        /\ \/ reader'[r] = [at |-> "drop", d |-> d]
           \/ SaveFails /\ reader'[r] = Reading

\* The lease of a delivery that the client of an open session was sent ends only
\* because it elapsed, by a rep for which this session claimed it, or by an ack or
\* nack that names it, of any client that knows the id (README: "the job stays
\* leased until acknowledged"): never by the rep, the take or the end of another
\* session, or by what a foreign ack left in the lists.
HolderKeepsLease ==
    [][\A s \in Conns : \A d \in seen[s] :
          open[s] /\ inflight[d] # NoJob /\ inflight'[d] = NoJob =>
              \/ d \in elapsed
              \/ reader[s] = [at |-> "ack", d |-> d]
              \/ SettledByFrame(d)]_allVars

\* What a rep will ack: an entry of repAck whose delivery is leased is under the id
\* of the job leased, its session lists the delivery, and no earlier rep has it.
\* So neither a redelivery under ready that overwrites the entry, nor a rep
\* for an earlier delivery of the message, nor one that is repeated, makes a rep
\* settle the job of another message or of another session.
RepNamesLease ==
    \A s \in Conns, id \in Ids :
        LET d == repAck[s][id]
        IN  d # NoDelivery /\ inflight[d] # NoJob =>
                /\ IdOf[inflight[d]] = id
                /\ d \in tracked[s] \cup toNack[s]
                /\ ~(reader[s].at \in {"claim", "ack"} /\ reader[s].d = d)

\* A job that was written for a take is acknowledged and leaves the bus, with two
\* exceptions: its lease elapses before the ack, or its session's close() copied
\* the delivery between the write and claimInflight, and nacks it.
TakenReturnsOnlyByClose ==
    [][\A s \in Conns : \A d \in taken[s] :
          inflight[d] # NoJob /\ inflight'[d] = NoJob =>
              \/ inflight[d] \notin Located'
              \/ d \in elapsed
              \/ d \in toNack[s]]_allVars

\* A worker that dies holding a delivery it was sent gives it back without
\* waiting for the lease to elapse (README: "a worker that dies holding one
\* gives it back"; session.close nacks what it copied).
DeadWorkerGivesBack ==
    \A s \in Conns, d \in Deliveries :
        (~open[s] /\ d \in seen[s] /\ inflight[d] # NoJob) ~> (inflight[d] = NoJob)

=============================================================================
