---------------------------- MODULE ReqRepProofs ----------------------------
(* Proofs about ReqRep, for every number of requests, clients and workers: its *)
(* types, that a request in the table has a job, and that a client which waits *)
(* has an entry or an answer under way.                                        *)
EXTENDS ReqRep, Integers, TLAPS, SequenceTheorems

-----------------------------------------------------------------------------
(* The inductive invariant.                                                *)

\* A lease is that of a worker at work, or of one whose session ended.
Placed ==
    \A w \in Workers :
        /\ lease[w] => \/ wpc[w] \in {"work", "ack"}
                       \/ ~open[w] /\ wpc[w] \in {"delete", "reply", "gone"}
        /\ wpc[w] = "work" => open[w]

\* What a client sends, waits for and has handled is its own; one that waits has
\* its session.
BelongsTo(c) ==
    /\ cur[c] # NoReq => open[c] /\ ClientOf[cur[c]] = c
    /\ \A i \in 1..Len(inbox[c]) : ClientOf[inbox[c][i]] = c
    /\ hpc[c].at # "read" => hpc[c].req # NoReq /\ ClientOf[hpc[c].req] = c
Belongs == \A c \in Clients : BelongsTo(c)

\* A job of this request is queued, delivered under a lease that holds, or acked by
\* a worker that looks the entry up next.  A worker whose lease was lost does not
\* count, as its session may end before its rep: its job was delivered again.
Kept(r) ==
    \/ queued[r] > 0
    \/ \E w \in Workers : job[w] = r /\ (wpc[w] \in {"taken", "delete"} \/ lease[w])

Handled(r) ==
    hpc[ClientOf[r]].req = r /\ hpc[ClientOf[r]].at \in {"put", "drop"}

Covered == \A r \in Requests : pending[r] # "none" => Kept(r) \/ Handled(r)

\* While nothing has failed the workers have their sessions and no entry is old.
Calm ==
    /\ \A c \in clearing : ~open[c]
    /\ faults = 0 => /\ \A w \in Workers : open[w]
                     /\ \A r \in Requests : pending[r] # "due"

\* The last attempt that a client wrote is the one it waits for.
LatestOf(c) ==
    cur[c] # NoReq =>
        /\ inbox[c] # <<>> => inbox[c][Len(inbox[c])] = cur[c]
        /\ inbox[c] = <<>> /\ hpc[c].at # "read" => hpc[c].req = cur[c]
Latest == \A c \in Clients : LatestOf(c)

\* A worker found the entry and has the answer to write.
Answering(r) == \E w \in Workers : job[w] = r /\ found[w] /\ wpc[w] = "reply"

Awaited(c) ==
    \/ inbox[c] # <<>> \/ answers[c] # <<>>
    \/ hpc[c].at \in {"set", "drop"}
    \/ pending[cur[c]] # "none"
    \/ Answering(cur[c])

Answered == \A c \in Clients : faults = 0 /\ cur[c] # NoReq => Awaited(c)

TableInv ==
    ReqRepTypeOK /\ Placed /\ Belongs /\ Covered /\ Calm /\ Latest /\ Answered

-----------------------------------------------------------------------------
(* The types.                                                              *)

\* What a client's Tail and Append make of a connection.
LEMMA Frames ==
    ASSUME NEW S, NEW s \in Seq(S)
    PROVE  /\ \A e \in S : Append(s, e) \in Seq(S) /\ Append(s, e) # <<>>
           /\ s # <<>> => Tail(s) \in Seq(S) /\ Head(s) \in S
           /\ <<>> \in Seq(S)
BY AppendProperties, HeadTailProperties, EmptySeq

\* A job that is delivered goes to a taker that waits, or into the queue.
LEMMA Delivered ==
    ASSUME NEW r \in Requests, Deliver(r)
    PROVE  \/ \E u \in Workers : /\ wpc[u] = "wait" /\ wpc' = [wpc EXCEPT ![u] = "taken"]
                                 /\ job' = [job EXCEPT ![u] = r] /\ queued' = queued
           \/ queued' = [queued EXCEPT ![r] = @ + 1] /\ wpc' = wpc /\ job' = job
BY DEF Deliver, Waiting

\* Then a worker that was given a job still has one.
LEMMA DeliverTypes ==
    ASSUME ReqRepTypeOK, NEW r \in Requests, Deliver(r),
           lease' \in [Workers -> BOOLEAN], \A w \in Workers : lease'[w] => lease[w]
    PROVE  /\ queued' \in [Requests -> Nat] /\ wpc' \in [Workers -> WorkerPCs]
           /\ job' \in [Workers -> MaybeReq]
           /\ \A w \in Workers :
                 wpc'[w] \notin {"idle", "wait", "gone"} \/ lease'[w] => job'[w] # NoReq
<1> USE DEF ReqRepTypeOK
<1>1. CASE queued' = [queued EXCEPT ![r] = @ + 1] /\ wpc' = wpc /\ job' = job
  BY <1>1
<1>2. ASSUME NEW u \in Workers, wpc' = [wpc EXCEPT ![u] = "taken"],
             job' = [job EXCEPT ![u] = r], queued' = queued
      PROVE  /\ queued' \in [Requests -> Nat] /\ wpc' \in [Workers -> WorkerPCs]
             /\ job' \in [Workers -> MaybeReq]
             /\ \A w \in Workers :
                   wpc'[w] \notin {"idle", "wait", "gone"} \/ lease'[w] => job'[w] # NoReq
  <2>1. wpc' \in [Workers -> WorkerPCs] /\ job' \in [Workers -> MaybeReq]
    BY <1>2 DEF WorkerPCs, MaybeReq
  <2>2. ASSUME NEW w \in Workers, wpc'[w] \notin {"idle", "wait", "gone"} \/ lease'[w]
        PROVE  job'[w] # NoReq
    <3>1. CASE w = u
      BY <1>2, <3>1, RequestsAssumption
    <3>2. CASE w # u
      BY <1>2, <2>2, <3>2
    <3> QED BY <3>1, <3>2
  <2> QED BY <1>2, <2>1, <2>2
<1> QED BY <1>1, <1>2, Delivered

\* A reply to a client leaves the types of its session.
LEMMA ReplyTypes ==
    ASSUME ReqRepTypeOK, NEW c \in Clients, NEW f \in Requests \cup {Failed}, Reply(c, f)
    PROVE  /\ open' \in [Clients \cup Workers -> BOOLEAN] /\ cur' \in [Clients -> MaybeReq]
           /\ inbox' \in [Clients -> Seq(Requests)]
           /\ answers' \in [Clients -> Seq(Requests \cup {Failed})]
           /\ clearing' \subseteq Clients
<1> USE DEF ReqRepTypeOK
<1>1. CASE answers' = [answers EXCEPT ![c] = Append(@, f)]
           /\ UNCHANGED <<open, clearing, cur, inbox>>
  <2>1. Append(answers[c], f) \in Seq(Requests \cup {Failed})
    BY Frames
  <2> QED BY <1>1, <2>1
<1>2. CASE Closes(c)
  BY <1>2, Frames DEF Closes, MaybeReq
<1>3. CASE UNCHANGED <<open, clearing, cur, inbox, answers>>
  BY <1>3
<1> QED BY <1>1, <1>2, <1>3 DEF Reply

\* Every step.
LEMMA StepTypes == ASSUME ReqRepTypeOK, Placed, Belongs, [Next]_vars PROVE ReqRepTypeOK'
<1> USE DEF ReqRepTypeOK, client, MaybeReq
<1>1. ASSUME NEW c \in Clients, NEW r \in Requests, Begin(c, r) PROVE ReqRepTypeOK'
  BY <1>1 DEF Begin, Send
<1>2. ASSUME NEW c \in Clients, Retry(c) PROVE ReqRepTypeOK'
  <2>1. Append(inbox[c], cur[c]) \in Seq(Requests)
    BY <1>2, Frames DEF Retry
  <2> QED BY <1>2, <2>1 DEF Retry, Send
<1>3. ASSUME NEW c \in Clients, ReadFrame(c) PROVE ReqRepTypeOK'
  <2>1. Tail(answers[c]) \in Seq(Requests \cup {Failed})
    BY <1>3, Frames DEF ReadFrame
  <2>2. Append(inbox[c], cur[c]) \in Seq(Requests)
    BY <1>3, Frames DEF ReadFrame
  <2>3. /\ answers' = [answers EXCEPT ![c] = Tail(@)]
        /\ \/ inbox' = [inbox EXCEPT ![c] = Append(@, cur[c])] /\ UNCHANGED client
           \/ cur' = [cur EXCEPT ![c] = NoReq] /\ UNCHANGED <<inbox, desync, used>>
        /\ UNCHANGED <<open, hpc, pending, clearing, queued, wpc, job, lease, found, faults>>
    BY <1>3 DEF ReadFrame, Send
  <2> QED BY <2>1, <2>2, <2>3
<1>4. ASSUME NEW c \in Clients, ReadBreaks(c) PROVE ReqRepTypeOK'
  BY <1>4 DEF ReadBreaks
<1>5. ASSUME NEW c \in Clients, Abandon(c) PROVE ReqRepTypeOK'
  <2>1. answers[c] # <<>> => Tail(answers[c]) \in Seq(Requests \cup {Failed})
    BY Frames
  <2>2. /\ \/ answers' = answers
           \/ answers[c] # <<>> /\ answers' = [answers EXCEPT ![c] = Tail(@)]
        /\ cur' = [cur EXCEPT ![c] = NoReq]
        /\ UNCHANGED <<open, desync, inbox, hpc, pending, clearing, queued, wpc,
                       job, lease, found, used, faults>>
    BY <1>5 DEF Abandon
  <2> QED BY <2>1, <2>2
<1>6. ASSUME NEW c \in Clients, ReadReq(c) PROVE ReqRepTypeOK'
  BY <1>6 DEF ReadReq, HandlerPCs
<1>7. ASSUME NEW c \in Clients, Register(c) PROVE ReqRepTypeOK'
  BY <1>7 DEF Register, HandlerPCs
<1>8. ASSUME NEW c \in Clients, PutReq(c) PROVE ReqRepTypeOK'
  <2>1. hpc[c].req \in Requests
    BY <1>8 DEF PutReq, Belongs, BelongsTo
  <2>2. /\ hpc' = [hpc EXCEPT ![c] = NoHandler] \/ hpc' = [hpc EXCEPT ![c].at = "drop"]
        /\ Deliver(hpc[c].req) \/ UNCHANGED <<queued, wpc, job>>
        /\ UNCHANGED <<open, client, inbox, answers, pending, clearing, lease, found, faults>>
    BY <1>8 DEF PutReq
  <2>3. hpc' \in [Clients -> [at : HandlerPCs, req : MaybeReq]]
    <3>1. CASE hpc' = [hpc EXCEPT ![c] = NoHandler]
      BY <3>1 DEF HandlerPCs, NoHandler
    <3>2. CASE hpc' = [hpc EXCEPT ![c].at = "drop"]
      BY <3>2 DEF HandlerPCs
    <3> QED BY <2>2, <3>1, <3>2
  <2>4. /\ queued' \in [Requests -> Nat] /\ wpc' \in [Workers -> WorkerPCs]
        /\ job' \in [Workers -> MaybeReq]
        /\ \A w \in Workers :
              wpc'[w] \notin {"idle", "wait", "gone"} \/ lease'[w] => job'[w] # NoReq
    <3>1. CASE Deliver(hpc[c].req)
      BY <2>1, <2>2, <3>1, DeliverTypes
    <3>2. CASE UNCHANGED <<queued, wpc, job>>
      BY <2>2, <3>2
    <3> QED BY <2>2, <3>1, <3>2
  <2> QED BY <2>2, <2>3, <2>4
<1>9. ASSUME NEW c \in Clients, DropEntry(c) PROVE ReqRepTypeOK'
  <2>1. /\ hpc[c].req \in Requests /\ Reply(c, Failed) /\ hpc' = [hpc EXCEPT ![c] = NoHandler]
        /\ pending' = [pending EXCEPT ![hpc[c].req] = "none"]
        /\ UNCHANGED <<desync, used, queued, wpc, job, lease, found, faults>>
    BY <1>9 DEF DropEntry, Belongs, BelongsTo
  <2>2. hpc' \in [Clients -> [at : HandlerPCs, req : MaybeReq]]
    BY <2>1 DEF HandlerPCs, NoHandler
  <2>3. pending' \in [Requests -> {"none", "live", "due"}]
    BY <2>1
  <2>4. /\ open' \in [Clients \cup Workers -> BOOLEAN] /\ cur' \in [Clients -> MaybeReq]
        /\ inbox' \in [Clients -> Seq(Requests)]
        /\ answers' \in [Clients -> Seq(Requests \cup {Failed})]
        /\ clearing' \subseteq Clients
    BY <2>1, ReplyTypes
  <2> QED BY <2>1, <2>2, <2>3, <2>4
<1>10. ASSUME NEW w \in Workers, Ready(w) PROVE ReqRepTypeOK'
  <2>1. /\ \/ wpc' = [wpc EXCEPT ![w] = "wait"] /\ UNCHANGED <<queued, job>>
           \/ \E r \in Requests : /\ queued[r] > 0 /\ queued' = [queued EXCEPT ![r] = @ - 1]
                                 /\ job' = [job EXCEPT ![w] = r]
                                 /\ wpc' = [wpc EXCEPT ![w] = "taken"]
        /\ UNCHANGED <<open, client, inbox, answers, hpc, pending, clearing, lease,
                       found, faults>>
    BY <1>10 DEF Ready
  <2>2. CASE wpc' = [wpc EXCEPT ![w] = "wait"] /\ UNCHANGED <<queued, job>>
    BY <2>1, <2>2 DEF WorkerPCs
  <2>3. ASSUME NEW r \in Requests, queued[r] > 0, queued' = [queued EXCEPT ![r] = @ - 1],
               job' = [job EXCEPT ![w] = r], wpc' = [wpc EXCEPT ![w] = "taken"]
        PROVE  ReqRepTypeOK'
    <3>1. queued' \in [Requests -> Nat]
      BY <2>3
    <3>2. wpc' \in [Workers -> WorkerPCs] /\ job' \in [Workers -> MaybeReq]
      BY <2>3 DEF WorkerPCs
    <3>3. ASSUME NEW u \in Workers, wpc'[u] \notin {"idle", "wait", "gone"} \/ lease'[u]
          PROVE  job'[u] # NoReq
      BY <2>1, <2>3, <3>3, RequestsAssumption
    <3> QED BY <2>1, <3>1, <3>2, <3>3
  <2> QED BY <2>1, <2>2, <2>3
<1>11. ASSUME NEW w \in Workers, HoldJob(w) PROVE ReqRepTypeOK'
  BY <1>11 DEF HoldJob, WorkerPCs
<1>12. ASSUME NEW w \in Workers, CancelTake(w) PROVE ReqRepTypeOK'
  <2>1. /\ wpc' = [wpc EXCEPT ![w] = "gone"] /\ job' = [job EXCEPT ![w] = NoReq]
        /\ ~lease[w]
        /\ \/ UNCHANGED queued
           \/ job[w] \in Requests /\ queued' = [queued EXCEPT ![job[w]] = @ + 1]
        /\ UNCHANGED <<open, client, inbox, answers, hpc, pending, clearing, lease,
                       found, faults>>
    BY <1>12 DEF CancelTake, Placed
  <2>2. queued' \in [Requests -> Nat]
    BY <2>1
  <2>3. wpc' \in [Workers -> WorkerPCs] /\ job' \in [Workers -> MaybeReq]
    BY <2>1 DEF WorkerPCs
  <2>4. ASSUME NEW u \in Workers, wpc'[u] \notin {"idle", "wait", "gone"} \/ lease'[u]
        PROVE  job'[u] # NoReq
    BY <2>1, <2>4
  <2> QED BY <2>1, <2>2, <2>3, <2>4
<1>13. ASSUME NEW w \in Workers, ReadRep(w) PROVE ReqRepTypeOK'
  BY <1>13 DEF ReadRep, WorkerPCs
<1>14. ASSUME NEW w \in Workers, AckJob(w) PROVE ReqRepTypeOK'
  BY <1>14 DEF AckJob, WorkerPCs
<1>15. ASSUME NEW w \in Workers, DeleteEntry(w) PROVE ReqRepTypeOK'
  BY <1>15 DEF DeleteEntry, WorkerPCs
<1>16. ASSUME NEW w \in Workers, ReplyRep(w) PROVE ReqRepTypeOK'
  <2>1. /\ \/ Reply(ClientOf[job[w]], job[w])
           \/ UNCHANGED <<open, clearing, cur, inbox, answers>>
        /\ wpc' = [wpc EXCEPT ![w] = IF open[w] THEN "idle" ELSE "gone"]
        /\ job' = [job EXCEPT ![w] = IF lease[w] THEN @ ELSE NoReq]
        /\ found' = [found EXCEPT ![w] = FALSE]
        /\ UNCHANGED <<desync, used, hpc, pending, queued, lease, faults>>
    BY <1>16 DEF ReplyRep
  <2>2. job[w] \in Requests /\ ClientOf[job[w]] \in Clients
    BY <1>16, RequestsAssumption DEF ReplyRep
  <2>3. /\ open' \in [Clients \cup Workers -> BOOLEAN] /\ cur' \in [Clients -> MaybeReq]
        /\ inbox' \in [Clients -> Seq(Requests)]
        /\ answers' \in [Clients -> Seq(Requests \cup {Failed})]
        /\ clearing' \subseteq Clients
    <3>1. CASE Reply(ClientOf[job[w]], job[w])
      BY <2>2, <3>1, ReplyTypes
    <3>2. CASE UNCHANGED <<open, clearing, cur, inbox, answers>>
      BY <3>2
    <3> QED BY <2>1, <3>1, <3>2
  <2>4. wpc' \in [Workers -> WorkerPCs] /\ job' \in [Workers -> MaybeReq]
        /\ found' \in [Workers -> BOOLEAN]
    BY <2>1 DEF WorkerPCs
  <2>5. ASSUME NEW u \in Workers, wpc'[u] \notin {"idle", "wait", "gone"} \/ lease'[u]
        PROVE  job'[u] # NoReq
    BY <2>1, <2>5
  <2> QED BY <2>1, <2>3, <2>4, <2>5
<1>17. ASSUME NEW c \in Clients, ClientEnds(c) PROVE ReqRepTypeOK'
  BY <1>17, BoundsAssumption DEF ClientEnds, Closes
<1>18. ASSUME NEW w \in Workers, WorkerEnds(w) PROVE ReqRepTypeOK'
  BY <1>18, BoundsAssumption DEF WorkerEnds, WorkerPCs
<1>19. ASSUME NEW c \in Clients, ClearPending(c) PROVE ReqRepTypeOK'
  BY <1>19 DEF ClearPending
<1>20. ASSUME NEW w \in Workers, LeaseReturns(w) PROVE ReqRepTypeOK'
  <2>1. /\ job[w] \in Requests /\ lease' = [lease EXCEPT ![w] = FALSE] /\ Deliver(job[w])
        /\ UNCHANGED <<open, client, inbox, answers, hpc, pending, clearing, found, faults>>
    BY <1>20 DEF LeaseReturns
  <2>2. lease' \in [Workers -> BOOLEAN] /\ \A u \in Workers : lease'[u] => lease[u]
    BY <2>1
  <2> QED BY <2>1, <2>2, DeliverTypes
<1>21. ASSUME NEW w \in Workers, LeaseLapses(w) PROVE ReqRepTypeOK'
  <2>1. /\ job[w] \in Requests /\ lease' = [lease EXCEPT ![w] = FALSE] /\ Deliver(job[w])
        /\ faults < MaxFaults /\ faults' = faults + 1
        /\ UNCHANGED <<open, client, inbox, answers, hpc, pending, clearing, found>>
    BY <1>21 DEF LeaseLapses
  <2>2. lease' \in [Workers -> BOOLEAN] /\ \A u \in Workers : lease'[u] => lease[u]
    BY <2>1
  <2>3. faults' \in 0..MaxFaults
    BY <2>1, BoundsAssumption
  <2> QED BY <2>1, <2>2, <2>3, DeliverTypes
<1>22. ASSUME NEW r \in Requests, EntryElapses(r) PROVE ReqRepTypeOK'
  BY <1>22, BoundsAssumption DEF EntryElapses
<1>23. CASE UNCHANGED vars
  BY <1>23 DEF vars
<1> QED BY <1>1, <1>2, <1>3, <1>4, <1>5, <1>6, <1>7, <1>8, <1>9, <1>10, <1>11, <1>12,
           <1>13, <1>14, <1>15, <1>16, <1>17, <1>18, <1>19, <1>20, <1>21, <1>22, <1>23
        DEF Next, ClientStep, HandlerStep, WorkerStep

-----------------------------------------------------------------------------
(* The workers and the clients.                                            *)

\* A worker's rep is answered to one client, or to nobody; that may end the client's
\* session.
LEMMA RepliesTo ==
    ASSUME ReqRepTypeOK, NEW w \in Workers, ReplyRep(w)
    PROVE  /\ job[w] \in Requests /\ ClientOf[job[w]] \in Clients
           /\ \/ \E c \in Clients : Closes(c)
              \/ UNCHANGED <<open, cur, inbox, clearing>>
<1>1. wpc[w] = "reply" /\ job[w] \in MaybeReq /\ (wpc[w] = "reply" => job[w] # NoReq)
  BY DEF ReplyRep, ReqRepTypeOK
<1>2. job[w] \in Requests /\ ClientOf[job[w]] \in Clients
  BY <1>1, RequestsAssumption DEF MaybeReq
<1>3. \/ Reply(ClientOf[job[w]], job[w])
      \/ UNCHANGED <<open, cur, inbox, clearing>>
  BY DEF ReplyRep
<1>4. \/ Closes(ClientOf[job[w]])
      \/ UNCHANGED <<open, cur, inbox, clearing>>
  BY <1>3 DEF Reply
<1> QED BY <1>2, <1>4

\* Every step.
LEMMA StepPlaced == ASSUME ReqRepTypeOK, Placed, [Next]_vars PROVE Placed'
<1> USE DEF Placed
<1>1. ASSUME UNCHANGED <<wpc, lease>>, \A w \in Workers : open'[w] = open[w] PROVE Placed'
  BY <1>1
<1>2. ASSUME NEW r \in Requests, Deliver(r), \A w \in Workers : open'[w] = open[w],
             \A w \in Workers : lease'[w] => lease[w]
      PROVE  Placed'
  BY <1>2, Delivered DEF ReqRepTypeOK
<1>3. ASSUME NEW c \in Clients, ClientStep(c) \/ HandlerStep(c) \/ ClientEnds(c) \/ ClearPending(c)
      PROVE  \A w \in Workers : open'[w] = open[w]
  BY <1>3, SessionsAssumption
     DEF ClientStep, Begin, Retry, ReadFrame, ReadBreaks, Abandon, HandlerStep, ReadReq,
         Register, PutReq, DropEntry, ClientEnds, ClearPending, Reply, Closes, ReqRepTypeOK
<1>4. ASSUME NEW c \in Clients, ClientStep(c) \/ HandlerStep(c) \/ ClientEnds(c) \/ ClearPending(c)
      PROVE  Placed'
  <2>1. lease' = lease
    BY <1>4 DEF ClientStep, Begin, Retry, ReadFrame, ReadBreaks, Abandon, HandlerStep, ReadReq,
                Register, PutReq, DropEntry, ClientEnds, ClearPending
  <2>2. wpc' = wpc \/ \E u \in Workers : wpc[u] = "wait" /\ wpc' = [wpc EXCEPT ![u] = "taken"]
    BY <1>4 DEF ClientStep, Begin, Retry, ReadFrame, ReadBreaks, Abandon, HandlerStep, ReadReq,
                Register, PutReq, Deliver, Waiting, DropEntry, ClientEnds, ClearPending
  <2> QED BY <1>3, <1>4, <2>1, <2>2 DEF ReqRepTypeOK
<1>5. ASSUME NEW w \in Workers, WorkerStep(w) PROVE Placed'
  <2>1. CASE Ready(w) \/ CancelTake(w) \/ ReadRep(w) \/ DeleteEntry(w)
    BY <1>5, <2>1 DEF Ready, CancelTake, ReadRep, DeleteEntry, ReqRepTypeOK
  <2>2. CASE HoldJob(w)
    BY <2>2 DEF HoldJob, ReqRepTypeOK
  <2>3. CASE AckJob(w)
    BY <2>3 DEF AckJob, ReqRepTypeOK
  <2>4. CASE ReplyRep(w)
    <3>1. /\ wpc[w] = "reply" /\ wpc' = [wpc EXCEPT ![w] = IF open[w] THEN "idle" ELSE "gone"]
          /\ lease' = lease
      BY <2>4 DEF ReplyRep
    <3>2. \A u \in Workers : open'[u] = open[u]
      <4>1. CASE \E c \in Clients : Closes(c)
        <5>1. PICK c \in Clients : open' = [open EXCEPT ![c] = FALSE]
          BY <4>1 DEF Closes
        <5>2. \A u \in Workers : u # c
          BY SessionsAssumption
        <5> QED BY <5>1, <5>2 DEF ReqRepTypeOK
      <4>2. CASE open' = open
        BY <4>2
      <4> QED BY <2>4, <4>1, <4>2, RepliesTo
    <3> QED BY <3>1, <3>2 DEF ReqRepTypeOK
  <2> QED BY <1>5, <2>1, <2>2, <2>3, <2>4 DEF WorkerStep
<1>6. ASSUME NEW w \in Workers, WorkerEnds(w) PROVE Placed'
  BY <1>6 DEF WorkerEnds, ReqRepTypeOK
<1>7. ASSUME NEW w \in Workers, LeaseReturns(w) \/ LeaseLapses(w) PROVE Placed'
  <2>1. /\ job[w] \in Requests /\ Deliver(job[w]) /\ open' = open
        /\ lease' = [lease EXCEPT ![w] = FALSE]
    BY <1>7 DEF LeaseReturns, LeaseLapses, ReqRepTypeOK, MaybeReq
  <2> QED BY <1>2, <2>1 DEF ReqRepTypeOK
<1>8. CASE (\E r \in Requests : EntryElapses(r)) \/ UNCHANGED vars
  BY <1>1, <1>8 DEF EntryElapses, vars
<1> QED BY <1>4, <1>5, <1>6, <1>7, <1>8 DEF Next

\* What a step does to the sessions of the clients, when it is not the client's or
\* its handler's: nothing, or it ends one.
LEMMA OthersEnd ==
    ASSUME ReqRepTypeOK, [Next]_vars
    PROVE  \/ \E c \in Clients : ClientStep(c) \/ HandlerStep(c)
           \/ /\ UNCHANGED <<hpc, desync, used>>
              /\ \/ \E c \in Clients : Closes(c)
                 \/ UNCHANGED <<cur, inbox, clearing>> /\ \A c \in Clients : open'[c] = open[c]
                 \/ /\ UNCHANGED <<open, cur, inbox>>
                    /\ \E c \in clearing : clearing' = clearing \ {c}
<1>1. ASSUME NEW c \in Clients, ClientEnds(c) \/ ClearPending(c)
      PROVE  /\ UNCHANGED <<hpc, desync, used>>
             /\ \/ Closes(c)
                \/ UNCHANGED <<open, cur, inbox>> /\ c \in clearing /\ clearing' = clearing \ {c}
  BY <1>1 DEF ClientEnds, ClearPending, client
<1>2. ASSUME NEW w \in Workers, ReplyRep(w)
      PROVE  /\ UNCHANGED <<hpc, desync, used>>
             /\ \/ \E c \in Clients : Closes(c)
                \/ UNCHANGED <<open, cur, inbox, clearing>>
  <2>1. UNCHANGED <<hpc, desync, used>>
    BY <1>2 DEF ReplyRep
  <2> QED BY <1>2, <2>1, RepliesTo
<1>3. ASSUME NEW w \in Workers, WorkerStep(w), ~ReplyRep(w)
      PROVE  UNCHANGED <<hpc, desync, used, open, cur, inbox, clearing>>
  BY <1>3 DEF WorkerStep, Ready, HoldJob, CancelTake, ReadRep, AckJob, DeleteEntry, client
<1>4. ASSUME NEW w \in Workers, WorkerEnds(w)
      PROVE  /\ UNCHANGED <<hpc, desync, used, cur, inbox, clearing>>
             /\ \A c \in Clients : open'[c] = open[c]
  BY <1>4, SessionsAssumption DEF WorkerEnds, client, ReqRepTypeOK
<1>5. ASSUME NEW w \in Workers, LeaseReturns(w) \/ LeaseLapses(w)
      PROVE  UNCHANGED <<hpc, desync, used, open, cur, inbox, clearing>>
  BY <1>5 DEF LeaseReturns, LeaseLapses, client
<1>6. CASE (\E r \in Requests : EntryElapses(r)) \/ UNCHANGED vars
  <2>1. UNCHANGED <<hpc, desync, used, open, cur, inbox, clearing>>
    BY <1>6 DEF EntryElapses, vars, client
  <2> QED BY <2>1
<1> QED BY <1>1, <1>2, <1>3, <1>4, <1>5, <1>6 DEF Next

\* A session of a client that ends leaves it nothing to wait for.
LEMMA ClosesClient ==
    ASSUME ReqRepTypeOK, NEW c \in Clients, Closes(c)
    PROVE  /\ cur'[c] = NoReq /\ inbox'[c] = <<>> /\ answers'[c] = <<>> /\ ~open'[c]
           /\ \A d \in Clients : d # c => /\ cur'[d] = cur[d] /\ inbox'[d] = inbox[d]
                                         /\ answers'[d] = answers[d] /\ open'[d] = open[d]
           /\ clearing' = clearing \cup {c}
BY DEF Closes, ReqRepTypeOK

\* What one client's step does to its session and to nobody else's: it writes the
\* request it waits for, from now on or still, or stops waiting.
LEMMA ClientMoves ==
    ASSUME ReqRepTypeOK, NEW c \in Clients, ClientStep(c)
    PROVE  /\ UNCHANGED <<open, hpc, clearing, pending, wpc, job, found, faults, queued, lease>>
           /\ open[c]
           /\ \A d \in Clients : d # c => /\ cur'[d] = cur[d] /\ inbox'[d] = inbox[d]
                                         /\ answers'[d] = answers[d]
           /\ \/ /\ inbox'[c] = Append(inbox[c], cur'[c]) /\ cur'[c] \in Requests
                 /\ cur'[c] = cur[c] \/ ClientOf[cur'[c]] = c
              \/ cur'[c] = NoReq /\ inbox'[c] = inbox[c]
<1> USE DEF ReqRepTypeOK, client
<1>1. ASSUME NEW r \in Requests, Begin(c, r)
      PROVE  /\ inbox' = [inbox EXCEPT ![c] = Append(@, r)] /\ cur' = [cur EXCEPT ![c] = r]
             /\ answers' = answers /\ open[c] /\ ClientOf[r] = c
             /\ UNCHANGED <<open, hpc, clearing, pending, wpc, job, found, faults, queued, lease>>
  BY <1>1 DEF Begin, Send
<1>2. ASSUME Retry(c)
      PROVE  /\ inbox' = [inbox EXCEPT ![c] = Append(@, cur[c])] /\ cur' = cur
             /\ answers' = answers /\ open[c] /\ cur[c] # NoReq
             /\ UNCHANGED <<open, hpc, clearing, pending, wpc, job, found, faults, queued, lease>>
  BY <1>2 DEF Retry, Send
<1>3. ASSUME ReadFrame(c)
      PROVE  /\ answers' = [answers EXCEPT ![c] = Tail(@)] /\ open[c] /\ cur[c] # NoReq
             /\ \/ inbox' = [inbox EXCEPT ![c] = Append(@, cur[c])] /\ cur' = cur
                \/ inbox' = inbox /\ cur' = [cur EXCEPT ![c] = NoReq]
             /\ UNCHANGED <<open, hpc, clearing, pending, wpc, job, found, faults, queued, lease>>
  BY <1>3 DEF ReadFrame, Send
<1>4. ASSUME ReadBreaks(c) \/ Abandon(c)
      PROVE  /\ answers' = answers \/ answers' = [answers EXCEPT ![c] = Tail(@)]
             /\ inbox' = inbox /\ cur' = [cur EXCEPT ![c] = NoReq] /\ open[c]
             /\ UNCHANGED <<open, hpc, clearing, pending, wpc, job, found, faults, queued, lease>>
  BY <1>4 DEF ReadBreaks, Abandon
<1>5. CASE \E r \in Requests : Begin(c, r)
  BY <1>1, <1>5
<1>6. CASE Retry(c)
  BY <1>2, <1>6 DEF MaybeReq
<1>7. CASE ReadFrame(c)
  BY <1>3, <1>7 DEF MaybeReq
<1>8. CASE ReadBreaks(c) \/ Abandon(c)
  BY <1>4, <1>8
<1> QED BY <1>5, <1>6, <1>7, <1>8 DEF ClientStep

\* What the handler of one client's frames does to the sessions.
LEMMA HandlerMoves ==
    ASSUME ReqRepTypeOK, NEW c \in Clients, HandlerStep(c)
    PROVE  /\ \A d \in Clients : d # c => /\ hpc'[d] = hpc[d] /\ cur'[d] = cur[d]
                                         /\ inbox'[d] = inbox[d] /\ open'[d] = open[d]
           /\ \/ /\ inbox[c] # <<>> /\ hpc[c].at = "read" /\ inbox'[c] = Tail(inbox[c])
                 /\ hpc'[c].at = "set" /\ hpc'[c].req = Head(inbox[c])
                 /\ UNCHANGED <<open, cur, answers, clearing>>
              \/ /\ inbox' = inbox /\ hpc[c].at \in {"set", "put"}
                 /\ hpc'[c].at = "read" \/ hpc'[c].req = hpc[c].req
                 /\ UNCHANGED <<open, cur, answers, clearing>>
              \/ /\ hpc[c].at = "drop" /\ hpc'[c].at = "read" /\ Reply(c, Failed)
<1> USE DEF ReqRepTypeOK, client
<1>1. CASE ReadReq(c)
  BY <1>1 DEF ReadReq
<1>2. CASE Register(c)
  BY <1>2 DEF Register
<1>3. CASE PutReq(c)
  <2>1. /\ UNCHANGED <<open, cur, inbox, answers, clearing>> /\ hpc[c].at = "put"
        /\ hpc' = [hpc EXCEPT ![c] = NoHandler] \/ hpc' = [hpc EXCEPT ![c].at = "drop"]
    BY <1>3 DEF PutReq
  <2> QED BY <2>1 DEF NoHandler
<1>4. CASE DropEntry(c)
  <2>1. /\ hpc[c].at = "drop" /\ hpc' = [hpc EXCEPT ![c] = NoHandler] /\ Reply(c, Failed)
    BY <1>4 DEF DropEntry
  <2>2. \A d \in Clients : d # c =>
           cur'[d] = cur[d] /\ inbox'[d] = inbox[d] /\ open'[d] = open[d]
    BY <2>1 DEF Reply, Closes
  <2> QED BY <2>1, <2>2 DEF NoHandler
<1> QED BY <1>1, <1>2, <1>3, <1>4 DEF HandlerStep

\* What a client's Append and the hub's Tail keep of its frames.
LEMMA FramesAfter ==
    ASSUME NEW s \in Seq(Requests)
    PROVE  /\ Len(s) \in Nat /\ (s = <<>> <=> Len(s) = 0)
           /\ \A e \in Requests :
                 /\ Append(s, e) \in Seq(Requests) /\ Append(s, e) # <<>>
                 /\ Len(Append(s, e)) = Len(s) + 1 /\ Append(s, e)[Len(s) + 1] = e
                 /\ \A i \in 1..Len(s) : Append(s, e)[i] = s[i]
           /\ s # <<>> => /\ Tail(s) \in Seq(Requests) /\ Len(Tail(s)) = Len(s) - 1
                          /\ \A i \in 1..Len(s) - 1 : Tail(s)[i] = s[i + 1]
                          /\ Head(s) = s[1]
                          /\ Tail(s) = <<>> <=> Len(s) = 1
<1>1. Len(s) \in Nat /\ (s = <<>> <=> Len(s) = 0)
  BY EmptySeq, LenProperties
<1>2. ASSUME NEW e \in Requests
      PROVE  /\ Append(s, e) \in Seq(Requests) /\ Append(s, e) # <<>>
             /\ Len(Append(s, e)) = Len(s) + 1 /\ Append(s, e)[Len(s) + 1] = e
             /\ \A i \in 1..Len(s) : Append(s, e)[i] = s[i]
  BY AppendProperties
<1>3. ASSUME s # <<>>
      PROVE  /\ Tail(s) \in Seq(Requests) /\ Len(Tail(s)) = Len(s) - 1
             /\ \A i \in 1..Len(s) - 1 : Tail(s)[i] = s[i + 1]
             /\ Head(s) = s[1]
             /\ Tail(s) = <<>> <=> Len(s) = 1
  <2>1. /\ Tail(s) \in Seq(Requests) /\ Len(Tail(s)) = Len(s) - 1
        /\ \A i \in 1..Len(Tail(s)) : Tail(s)[i] = s[i + 1]
    BY <1>3, HeadTailProperties
  <2>2. Tail(s) = <<>> <=> Len(Tail(s)) = 0
    BY <2>1, EmptySeq
  <2>3. Head(s) = s[1]
    BY <1>1, <1>3
  <2> QED BY <1>1, <2>1, <2>2, <2>3
<1> QED BY <1>1, <1>2, <1>3

\* Every step: a client waits only on a session, and writes only what it waits for.
LEMMA StepBelongs == ASSUME ReqRepTypeOK, Belongs, [Next]_vars PROVE Belongs'
<1> USE DEF Belongs
<1>1. ASSUME NEW d \in Clients, hpc'[d] = hpc[d], cur'[d] = cur[d], inbox'[d] = inbox[d],
             open'[d] = open[d]
      PROVE  BelongsTo(d)'
  BY <1>1 DEF BelongsTo
<1>2. ASSUME NEW c \in Clients, Closes(c), \A d \in Clients : d # c => hpc'[d] = hpc[d],
             hpc'[c].at = "read" \/ hpc'[c] = hpc[c]
      PROVE  Belongs'
  <2>1. BelongsTo(c)'
    BY <1>2, ClosesClient, EmptySeq DEF BelongsTo
  <2> QED BY <1>1, <1>2, <2>1, ClosesClient
<1>3. ASSUME NEW c \in Clients, ClientStep(c) PROVE Belongs'
  <2>1. /\ open' = open /\ hpc' = hpc /\ open[c]
        /\ \A d \in Clients : d # c => cur'[d] = cur[d] /\ inbox'[d] = inbox[d]
        /\ \/ /\ inbox'[c] = Append(inbox[c], cur'[c]) /\ cur'[c] \in Requests
              /\ cur'[c] = cur[c] \/ ClientOf[cur'[c]] = c
           \/ cur'[c] = NoReq /\ inbox'[c] = inbox[c]
    BY <1>3, ClientMoves
  <2>2. BelongsTo(c)'
    <3>1. CASE cur'[c] = NoReq /\ inbox'[c] = inbox[c]
      BY <2>1, <3>1 DEF BelongsTo
    <3>2. CASE /\ inbox'[c] = Append(inbox[c], cur'[c]) /\ cur'[c] \in Requests
               /\ cur'[c] = cur[c] \/ ClientOf[cur'[c]] = c
      <4>1. PICK n, r : n = Len(inbox[c]) /\ r = cur'[c]
        OBVIOUS
      <4>2. r \in Requests /\ ClientOf[r] = c
        BY <3>2, <4>1, RequestsAssumption DEF BelongsTo
      <4>3. /\ n \in Nat /\ Len(inbox'[c]) = n + 1 /\ inbox'[c][n + 1] = r
            /\ \A i \in 1..n : inbox'[c][i] = inbox[c][i]
        BY <3>2, <4>1, <4>2, FramesAfter DEF ReqRepTypeOK
      <4>4. \A i \in 1..n + 1 : ClientOf[inbox'[c][i]] = c
        <5> TAKE i \in 1..n + 1
        <5>1. CASE i = n + 1
          BY <4>2, <4>3, <5>1
        <5>2. CASE i # n + 1
          <6>1. i \in 1..n
            BY <4>3, <5>2
          <6> QED BY <4>1, <4>3, <6>1 DEF BelongsTo
        <5> QED BY <5>1, <5>2
      <4> QED BY <2>1, <4>1, <4>2, <4>3, <4>4 DEF BelongsTo
    <3> QED BY <2>1, <3>1, <3>2
  <2> QED BY <1>1, <2>1, <2>2
<1>4. ASSUME NEW c \in Clients, HandlerStep(c) PROVE Belongs'
  <2>1. \A d \in Clients : d # c => /\ hpc'[d] = hpc[d] /\ cur'[d] = cur[d]
                                  /\ inbox'[d] = inbox[d] /\ open'[d] = open[d]
    BY <1>4, HandlerMoves
  <2>2. CASE /\ inbox[c] # <<>> /\ inbox'[c] = Tail(inbox[c]) /\ hpc'[c].req = Head(inbox[c])
             /\ UNCHANGED <<open, cur>>
    <3>1. PICK n : n = Len(inbox[c])
      OBVIOUS
    <3>2. /\ n \in Nat \ {0} /\ Len(inbox'[c]) = n - 1 /\ hpc'[c].req = inbox[c][1]
          /\ \A i \in 1..n - 1 : inbox'[c][i] = inbox[c][i + 1]
          /\ inbox[c] \in Seq(Requests)
      BY <2>2, <3>1, FramesAfter DEF ReqRepTypeOK
    <3>3. inbox[c][1] \in Requests /\ ClientOf[inbox[c][1]] = c
      BY <3>1, <3>2, ElementOfSeq DEF BelongsTo
    <3>4. \A i \in 1..n - 1 : ClientOf[inbox'[c][i]] = c
      <4> TAKE i \in 1..n - 1
      <4>1. i + 1 \in 1..n
        BY <3>2
      <4> QED BY <3>1, <3>2, <4>1 DEF BelongsTo
    <3>5. BelongsTo(c)'
      BY <2>2, <3>2, <3>3, <3>4, RequestsAssumption DEF BelongsTo
    <3> QED BY <1>1, <2>1, <3>5
  <2>3. CASE /\ inbox' = inbox /\ UNCHANGED <<open, cur>>
             /\ hpc'[c].at = "read" \/ (hpc'[c].req = hpc[c].req /\ hpc[c].at # "read")
    <3>1. BelongsTo(c)'
      BY <2>3 DEF BelongsTo
    <3> QED BY <1>1, <2>1, <3>1
  <2>4. CASE hpc'[c].at = "read" /\ Reply(c, Failed)
    <3>1. CASE Closes(c)
      BY <1>2, <2>1, <2>4, <3>1
    <3>2. CASE UNCHANGED <<open, cur, inbox>>
      <4>1. BelongsTo(c)'
        BY <2>4, <3>2 DEF BelongsTo
      <4> QED BY <1>1, <2>1, <4>1
    <3> QED BY <2>4, <3>1, <3>2 DEF Reply
  <2> QED BY <1>4, <2>2, <2>3, <2>4, HandlerMoves
<1>5. ASSUME hpc' = hpc, NEW c \in Clients, Closes(c) PROVE Belongs'
  BY <1>2, <1>5
<1>6. ASSUME UNCHANGED <<hpc, cur, inbox>>, \A c \in Clients : open'[c] = open[c] PROVE Belongs'
  BY <1>1, <1>6
<1> QED BY <1>3, <1>4, <1>5, <1>6, OthersEnd

\* Every step: a client's last frame is the request it waits for.
LEMMA StepLatest == ASSUME ReqRepTypeOK, Latest, [Next]_vars PROVE Latest'
<1> USE DEF Latest
<1>1. ASSUME NEW d \in Clients, hpc'[d] = hpc[d], cur'[d] = cur[d], inbox'[d] = inbox[d]
      PROVE  LatestOf(d)'
  BY <1>1 DEF LatestOf
<1>2. ASSUME NEW c \in Clients, Closes(c), \A d \in Clients : d # c => hpc'[d] = hpc[d]
      PROVE  Latest'
  <2>1. LatestOf(c)'
    BY <1>2, ClosesClient DEF LatestOf
  <2> QED BY <1>1, <1>2, <2>1, ClosesClient
<1>3. ASSUME NEW c \in Clients, ClientStep(c) PROVE Latest'
  <2>1. /\ hpc' = hpc
        /\ \A d \in Clients : d # c => cur'[d] = cur[d] /\ inbox'[d] = inbox[d]
        /\ \/ inbox'[c] = Append(inbox[c], cur'[c]) /\ cur'[c] \in Requests
           \/ cur'[c] = NoReq
    BY <1>3, ClientMoves
  <2>2. LatestOf(c)'
    <3>1. CASE cur'[c] = NoReq
      BY <3>1 DEF LatestOf
    <3>2. CASE inbox'[c] = Append(inbox[c], cur'[c]) /\ cur'[c] \in Requests
      <4>1. PICK n : n = Len(inbox'[c])
        OBVIOUS
      <4>2. inbox'[c] # <<>> /\ inbox'[c][n] = cur'[c]
        BY <3>2, <4>1, FramesAfter DEF ReqRepTypeOK
      <4> QED BY <4>1, <4>2 DEF LatestOf
    <3> QED BY <2>1, <3>1, <3>2
  <2> QED BY <1>1, <2>1, <2>2
<1>4. ASSUME NEW c \in Clients, HandlerStep(c) PROVE Latest'
  <2>1. \A d \in Clients : d # c => /\ hpc'[d] = hpc[d] /\ cur'[d] = cur[d]
                                  /\ inbox'[d] = inbox[d]
    BY <1>4, HandlerMoves
  <2>2. CASE /\ inbox[c] # <<>> /\ inbox'[c] = Tail(inbox[c]) /\ hpc'[c].req = Head(inbox[c])
             /\ cur' = cur
    <3>1. PICK n : n = Len(inbox[c])
      OBVIOUS
    <3>2. /\ n \in Nat \ {0} /\ Len(inbox'[c]) = n - 1 /\ hpc'[c].req = inbox[c][1]
          /\ \A i \in 1..n - 1 : inbox'[c][i] = inbox[c][i + 1]
          /\ inbox'[c] = <<>> <=> n = 1
      <4>1. inbox[c] \in Seq(Requests)
        BY DEF ReqRepTypeOK
      <4>2. /\ Len(inbox[c]) \in Nat \ {0} /\ Len(Tail(inbox[c])) = Len(inbox[c]) - 1
            /\ \A i \in 1..Len(inbox[c]) - 1 : Tail(inbox[c])[i] = inbox[c][i + 1]
            /\ Head(inbox[c]) = inbox[c][1]
            /\ Tail(inbox[c]) = <<>> <=> Len(inbox[c]) = 1
        BY <2>2, <4>1, FramesAfter
      <4> QED BY <2>2, <3>1, <4>2
    <3>3. cur[c] # NoReq => inbox[c][n] = cur[c]
      BY <2>2, <3>1 DEF LatestOf
    <3>4. inbox'[c] # <<>> => inbox'[c][n - 1] = inbox[c][n]
      <4>1. n # 1 => n - 1 \in 1..n - 1 /\ (n - 1) + 1 = n
        BY <3>2
      <4> QED BY <3>2, <4>1
    <3>5. LatestOf(c)'
      BY <2>2, <3>2, <3>3, <3>4 DEF LatestOf
    <3> QED BY <1>1, <2>1, <3>5
  <2>3. CASE /\ inbox' = inbox /\ cur' = cur
             /\ hpc'[c].at = "read" \/ (hpc'[c].req = hpc[c].req /\ hpc[c].at # "read")
    <3>1. LatestOf(c)'
      BY <2>3 DEF LatestOf
    <3> QED BY <1>1, <2>1, <3>1
  <2>4. CASE hpc'[c].at = "read" /\ Reply(c, Failed)
    <3>1. CASE Closes(c)
      BY <1>2, <2>1, <3>1
    <3>2. CASE UNCHANGED <<cur, inbox>>
      <4>1. LatestOf(c)'
        BY <2>4, <3>2 DEF LatestOf
      <4> QED BY <1>1, <2>1, <4>1
    <3> QED BY <2>4, <3>1, <3>2 DEF Reply
  <2> QED BY <1>4, <2>2, <2>3, <2>4, HandlerMoves
<1>5. ASSUME hpc' = hpc, NEW c \in Clients, Closes(c) PROVE Latest'
  BY <1>2, <1>5
<1>6. ASSUME UNCHANGED <<hpc, cur, inbox>> PROVE Latest'
  BY <1>1, <1>6
<1> QED BY <1>3, <1>4, <1>5, <1>6, OthersEnd

-----------------------------------------------------------------------------
(* The table and the jobs.                                                 *)

\* A step that leaves the table, the handlers and the jobs is none to them.
LEMMA CoverStays ==
    ASSUME Covered,
           \A r \in Requests : pending'[r] # "none" => pending[r] # "none",
           \A r \in Requests : Kept(r) => Kept(r)',
           \A r \in Requests : pending'[r] # "none" /\ Handled(r) => Kept(r)' \/ Handled(r)'
    PROVE  Covered'
BY DEF Covered

\* A job that comes back is kept, and no other gets lost.
LEMMA DeliverKeeps ==
    ASSUME ReqRepTypeOK, Placed, NEW r \in Requests, Deliver(r),
           \A w \in Workers : lease[w] /\ ~lease'[w] => job[w] = r
    PROVE  Kept(r)' /\ \A s \in Requests : Kept(s) => Kept(s)'
<1> USE DEF ReqRepTypeOK
<1>1. CASE queued' = [queued EXCEPT ![r] = @ + 1] /\ wpc' = wpc /\ job' = job
  <2>1. queued'[r] > 0 /\ \A s \in Requests : queued[s] > 0 => queued'[s] > 0
    BY <1>1
  <2> QED BY <1>1, <2>1 DEF Kept
<1>2. ASSUME NEW u \in Workers, wpc[u] = "wait", wpc' = [wpc EXCEPT ![u] = "taken"],
             job' = [job EXCEPT ![u] = r], queued' = queued
      PROVE  Kept(r)' /\ \A s \in Requests : Kept(s) => Kept(s)'
  <2>1. Kept(r)'
    BY <1>2 DEF Kept
  <2>2. ASSUME NEW s \in Requests, s # r, Kept(s) PROVE Kept(s)'
    <3>1. CASE queued[s] > 0
      BY <1>2, <3>1 DEF Kept
    <3>2. ASSUME NEW w \in Workers, job[w] = s, wpc[w] \in {"taken", "delete"} \/ lease[w]
          PROVE  Kept(s)'
      <4>1. w # u
        BY <1>2, <3>2 DEF Placed
      <4>2. job'[w] = s /\ wpc'[w] = wpc[w] /\ (lease[w] => lease'[w])
        BY <1>2, <2>2, <3>2, <4>1
      <4> QED BY <3>2, <4>2 DEF Kept
    <3> QED BY <2>2, <3>1, <3>2 DEF Kept
  <2> QED BY <2>1, <2>2
<1> QED BY <1>1, <1>2, Delivered

\* A worker's own step keeps the jobs, if it gives up its own only at the end.
LEMMA WorkerKeeps ==
    ASSUME ReqRepTypeOK, Placed, NEW w \in Workers,
           WorkerStep(w) \/ WorkerEnds(w), ~DeleteEntry(w)
    PROVE  \A s \in Requests : Kept(s) => Kept(s)'
<1> USE DEF ReqRepTypeOK
<1>1. ASSUME NEW s \in Requests, queued[s] > 0 => queued'[s] > 0, Kept(s),
             \A u \in Workers : u # w =>
                 job'[u] = job[u] /\ wpc'[u] = wpc[u] /\ lease'[u] = lease[u],
             job[w] = s /\ (wpc[w] \in {"taken", "delete"} \/ lease[w]) => Kept(s)'
      PROVE  Kept(s)'
  <2>1. CASE queued[s] > 0
    BY <1>1, <2>1 DEF Kept
  <2>2. ASSUME NEW u \in Workers, job[u] = s, wpc[u] \in {"taken", "delete"} \/ lease[u]
        PROVE  Kept(s)'
    <3>1. CASE u = w
      BY <1>1, <2>2, <3>1
    <3>2. CASE u # w
      <4>1. job'[u] = s /\ (wpc'[u] \in {"taken", "delete"} \/ lease'[u])
        BY <1>1, <2>2, <3>2
      <4> QED BY <4>1 DEF Kept
    <3> QED BY <3>1, <3>2
  <2> QED BY <1>1, <2>1, <2>2 DEF Kept
<1> TAKE s \in Requests
<1> HAVE Kept(s)
<1>2. CASE Ready(w)
  <2>1. CASE wpc' = [wpc EXCEPT ![w] = "wait"] /\ UNCHANGED <<queued, job, lease>>
    <3>1. wpc[w] = "idle"
      BY <1>2 DEF Ready
    <3>2. ~lease[w]
      BY <3>1 DEF Placed
    <3> QED BY <1>1, <2>1, <3>1, <3>2
  <2>2. ASSUME NEW r \in Requests, queued[r] > 0, queued' = [queued EXCEPT ![r] = @ - 1],
               job' = [job EXCEPT ![w] = r], wpc' = [wpc EXCEPT ![w] = "taken"],
               UNCHANGED lease
        PROVE  Kept(s)'
    <3>1. wpc[w] = "idle"
      BY <1>2 DEF Ready
    <3>2. ~lease[w]
      BY <3>1 DEF Placed
    <3>3. CASE s = r
      BY <2>2, <3>3 DEF Kept
    <3>4. CASE s # r
      <4>1. queued'[s] = queued[s]
        BY <2>2, <3>4
      <4> QED BY <1>1, <2>2, <3>1, <3>2, <4>1
    <3> QED BY <3>3, <3>4
  <2> QED BY <1>2, <2>1, <2>2 DEF Ready
<1>3. CASE HoldJob(w)
  <2>1. /\ lease' = [lease EXCEPT ![w] = TRUE] /\ UNCHANGED <<job, queued>>
        /\ \E at \in WorkerPCs : wpc' = [wpc EXCEPT ![w] = at]
    BY <1>3 DEF HoldJob, WorkerPCs
  <2>2. job[w] = s => Kept(s)'
    BY <2>1 DEF Kept
  <2> QED BY <1>1, <2>1, <2>2
<1>4. CASE CancelTake(w)
  <2>1. /\ job' = [job EXCEPT ![w] = NoReq] /\ lease' = lease /\ ~lease[w]
        /\ wpc' = [wpc EXCEPT ![w] = "gone"]
        /\ \/ wpc[w] = "wait" /\ queued' = queued
           \/ wpc[w] = "taken" /\ queued' = [queued EXCEPT ![job[w]] = @ + 1]
    BY <1>4 DEF CancelTake, Placed
  <2>2. wpc[w] = "taken" /\ job[w] = s => queued'[s] > 0
    BY <2>1
  <2>3. queued[s] > 0 => queued'[s] > 0
    <3>1. CASE queued' = queued
      BY <3>1
    <3>2. CASE wpc[w] = "taken" /\ job[w] = s
      BY <2>2, <3>2
    <3>3. CASE job[w] # s /\ queued' = [queued EXCEPT ![job[w]] = @ + 1]
      BY <3>3
    <3> QED BY <2>1, <3>1, <3>2, <3>3
  <2>4. wpc[w] = "taken" /\ job[w] = s => Kept(s)'
    BY <2>2 DEF Kept
  <2> QED BY <1>1, <2>1, <2>3, <2>4
<1>5. CASE ReadRep(w) \/ WorkerEnds(w)
  <2>1. /\ UNCHANGED <<job, lease, queued>>
        /\ \E at \in WorkerPCs : wpc' = [wpc EXCEPT ![w] = at]
        /\ wpc[w] \in {"taken", "delete"} => wpc'[w] = wpc[w]
    BY <1>5 DEF ReadRep, WorkerEnds, WorkerPCs
  <2>2. job[w] = s /\ (wpc[w] \in {"taken", "delete"} \/ lease[w]) => Kept(s)'
    BY <2>1 DEF Kept
  <2> QED BY <1>1, <2>1, <2>2
<1>6. CASE AckJob(w)
  <2>1. /\ UNCHANGED <<job, queued>> /\ wpc' = [wpc EXCEPT ![w] = "delete"]
        /\ lease' = [lease EXCEPT ![w] = @ /\ ~open[w]]
    BY <1>6 DEF AckJob
  <2>2. job[w] = s => Kept(s)'
    BY <2>1 DEF Kept
  <2> QED BY <1>1, <2>1, <2>2
<1>7. CASE ReplyRep(w)
  <2>1. /\ wpc[w] = "reply" /\ UNCHANGED <<lease, queued>>
        /\ wpc' = [wpc EXCEPT ![w] = IF open[w] THEN "idle" ELSE "gone"]
        /\ job' = [job EXCEPT ![w] = IF lease[w] THEN @ ELSE NoReq]
    BY <1>7 DEF ReplyRep
  <2>2. job[w] = s /\ lease[w] => Kept(s)'
    BY <2>1 DEF Kept
  <2> QED BY <1>1, <2>1, <2>2
<1> QED BY <1>2, <1>3, <1>4, <1>5, <1>6, <1>7 DEF WorkerStep

\* Every step: a request is in the table only with a job, or with the handler that
\* is putting one.
LEMMA StepCovered ==
    ASSUME ReqRepTypeOK, Placed, Belongs, Covered, [Next]_vars PROVE Covered'
<1> USE DEF ReqRepTypeOK
<1>1. ASSUME UNCHANGED <<queued, wpc, job, lease>>
      PROVE  \A r \in Requests : Kept(r) => Kept(r)'
  BY <1>1 DEF Kept
<1>2. ASSUME hpc' = hpc PROVE \A r \in Requests : Handled(r) => Handled(r)'
  BY <1>2 DEF Handled
<1>3. ASSUME NEW c \in Clients, ClientStep(c) PROVE Covered'
  <2>1. UNCHANGED <<pending, hpc, queued, wpc, job, lease>>
    BY <1>3, ClientMoves
  <2> QED BY <1>1, <1>2, <2>1, CoverStays
<1>4. ASSUME NEW c \in Clients, ReadReq(c) PROVE Covered'
  <2>1. /\ hpc[c].at = "read" /\ UNCHANGED <<pending, queued, wpc, job, lease>>
        /\ \A d \in Clients : d # c => hpc'[d] = hpc[d]
    BY <1>4 DEF ReadReq
  <2>2. \A r \in Requests : Handled(r) => Handled(r)'
    BY <2>1, RequestsAssumption DEF Handled
  <2> QED BY <1>1, <2>1, <2>2, CoverStays
<1>5. ASSUME NEW c \in Clients, Register(c) PROVE Covered'
  <2>1. /\ hpc[c].at = "set" /\ hpc' = [hpc EXCEPT ![c].at = "put"]
        /\ \A r \in Requests : pending'[r] # "none" => r = hpc[c].req \/ pending[r] # "none"
        /\ UNCHANGED <<queued, wpc, job, lease>>
    BY <1>5 DEF Register
  <2>2. ClientOf[hpc[c].req] = c
    BY <2>1 DEF Belongs, BelongsTo
  <2>3. \A r \in Requests : Handled(r) => Handled(r)'
    BY <2>1, RequestsAssumption DEF Handled
  <2>4. ASSUME NEW r \in Requests, r = hpc[c].req PROVE Handled(r)'
    BY <2>1, <2>2, <2>4 DEF Handled
  <2> QED BY <1>1, <2>1, <2>3, <2>4 DEF Covered
<1>6. ASSUME NEW c \in Clients, PutReq(c) PROVE Covered'
  <2>1. PICK s : s = hpc[c].req
    OBVIOUS
  <2>2. s \in Requests /\ ClientOf[s] = c
    BY <1>6, <2>1 DEF PutReq, Belongs, BelongsTo, MaybeReq
  <2>3. /\ pending' = pending /\ lease' = lease
        /\ \A d \in Clients : d # c => hpc'[d] = hpc[d]
        /\ \/ Indexed(s) /\ UNCHANGED <<queued, wpc, job>>
           \/ Deliver(s)
           \/ /\ UNCHANGED <<queued, wpc, job>>
              /\ hpc'[c].at = "drop" /\ hpc'[c].req = s
    BY <1>6, <2>1 DEF PutReq
  <2>4. \A r \in Requests : Kept(r) => Kept(r)'
    BY <1>1, <2>2, <2>3, DeliverKeeps
  <2>5. Kept(s)' \/ Handled(s)'
    <3>1. CASE Indexed(s) /\ UNCHANGED <<queued, wpc, job>>
      BY <2>3, <3>1 DEF Indexed, Kept
    <3>2. CASE Deliver(s)
      BY <2>2, <2>3, <3>2, DeliverKeeps
    <3>3. CASE hpc'[c].at = "drop" /\ hpc'[c].req = s
      BY <2>2, <3>3 DEF Handled
    <3> QED BY <2>3, <3>1, <3>2, <3>3
  <2>6. ASSUME NEW r \in Requests, Handled(r) PROVE Kept(r)' \/ Handled(r)'
    <3>1. CASE r = s
      BY <2>5, <3>1
    <3>2. CASE r # s
      <4>1. ClientOf[r] # c /\ ClientOf[r] \in Clients
        BY <2>1, <2>6, <3>2, RequestsAssumption DEF Handled
      <4> QED BY <2>3, <2>6, <4>1 DEF Handled
    <3> QED BY <3>1, <3>2
  <2> QED BY <2>3, <2>4, <2>6, CoverStays
<1>7. ASSUME NEW c \in Clients, DropEntry(c) PROVE Covered'
  <2>1. PICK s : s = hpc[c].req
    OBVIOUS
  <2>2. s \in Requests
    BY <1>7, <2>1 DEF DropEntry, Belongs, BelongsTo, MaybeReq
  <2>3. /\ pending' = [pending EXCEPT ![s] = "none"] /\ UNCHANGED <<queued, wpc, job, lease>>
        /\ \A d \in Clients : d # c => hpc'[d] = hpc[d]
    BY <1>7, <2>1 DEF DropEntry
  <2>4. ASSUME NEW r \in Requests, pending'[r] # "none", Handled(r) PROVE Handled(r)'
    <3>1. r # s
      BY <2>2, <2>3, <2>4
    <3>2. ClientOf[r] # c /\ ClientOf[r] \in Clients
      BY <2>1, <2>4, <3>1, RequestsAssumption DEF Handled
    <3> QED BY <2>3, <2>4, <3>2 DEF Handled
  <2>5. \A r \in Requests : pending'[r] # "none" => pending[r] # "none"
    BY <2>2, <2>3
  <2> QED BY <1>1, <2>3, <2>4, <2>5, CoverStays
<1>8. ASSUME NEW w \in Workers, WorkerStep(w) \/ WorkerEnds(w) PROVE Covered'
  <2>1. CASE DeleteEntry(w)
    <3>1. /\ wpc[w] = "delete" /\ wpc' = [wpc EXCEPT ![w] = "reply"]
          /\ pending' = [pending EXCEPT ![job[w]] = "none"]
          /\ UNCHANGED <<hpc, queued, job, lease>>
      BY <2>1 DEF DeleteEntry
    <3>2. ASSUME NEW r \in Requests, pending'[r] # "none"
          PROVE  pending[r] # "none" /\ (Kept(r) => Kept(r)')
      <4>1. r # job[w] /\ pending[r] # "none"
        BY <3>1, <3>2
      <4>2. \A u \in Workers : job[u] = r => wpc'[u] = wpc[u]
        BY <3>1, <4>1
      <4> QED BY <3>1, <4>1, <4>2 DEF Kept
    <3>3. \A r \in Requests : Handled(r) => Handled(r)'
      BY <1>2, <3>1
    <3> QED BY <3>2, <3>3 DEF Covered
  <2>2. CASE ~DeleteEntry(w)
    <3>1. pending' = pending /\ hpc' = hpc
      BY <1>8, <2>2 DEF WorkerStep, Ready, HoldJob, CancelTake, ReadRep, AckJob, ReplyRep,
                        WorkerEnds
    <3> QED BY <1>2, <1>8, <2>2, <3>1, WorkerKeeps, CoverStays
  <2> QED BY <2>1, <2>2
<1>9. ASSUME NEW c \in Clients, ClientEnds(c) \/ ClearPending(c) PROVE Covered'
  <2>1. /\ UNCHANGED <<hpc, queued, wpc, job, lease>>
        /\ \A r \in Requests : pending'[r] # "none" => pending[r] # "none"
    BY <1>9 DEF ClientEnds, ClearPending
  <2> QED BY <1>1, <1>2, <2>1, CoverStays
<1>10. ASSUME NEW w \in Workers, LeaseReturns(w) \/ LeaseLapses(w) PROVE Covered'
  <2>1. /\ job[w] \in Requests /\ Deliver(job[w]) /\ hpc' = hpc /\ pending' = pending
        /\ lease' = [lease EXCEPT ![w] = FALSE]
    BY <1>10 DEF LeaseReturns, LeaseLapses, MaybeReq
  <2>2. \A u \in Workers : lease[u] /\ ~lease'[u] => job[u] = job[w]
    BY <2>1
  <2>3. \A r \in Requests : Kept(r) => Kept(r)'
    BY <2>1, <2>2, DeliverKeeps
  <2> QED BY <1>2, <2>1, <2>3, CoverStays
<1>11. CASE (\E r \in Requests : EntryElapses(r)) \/ UNCHANGED vars
  <2>1. /\ UNCHANGED <<hpc, queued, wpc, job, lease>>
        /\ \A r \in Requests : pending'[r] # "none" => pending[r] # "none"
    BY <1>11 DEF EntryElapses, vars
  <2> QED BY <1>1, <1>2, <2>1, CoverStays
<1> QED BY <1>3, <1>4, <1>5, <1>6, <1>7, <1>8, <1>9, <1>10, <1>11 DEF Next, HandlerStep

\* Every step.
LEMMA StepCalm == ASSUME ReqRepTypeOK, Calm, [Next]_vars PROVE Calm'
<1> USE DEF ReqRepTypeOK
<1>1. \A c \in clearing' : ~open'[c]
  <2>1. ASSUME NEW c \in Clients, Closes(c) PROVE \A d \in clearing' : ~open'[d]
    <3> TAKE d \in clearing'
    <3>1. CASE d = c
      BY <2>1, <3>1, ClosesClient
    <3>2. CASE d # c
      <4>1. d \in clearing /\ d \in Clients
        BY <2>1, <3>2, ClosesClient
      <4>2. open'[d] = open[d]
        BY <2>1, <3>2, <4>1, ClosesClient
      <4> QED BY <4>1, <4>2 DEF Calm
    <3> QED BY <3>1, <3>2
  <2>2. ASSUME UNCHANGED <<open, clearing>> PROVE \A d \in clearing' : ~open'[d]
    BY <2>2 DEF Calm
  <2>3. ASSUME NEW c \in Clients, ClientStep(c) \/ HandlerStep(c)
        PROVE  UNCHANGED <<open, clearing>> \/ Closes(c)
    BY <2>3, ClientMoves, HandlerMoves DEF Reply
  <2>4. CASE UNCHANGED clearing /\ \A c \in Clients : open'[c] = open[c]
    BY <2>4 DEF Calm
  <2>5. CASE open' = open /\ \E c \in clearing : clearing' = clearing \ {c}
    BY <2>5 DEF Calm
  <2> QED BY <2>1, <2>2, <2>3, <2>4, <2>5, OthersEnd
<1>2. ASSUME faults' = 0
      PROVE  (\A w \in Workers : open'[w]) /\ \A r \in Requests : pending'[r] # "due"
  <2>1. /\ faults = 0
        /\ ~\E c \in Clients : ClientEnds(c)
        /\ ~\E w \in Workers : WorkerEnds(w) \/ LeaseLapses(w)
        /\ ~\E r \in Requests : EntryElapses(r)
    <3>1. faults \in Nat /\ ~(faults' = faults + 1)
      BY <1>2
    <3>2. CASE faults' = faults
      BY <1>2, <3>1, <3>2 DEF ClientEnds, WorkerEnds, LeaseLapses, EntryElapses
    <3>3. faults' = faults \/ faults' = faults + 1
      BY DEF Next, ClientStep, Begin, Retry, ReadFrame, ReadBreaks, Abandon, HandlerStep,
             ReadReq, Register, PutReq, DropEntry, ClientEnds, ClearPending, WorkerStep, Ready,
             HoldJob, CancelTake, ReadRep, AckJob, DeleteEntry, ReplyRep, WorkerEnds,
             LeaseReturns, LeaseLapses, EntryElapses, vars
    <3> QED BY <3>1, <3>2, <3>3
  <2>2. (\A w \in Workers : open[w]) /\ \A r \in Requests : pending[r] # "due"
    BY <2>1 DEF Calm
  <2>3. ASSUME NEW c \in Clients, Closes(c) \/ open' = open PROVE \A w \in Workers : open'[w]
    <3>1. CASE open' = open
      BY <2>2, <3>1
    <3>2. CASE Closes(c)
      <4>1. open' = [open EXCEPT ![c] = FALSE] /\ \A w \in Workers : w # c
        BY <3>2, SessionsAssumption DEF Closes
      <4> QED BY <2>2, <4>1
    <3> QED BY <2>3, <3>1, <3>2
  <2>4. ASSUME NEW c \in Clients, ClientStep(c) \/ HandlerStep(c) \/ ClearPending(c)
        PROVE  (\A w \in Workers : open'[w]) /\ \A r \in Requests : pending'[r] # "due"
    <3>1. Closes(c) \/ open' = open
      <4>1. CASE ClientStep(c) \/ HandlerStep(c)
        BY <4>1, ClientMoves, HandlerMoves DEF Reply
      <4>2. CASE ClearPending(c)
        BY <4>2 DEF ClearPending
      <4> QED BY <2>4, <4>1, <4>2
    <3>2. \A r \in Requests : pending'[r] \in {pending[r], "none", "live"}
      BY <2>4 DEF ClientStep, Begin, Retry, ReadFrame, ReadBreaks, Abandon, HandlerStep,
             ReadReq, Register, PutReq, DropEntry, ClearPending
    <3> QED BY <2>2, <2>3, <3>1, <3>2
  <2>5. ASSUME NEW w \in Workers, WorkerStep(w)
        PROVE  (\A u \in Workers : open'[u]) /\ \A r \in Requests : pending'[r] # "due"
    <3>1. (\E c \in Clients : Closes(c)) \/ open' = open
      <4>1. CASE ReplyRep(w)
        BY <4>1, RepliesTo
      <4>2. CASE ~ReplyRep(w)
        BY <2>5, <4>2 DEF WorkerStep, Ready, HoldJob, CancelTake, ReadRep, AckJob, DeleteEntry
      <4> QED BY <4>1, <4>2
    <3>2. \A r \in Requests : pending'[r] \in {pending[r], "none"}
      BY <2>5 DEF WorkerStep, Ready, HoldJob, CancelTake, ReadRep, AckJob, DeleteEntry, ReplyRep
    <3>3. \A u \in Workers : open'[u]
      BY <2>2, <2>3, <3>1
    <3> QED BY <2>2, <3>2, <3>3
  <2>6. ASSUME NEW w \in Workers, LeaseReturns(w) PROVE FALSE
    BY <2>2, <2>6 DEF LeaseReturns
  <2>7. CASE UNCHANGED vars
    BY <2>2, <2>7 DEF vars
  <2> QED BY <2>1, <2>4, <2>5, <2>6, <2>7 DEF Next
<1> QED BY <1>1, <1>2 DEF Calm

-----------------------------------------------------------------------------
(* The client that waits.                                                  *)

\* A client's connection with one more answer is not empty.
LEMMA AnswersWritten ==
    ASSUME ReqRepTypeOK, NEW c \in Clients, NEW f \in Requests \cup {Failed}
    PROVE  Append(answers[c], f) # <<>>
<1>1. answers[c] \in Seq(Requests \cup {Failed})
  BY DEF ReqRepTypeOK
<1> QED BY <1>1, Frames

\* Every step: while nothing has failed, the entry of a client that waits goes only
\* for an answer, and an answer only to the client.
LEMMA StepAnswered ==
    ASSUME ReqRepTypeOK, Belongs, Calm, Latest, Answered, [Next]_vars, Belongs', Calm', Latest'
    PROVE  Answered'
<1> USE DEF ReqRepTypeOK
<1> SUFFICES ASSUME NEW d \in Clients, faults' = 0, cur'[d] # NoReq PROVE Awaited(d)'
  BY DEF Answered
<1>1. faults = 0
  <2>1. faults' = faults \/ faults' = faults + 1
    BY DEF Next, ClientStep, Begin, Retry, ReadFrame, ReadBreaks, Abandon, HandlerStep,
           ReadReq, Register, PutReq, DropEntry, ClientEnds, ClearPending, WorkerStep, Ready,
           HoldJob, CancelTake, ReadRep, AckJob, DeleteEntry, ReplyRep, WorkerEnds,
           LeaseReturns, LeaseLapses, EntryElapses, vars
  <2> QED BY <2>1
<1>2. open'[d] /\ ClientOf[cur'[d]] = d
  BY DEF Belongs, BelongsTo
<1>3. ASSUME cur'[d] = cur[d], inbox'[d] = inbox[d], answers'[d] = answers[d],
             hpc'[d] = hpc[d], pending'[cur[d]] = pending[cur[d]],
             Answering(cur[d]) => Answering(cur[d])'
      PROVE  Awaited(d)'
  BY <1>1, <1>3 DEF Answered, Awaited, Answering
<1>4. ASSUME NEW c \in Clients, ClientStep(c) PROVE Awaited(d)'
  <2>1. CASE c = d
    <3>1. inbox'[d] # <<>>
      BY <1>4, <2>1, ClientMoves, FramesAfter
    <3> QED BY <3>1 DEF Awaited
  <2>2. CASE c # d
    <3>1. UNCHANGED <<hpc, pending, wpc, job, found>> /\ cur'[d] = cur[d]
          /\ inbox'[d] = inbox[d] /\ answers'[d] = answers[d]
      BY <1>4, <2>2, ClientMoves
    <3> QED BY <1>3, <3>1 DEF Answering
  <2> QED BY <2>1, <2>2
<1>5. ASSUME NEW c \in Clients, ReadReq(c) PROVE Awaited(d)'
  <2>1. CASE c = d
    <3>1. hpc'[d].at = "set"
      BY <1>5, <2>1 DEF ReadReq
    <3> QED BY <3>1 DEF Awaited
  <2>2. CASE c # d
    <3>1. UNCHANGED <<cur, answers, pending, wpc, job, found>> /\ hpc'[d] = hpc[d]
          /\ inbox'[d] = inbox[d]
      BY <1>5, <2>2 DEF ReadReq, client
    <3> QED BY <1>3, <3>1 DEF Answering
  <2> QED BY <2>1, <2>2
<1>6. ASSUME NEW c \in Clients, Register(c) PROVE Awaited(d)'
  <2>1. /\ UNCHANGED <<cur, inbox, answers, wpc, job, found>> /\ hpc[c].at = "set"
        /\ hpc[c].req \in Requests
    BY <1>6 DEF Register, Belongs, BelongsTo, client, MaybeReq
  <2>2. cur[d] \in Requests
    BY <2>1 DEF MaybeReq
  <2>3. CASE c = d
    <3>1. CASE inbox[d] = <<>>
      <4>1. hpc[d].req = cur[d]
        BY <2>1, <2>3, <3>1 DEF Latest, LatestOf
      <4>2. pending'[cur[d]] = "live"
        BY <1>6, <2>2, <2>3, <4>1 DEF Register
      <4> QED BY <2>1, <4>2 DEF Awaited
    <3>2. CASE inbox[d] # <<>>
      BY <2>1, <3>2 DEF Awaited
    <3> QED BY <3>1, <3>2
  <2>4. CASE c # d
    <3>1. hpc'[d] = hpc[d]
      BY <1>6, <2>4 DEF Register
    <3>2. cur[d] # hpc[c].req
      <4>1. ClientOf[hpc[c].req] = c
        BY <2>1 DEF Belongs, BelongsTo
      <4>2. ClientOf[cur[d]] = d
        BY <1>2, <2>1
      <4> QED BY <2>4, <4>1, <4>2
    <3>3. pending'[cur[d]] = pending[cur[d]]
      BY <1>1, <1>6, <2>2, <3>2 DEF Register, Due, Calm
    <3> QED BY <1>3, <2>1, <3>1, <3>3 DEF Answering
  <2> QED BY <2>3, <2>4
<1>7. ASSUME NEW c \in Clients, PutReq(c) PROVE Awaited(d)'
  <2>1. /\ UNCHANGED <<cur, inbox, answers, pending, found>> /\ hpc[c].at = "put"
        /\ \A e \in Clients : e # c => hpc'[e] = hpc[e]
    BY <1>7 DEF PutReq, client
  <2>2. cur[d] \in Requests
    BY <2>1 DEF MaybeReq
  <2>3. \A w \in Workers : wpc[w] = "reply" => job'[w] = job[w] /\ wpc'[w] = wpc[w]
    BY <1>7 DEF PutReq, Deliver, Waiting
  <2>4. Answering(cur[d]) => Answering(cur[d])'
    BY <2>1, <2>3 DEF Answering
  <2>5. hpc[d].at \in {"set", "drop"} => hpc'[d] = hpc[d]
    BY <2>1
  <2> QED BY <1>1, <2>1, <2>4, <2>5 DEF Answered, Awaited, Answering
<1>8. ASSUME NEW c \in Clients, DropEntry(c) PROVE Awaited(d)'
  <2>1. /\ hpc[c].at = "drop" /\ UNCHANGED <<wpc, job, found>> /\ Reply(c, Failed)
        /\ pending' = [pending EXCEPT ![hpc[c].req] = "none"]
        /\ hpc' = [hpc EXCEPT ![c] = NoHandler]
    BY <1>8 DEF DropEntry
  <2>2. CASE c = d
    <3>1. open[d]
      BY <1>2, <2>1, <2>2 DEF Reply, Closes
    <3>2. ~Closes(d)
      BY ClosesClient
    <3>3. answers'[d] = Append(answers[d], Failed)
      BY <2>1, <2>2, <3>1, <3>2 DEF Reply
    <3>4. answers'[d] # <<>>
      BY <3>3, AnswersWritten
    <3> QED BY <3>4 DEF Awaited
  <2>3. CASE c # d
    <3>1. cur'[d] = cur[d] /\ inbox'[d] = inbox[d] /\ answers'[d] = answers[d] /\ hpc'[d] = hpc[d]
      BY <2>1, <2>3 DEF Reply, Closes
    <3>2. hpc[c].req # cur[d]
      BY <1>2, <2>1, <2>3, <3>1 DEF Belongs, BelongsTo
    <3>3. pending'[cur[d]] = pending[cur[d]]
      BY <2>1, <3>2
    <3> QED BY <1>3, <2>1, <3>1, <3>3 DEF Answering
  <2> QED BY <2>2, <2>3
<1>9. ASSUME NEW c \in Clients, ClientEnds(c) PROVE FALSE
  BY <1>1, <1>9 DEF ClientEnds
<1>10. ASSUME NEW c \in Clients, ClearPending(c) PROVE Awaited(d)'
  <2>1. /\ UNCHANGED <<open, cur, inbox, answers, hpc, wpc, job, found>> /\ c \in clearing
        /\ pending' = [r \in Requests |-> IF ClientOf[r] = c THEN "none" ELSE pending[r]]
    BY <1>10 DEF ClearPending, client
  <2>2. c # d /\ cur[d] \in Requests /\ ClientOf[cur[d]] = d
    BY <1>2, <2>1 DEF Calm, MaybeReq
  <2>3. pending'[cur[d]] = pending[cur[d]]
    BY <2>1, <2>2
  <2> QED BY <1>3, <2>1, <2>3 DEF Answering
<1>11. ASSUME NEW w \in Workers, WorkerStep(w) PROVE Awaited(d)'
  <2>1. CASE DeleteEntry(w)
    <3>1. /\ UNCHANGED <<cur, inbox, answers, hpc, job>> /\ wpc[w] = "delete"
          /\ found' = [found EXCEPT ![w] = pending[job[w]] # "none"]
          /\ pending' = [pending EXCEPT ![job[w]] = "none"]
          /\ wpc' = [wpc EXCEPT ![w] = "reply"]
      BY <2>1 DEF DeleteEntry, client
    <3>2. Answering(cur[d]) => Answering(cur[d])'
      <4>1. \A u \in Workers : wpc[u] = "reply" => found'[u] = found[u] /\ wpc'[u] = wpc[u]
        BY <3>1
      <4> QED BY <3>1, <4>1 DEF Answering
    <3>3. CASE job[w] = cur[d] /\ pending[cur[d]] # "none"
      <4>1. job'[w] = cur'[d] /\ found'[w] /\ wpc'[w] = "reply"
        BY <3>1, <3>3
      <4> QED BY <4>1 DEF Awaited, Answering
    <3>4. CASE job[w] # cur[d] \/ pending[cur[d]] = "none"
      <4>1. pending'[cur[d]] = pending[cur[d]]
        BY <3>1, <3>4 DEF MaybeReq
      <4> QED BY <1>3, <3>1, <3>2, <4>1
    <3> QED BY <3>3, <3>4
  <2>2. CASE ReplyRep(w)
    <3>1. /\ UNCHANGED <<hpc, pending>> /\ wpc[w] = "reply"
          /\ \/ open[w] /\ found[w] /\ Reply(ClientOf[job[w]], job[w])
             \/ ~(open[w] /\ found[w]) /\ UNCHANGED <<open, clearing, cur, inbox, answers>>
          /\ \A u \in Workers : u # w => job'[u] = job[u] /\ found'[u] = found[u] /\ wpc'[u] = wpc[u]
      BY <2>2 DEF ReplyRep
    <3>2. job[w] \in Requests /\ ClientOf[job[w]] \in Clients
      BY <2>2, RepliesTo
    <3>3. open[w]
      BY <1>1 DEF Calm
    <3>4. CASE found[w] /\ ClientOf[job[w]] = d
      <4>1. open[d] /\ ~Closes(d)
        BY <1>2, <3>1, <3>3, <3>4, ClosesClient DEF Reply
      <4>2. answers'[d] = Append(answers[d], job[w])
        BY <3>1, <3>3, <3>4, <4>1 DEF Reply
      <4>3. answers'[d] # <<>>
        BY <3>2, <4>2, AnswersWritten
      <4> QED BY <4>3 DEF Awaited
    <3>5. CASE ~(found[w] /\ ClientOf[job[w]] = d)
      <4>1. cur'[d] = cur[d] /\ inbox'[d] = inbox[d] /\ answers'[d] = answers[d]
        BY <3>1, <3>2, <3>5 DEF Reply, Closes
      <4>2. ~(job[w] = cur[d] /\ found[w])
        BY <1>2, <3>5, <4>1
      <4>3. Answering(cur[d]) => Answering(cur[d])'
        BY <3>1, <4>1, <4>2 DEF Answering
      <4> QED BY <1>3, <3>1, <4>1, <4>3
    <3> QED BY <3>4, <3>5
  <2>3. CASE Ready(w) \/ HoldJob(w) \/ CancelTake(w) \/ ReadRep(w) \/ AckJob(w)
    <3>1. /\ UNCHANGED <<cur, inbox, answers, hpc, pending, found>>
          /\ \A u \in Workers : wpc[u] = "reply" => job'[u] = job[u] /\ wpc'[u] = wpc[u]
      BY <2>3 DEF Ready, HoldJob, CancelTake, ReadRep, AckJob, client
    <3>2. Answering(cur[d]) => Answering(cur[d])'
      BY <3>1 DEF Answering
    <3> QED BY <1>3, <3>1, <3>2
  <2> QED BY <1>11, <2>1, <2>2, <2>3 DEF WorkerStep
<1>12. ASSUME NEW w \in Workers, WorkerEnds(w) \/ LeaseReturns(w) \/ LeaseLapses(w) PROVE FALSE
  BY <1>1, <1>12 DEF WorkerEnds, LeaseReturns, LeaseLapses, Calm
<1>13. ASSUME NEW r \in Requests, EntryElapses(r) PROVE FALSE
  BY <1>1, <1>13 DEF EntryElapses
<1>14. CASE UNCHANGED vars
  <2>1. UNCHANGED <<cur, inbox, answers, hpc, pending, wpc, job, found>>
    BY <1>14 DEF vars, client
  <2> QED BY <1>3, <2>1 DEF Answering
<1> QED BY <1>4, <1>5, <1>6, <1>7, <1>8, <1>9, <1>10, <1>11, <1>12, <1>13, <1>14
        DEF Next, HandlerStep

-----------------------------------------------------------------------------
(* The theorems.                                                           *)

\* Nobody has called anything.
LEMMA InitTable == Init => TableInv
<1> SUFFICES ASSUME Init PROVE TableInv
  OBVIOUS
<1> USE DEF Init
<1>1. ReqRepTypeOK
  BY BoundsAssumption, EmptySeq
     DEF ReqRepTypeOK, MaybeReq, HandlerPCs, NoHandler, WorkerPCs
<1>2. Placed /\ Covered /\ Calm /\ Latest /\ Answered
  BY DEF Placed, Covered, Calm, Latest, LatestOf, Answered
<1>3. Belongs
  BY EmptySeq DEF Belongs, BelongsTo, NoHandler
<1> QED BY <1>1, <1>2, <1>3 DEF TableInv

\* The invariant is inductive.
LEMMA TableHolds == Spec => []TableInv
<1>1. ASSUME TableInv, [Next]_vars PROVE TableInv'
  <2> USE DEF TableInv
  <2>1. ReqRepTypeOK' /\ Placed' /\ Belongs'
    BY <1>1, StepTypes, StepPlaced, StepBelongs
  <2>2. Covered' /\ Calm' /\ Latest'
    BY <1>1, StepCovered, StepCalm, StepLatest
  <2>3. Answered'
    BY <1>1, <2>1, <2>2, StepAnswered
  <2> QED BY <2>1, <2>2, <2>3
<1> QED BY <1>1, InitTable, PTL DEF Spec

\* Every variable has its type, and a worker between Take and the end of its rep,
\* or with a lease, has a job.
THEOREM ReqRepTypes == Spec => []ReqRepTypeOK
<1>1. TableInv => ReqRepTypeOK
  BY DEF TableInv
<1> QED BY <1>1, TableHolds, PTL

\* An entry of Hub.pending is never left without a job: neither a merged retry nor
\* a lost lease or worker leaves a request in the table that nobody will do.
THEOREM EntriesHaveJobs == Spec => []PendingHasJob
<1>1. TableInv => PendingHasJob
  <2>1. \A r \in Requests : Kept(r) => HasJob(r)
    BY DEF Kept, HasJob
  <2> QED BY <2>1 DEF TableInv, Covered, PendingHasJob, Handled
<1> QED BY <1>1, TableHolds, PTL

\* As long as nothing fails, a client whose attempts are handled has an entry or an
\* answer under way, whoever else replies, is refused or closes.
THEOREM WaitersRegistered == Spec => []WaiterRegistered
<1>1. TableInv => WaiterRegistered
  BY DEF TableInv, Answered, Awaited, Answering, WaiterRegistered
<1> QED BY <1>1, TableHolds, PTL
==============================================================================
