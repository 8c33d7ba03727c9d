--------------------------- MODULE SessionsProofs ---------------------------
(***************************************************************************)
(* What is proved of the hub's sessions (hub.go over mailbox.go), for any  *)
(* number of sessions, goroutines, jobs and leases.                        *)
(*                                                                         *)
(* HubInv is the inductive invariant.  Its parts: the bus keeps what       *)
(* MailboxProofs shows (BusInv); goroutines and readers are at steps that  *)
(* fit what they hold (Stages, ReaderStages); a delivery is the business   *)
(* of one session (Owned), in which it is in one role at a time (Local);   *)
(* every lease is on somebody's mind (Watched); the delivery of a          *)
(* goroutine is its job's lease (WorkJob); and so is that of an entry of   *)
(* repAck, which no earlier rep has (Reps).  A step changes one session    *)
(* (Alone), so Owned, Local and Reps are shown session by session.         *)
(***************************************************************************)
EXTENDS Sessions, PromiseProofs

-----------------------------------------------------------------------------
(* The bus under the hub.                                                  *)

\* What holds of the bus in every state of the hub.
BusInv == PlacementInv /\ WaitersWait /\ LeasesIssued

Works == [at : WorkPCs, kind : Kinds, d : Deliveries \cup {NoDelivery}, job : Maybe]

\* A job goroutine that has a delivery, from Hold to its last step.
HasDelivery(w) == w.at \notin {"none", "take"}

\* A goroutine at w whose taker is at p: only one in Take, Hold or Requeue has a
\* call of the bus under way, a delivery comes with its job, and the kind of the
\* frame selects the steps.
Stage(w, p) ==
    /\ w.at # "take" => p = "idle"
    /\ IF HasDelivery(w) THEN w.d # NoDelivery /\ w.job \in Jobs ELSE w.d = NoDelivery
    /\ w.at = "rep" => w.kind = "ready"
    /\ w.at \in {"claim", "ack"} => w.kind = "take"

Stages == \A t \in Takers : Stage(work[t], pc[t])

\* The readers: a reader between two steps of a handler has an id, and what an
\* ack or nack frame has settled is not leased when it leaves the list.  Whose
\* delivery that was does not matter.
ReaderStages ==
    \A s \in Conns :
        /\ reader[s].d = NoDelivery <=> reader[s].at \in {"read", "handle"}
        /\ reader[s].at = "drop" => reader[s].d \in issued /\ inflight[reader[s].d] = NoJob

\* The ids that frames name are ids of deliveries.
LEMMA KnownIds == SessionsTypeOK => Known \subseteq Deliveries
BY DEF SessionsTypeOK, Known

\* A step of the hub is a step of the bus or none, and never a restart.
LEMMA HubSteps ==
    ASSUME SessionsTypeOK, Stages, ReaderStages, [NextSessions]_allVars
    PROVE  [Next]_vars /\ UNCHANGED restarts
<1>1. CASE UNCHANGED allVars
  BY <1>1 DEF allVars, vars
<1>2. CASE BusStep
  <2>1. ASSUME NEW j \in Jobs, Put(j) PROVE Next /\ UNCHANGED restarts
    <3>1. restarts' = restarts
      BY <2>1 DEF Put, PutMerges, PutHandsOff, PutQueues, PutRefused, vars
    <3> QED BY <2>1, <3>1 DEF Next
  <2>2. ASSUME NEW d \in Deliveries, LeaseElapses(d) PROVE Next /\ UNCHANGED restarts
    BY <2>2 DEF Next, DeliveryStep, LeaseElapses
  <2>3. CASE ExpireLeases \/ Close
    BY <2>3 DEF Next, ExpireLeases, Close
  <2> QED BY <1>2, <2>1, <2>2, <2>3 DEF BusStep
<1>3. ASSUME NEW t \in Takers, NEW d \in Deliveries, Hold(t, d)
      PROVE  Next /\ UNCHANGED restarts
  BY <1>3 DEF Next, TakerStep, Hold
<1>4. ASSUME NEW t \in Takers,
             \/ TakeChan(t) \/ Receive(t) \/ TakeFails(t) \/ Cancel(t)
             \/ HoldFails(t) \/ Requeue(t)
      PROVE  Next /\ UNCHANGED restarts
  <2>1. TakerStep(t)
    BY <1>4 DEF TakerStep
  <2>2. UNCHANGED restarts
    BY <1>4 DEF TakeChan, Receive, TakeFails, Cancel, HoldFails, Requeue
  <2> QED BY <2>1, <2>2 DEF Next
<1>5. ASSUME NEW d \in Deliveries, AckIfLeased(d) \/ NackIfLeased(d)
      PROVE  [Next]_vars /\ UNCHANGED restarts
  <2>1. CASE Ack(d) \/ Nack(d)
    BY <2>1 DEF Next, DeliveryStep, Ack, Nack
  <2> QED BY <1>5, <2>1 DEF AckIfLeased, NackIfLeased, vars
<1>6. UNCHANGED vars => [Next]_vars /\ UNCHANGED restarts
  BY DEF vars
<1>7. ASSUME NEW t \in Takers, JobStep(t)
      PROVE  [Next]_vars /\ UNCHANGED restarts
  <2>1. CASE JobTakes(t) \/ JobReceives(t) \/ JobTakeFails(t) \/ JobHoldFails(t) \/ JobRequeues(t)
    BY <1>4, <1>6, <2>1
       DEF JobTakes, JobReceives, JobTakeFails, JobHoldFails, JobRequeues
  <2>2. CASE \E d \in Deliveries : JobHolds(t, d)
    BY <1>3, <2>2 DEF JobHolds
  <2>3. CASE JobAcks(t)
    <3>1. work[t].d \in Deliveries
      BY <2>3 DEF JobAcks, At, SessionsTypeOK, Stages, Stage, HasDelivery
    <3> QED BY <1>5, <2>3, <3>1 DEF JobAcks
  <2>4. CASE \/ \E kind \in Kinds : JobFrame(t, kind)
             \/ JobTracks(t) \/ JobTracksRep(t) \/ JobWrites(t) \/ JobWriteFails(t)
             \/ JobClaims(t)
    BY <1>6, <2>4 DEF JobFrame, JobTracks, JobTracksRep, JobWrites, JobWriteFails, JobClaims
  <2> QED BY <1>7, <2>1, <2>2, <2>3, <2>4 DEF JobStep
<1>8. ASSUME NEW s \in Conns, ReaderStep(s)
      PROVE  [Next]_vars /\ UNCHANGED restarts
  <2>1. CASE \E d \in Known : AckFrame(s, d) \/ NackFrame(s, d)
    BY <1>5, <2>1, KnownIds DEF AckFrame, NackFrame
  <2>2. CASE RepAcks(s)
    <3>1. reader[s].d \in Deliveries
      BY <2>2 DEF RepAcks, SessionsTypeOK, ReaderStages
    <3> QED BY <1>5, <2>2, <3>1 DEF RepAcks
  <2>3. CASE \/ \E id \in Ids : RepFrame(s, id)
             \/ ReadFrame(s) \/ OtherFrame(s) \/ DropInflight(s) \/ RepClaims(s)
    BY <1>6, <2>3 DEF RepFrame, ReadFrame, OtherFrame, DropInflight, RepClaims
  <2> QED BY <1>8, <2>1, <2>2, <2>3 DEF ReaderStep
<1>9. ASSUME NEW s \in Conns, EndStep(s)
      PROVE  [Next]_vars /\ UNCHANGED restarts
  BY <1>5, <1>6, <1>9 DEF EndStep, CloseSession, ContextDone, NackCopied
<1> QED BY <1>1, <1>2, <1>7, <1>8, <1>9 DEF NextSessions

\* The bus keeps its invariant under the steps of the hub.
LEMMA BusStays ==
    ASSUME BusInv, SessionsTypeOK, Stages, ReaderStages, [NextSessions]_allVars
    PROVE  BusInv'
<1>1. [Next]_vars
  BY HubSteps
<1>2. PlacementInv'
  BY <1>1, PlacementStep DEF BusInv
<1>3. TypeOK /\ WaitersWait /\ LeasesIssued
  BY DEF BusInv, PlacementInv
<1>4. WaitersWait' /\ LeasesIssued'
  BY <1>1, <1>3, WaitersStep, IssuedStep
<1> QED BY <1>2, <1>4 DEF BusInv

-----------------------------------------------------------------------------
(* What a step of the bus does to goroutines and leases.                   *)

\* No new lease: ids stay as they are or are not leased any more.
Releases ==
    /\ issued' = issued
    /\ \A d \in Deliveries : inflight'[d] \in {inflight[d], NoJob}

\* What a step in Take or Requeue does to its goroutine and to the leases.
LEMMA TakerEffects ==
    ASSUME TypeOK, NEW t \in Takers
    PROVE  /\ TakeChan(t) => /\ Releases /\ elapsed' = elapsed
                             /\ pc' = pc \/ pc' = [pc EXCEPT ![t] = "wait"]
                             /\ \A e \in Deliveries : inflight'[e] = NoJob =>
                                   inflight[e] = NoJob \/ e \in elapsed
           /\ TakeFails(t) \/ Cancel(t) \/ Requeue(t) =>
                 /\ Releases /\ elapsed' = elapsed /\ inflight' = inflight
                 /\ pc' = [pc EXCEPT ![t] = "idle"] /\ pc[t] \in {"wait", "requeue"}
           /\ Receive(t) \/ HoldFails(t) =>
                 /\ Releases /\ elapsed' = elapsed /\ inflight' = inflight
                 /\ pc[t] \in {"wait", "got"} /\ \E p \in PCs : pc' = [pc EXCEPT ![t] = p]
<1>1. inflight \in [Deliveries -> Maybe] /\ pc \in [Takers -> PCs]
  BY DEF TypeOK
<1>2. ASSUME TakeChan(t)
      PROVE  /\ Releases /\ elapsed' = elapsed
             /\ pc' = pc \/ pc' = [pc EXCEPT ![t] = "wait"]
             /\ \A e \in Deliveries : inflight'[e] = NoJob =>
                   inflight[e] = NoJob \/ e \in elapsed
  <2>1. /\ inflight' = Without(Expired) /\ issued' = issued /\ elapsed' = elapsed
        /\ pc' = pc \/ pc' = [pc EXCEPT ![t] = "wait"]
    BY <1>2 DEF TakeChan, Pop
  <2> QED BY <1>1, <2>1 DEF Without, Expired, Releases
<1>3. TakeFails(t) \/ Cancel(t) \/ Requeue(t) =>
         /\ Releases /\ elapsed' = elapsed /\ inflight' = inflight
         /\ pc' = [pc EXCEPT ![t] = "idle"] /\ pc[t] \in {"wait", "requeue"}
  BY DEF TakeFails, Cancel, Requeue, Releases
<1>4. Receive(t) \/ HoldFails(t) =>
         /\ Releases /\ elapsed' = elapsed /\ inflight' = inflight
         /\ pc[t] \in {"wait", "got"} /\ \E p \in PCs : pc' = [pc EXCEPT ![t] = p]
  BY DEF Receive, HoldFails, Releases, PCs
<1> QED BY <1>2, <1>3, <1>4

\* Hold leases under an id that was nowhere.
LEMMA HoldEffects ==
    ASSUME TypeOK, NEW t \in Takers, NEW d \in Deliveries, Hold(t, d)
    PROVE  /\ d \notin issued /\ issued' = issued \cup {d} /\ elapsed' = elapsed
           /\ pc[t] = "got" /\ pc' = [pc EXCEPT ![t] = "idle"]
           /\ \A e \in Deliveries : e # d => inflight'[e] = inflight[e]
           /\ inflight'[d] = hand[t]
BY DEF TypeOK, Hold

\* Ack and Nack end one lease.
LEMMA LeaseEffects ==
    ASSUME TypeOK, NEW d \in Deliveries, AckIfLeased(d) \/ NackIfLeased(d)
    PROVE  /\ Releases /\ elapsed' = elapsed /\ pc' = pc
           /\ inflight'[d] = NoJob
           /\ \A e \in Deliveries : e # d => inflight'[e] = inflight[e]
<1>1. inflight \in [Deliveries -> Maybe]
  BY DEF TypeOK
<1>2. CASE Ack(d) \/ Nack(d)
  <2>1. inflight' = Without({d}) /\ UNCHANGED <<issued, elapsed, pc>>
    BY <1>2 DEF Ack, Nack
  <2> QED BY <1>1, <2>1 DEF Without, Releases
<1>3. CASE inflight[d] = NoJob /\ UNCHANGED vars
  BY <1>3 DEF vars, Releases
<1> QED BY <1>2, <1>3 DEF AckIfLeased, NackIfLeased

\* A step of the bus alone.
LEMMA BusStepEffects ==
    ASSUME TypeOK, BusStep
    PROVE  /\ Releases /\ pc' = pc /\ UNCHANGED hubVars /\ elapsed \subseteq elapsed'
           /\ \A e \in Deliveries : inflight'[e] = NoJob =>
                 inflight[e] = NoJob \/ e \in elapsed
<1>1. inflight \in [Deliveries -> Maybe]
  BY DEF TypeOK
<1>2. UNCHANGED hubVars
  BY DEF BusStep
<1>3. ASSUME NEW j \in Jobs, Put(j) PROVE UNCHANGED <<issued, inflight, elapsed, pc>>
  BY <1>3 DEF Put, PutMerges, PutHandsOff, PutQueues, PutRefused, memory, vars
<1>4. ASSUME NEW d \in Deliveries, LeaseElapses(d)
      PROVE  UNCHANGED <<issued, inflight, pc>> /\ elapsed \subseteq elapsed'
  BY <1>4 DEF LeaseElapses, memory
<1>5. CASE ExpireLeases
  <2>1. inflight' = Without(Expired) /\ UNCHANGED <<issued, elapsed, pc>>
    BY <1>5 DEF ExpireLeases
  <2> QED BY <1>1, <1>2, <2>1 DEF Without, Expired, Releases
<1>6. CASE Close
  BY <1>2, <1>6 DEF Close, Releases
<1> QED BY <1>2, <1>3, <1>4, <1>5, <1>6 DEF BusStep, Releases

-----------------------------------------------------------------------------
(* Goroutines and readers are where they can be.                           *)

\* Types, and the steps of goroutines and readers.
Steady == SessionsTypeOK /\ Stages /\ ReaderStages

\* One goroutine goes to w, and its taker moves with it.
LEMMA GoesTo ==
    ASSUME SessionsTypeOK, Stages, NEW t \in Takers, NEW w \in Works,
           work' = [work EXCEPT ![t] = w],
           pc' \in [Takers -> PCs], \A u \in Takers : u # t => pc'[u] = pc[u],
           Stage(w, pc'[t])
    PROVE  /\ work' \in [Takers -> Works] /\ Stages'
           /\ work'[t] = w /\ \A u \in Takers : u # t => work'[u] = work[u]
<1>1. work \in [Takers -> Works]
  BY DEF SessionsTypeOK, Works
<1>2. /\ work' \in [Takers -> Works]
      /\ work'[t] = w /\ \A u \in Takers : u # t => work'[u] = work[u]
  BY <1>1
<1>3. \A u \in Takers : Stage(work'[u], pc'[u])
  <2> SUFFICES ASSUME NEW u \in Takers PROVE Stage(work'[u], pc'[u])
    OBVIOUS
  <2>1. CASE u = t
    BY <1>2, <2>1
  <2>2. CASE u # t
    <3>1. work'[u] = work[u] /\ pc'[u] = pc[u]
      BY <1>2, <2>2
    <3>2. Stage(work[u], pc[u])
      BY DEF Stages
    <3> QED BY <3>1, <3>2
  <2> QED BY <2>1, <2>2
<1> QED BY <1>2, <1>3 DEF Stages

\* The records of a goroutine that moves on.
LEMMA NextWork ==
    ASSUME SessionsTypeOK, Stages, NEW t \in Takers
    PROVE  /\ Idle \in Works /\ Stage(Idle, "idle")
           /\ \A p \in PCs : Stage([Idle EXCEPT !.at = "take"], p)
           /\ \A kind \in Kinds : [Idle EXCEPT !.at = "take", !.kind = kind] \in Works
           /\ work[t] \in Works /\ Stage(work[t], pc[t])
           /\ \A at \in WorkPCs : [work[t] EXCEPT !.at = at] \in Works
<1>1. work[t] \in Works
  BY DEF SessionsTypeOK, Works
<1>2. Stage(work[t], pc[t])
  BY DEF Stages
<1>3. Idle \in Works
  BY DEF Idle, Works, WorkPCs, Kinds, Maybe
<1>4. \A at \in WorkPCs : [work[t] EXCEPT !.at = at] \in Works
  BY <1>1 DEF Works
<1>5. \A kind \in Kinds : [Idle EXCEPT !.at = "take", !.kind = kind] \in Works
  BY DEF Idle, Works, WorkPCs, Kinds, Maybe
<1> QED BY <1>1, <1>2, <1>3, <1>4, <1>5 DEF Stage, HasDelivery, Idle

\* The goroutines of take, ready and reserve frames keep types and stages.
LEMMA JobSteady ==
    ASSUME BusInv, BusInv', Steady, NEW t \in Takers, JobStep(t)
    PROVE  /\ SessionsTypeOK' /\ Stages'
           /\ \A u \in Takers : u # t => work'[u] = work[u]
<1> DEFINE s == SessionOf[t]
<1>1. TypeOK /\ HandsFull /\ SessionsTypeOK /\ Stages /\ s \in Conns
  BY SessionsAssumption DEF Steady, BusInv, PlacementInv
<1>2. /\ pc \in [Takers -> PCs] /\ pc' \in [Takers -> PCs] /\ hand[t] \in Maybe
      /\ inflight \in [Deliveries -> Maybe]
  BY DEF BusInv, PlacementInv, TypeOK
<1>3. /\ open \in [Conns -> BOOLEAN] /\ cancelled \in [Conns -> BOOLEAN]
      /\ tracked \in [Conns -> SUBSET Deliveries]
      /\ toNack \in [Conns -> SUBSET Deliveries]
      /\ repAck \in [Conns -> [Ids -> Deliveries \cup {NoDelivery}]]
      /\ reader \in [Conns -> [at : ReaderPCs, d : Deliveries \cup {NoDelivery}]]
      /\ seen \in [Conns -> SUBSET Deliveries]
      /\ taken \in [Conns -> SUBSET Deliveries]
  BY <1>1 DEF SessionsTypeOK
<1>4. /\ Idle \in Works /\ Stage(Idle, "idle")
      /\ \A p \in PCs : Stage([Idle EXCEPT !.at = "take"], p)
      /\ \A kind \in Kinds : [Idle EXCEPT !.at = "take", !.kind = kind] \in Works
      /\ work[t] \in Works /\ Stage(work[t], pc[t])
      /\ \A at \in WorkPCs : [work[t] EXCEPT !.at = at] \in Works
  BY <1>1, NextWork
<1>5. ASSUME NEW w \in Works, work' = [work EXCEPT ![t] = w], Stage(w, pc'[t]),
             \A u \in Takers : u # t => pc'[u] = pc[u],
             UNCHANGED <<open, cancelled, tracked, toNack, repAck, reader, seen, taken>>
      PROVE  /\ SessionsTypeOK' /\ Stages'
             /\ \A u \in Takers : u # t => work'[u] = work[u]
  BY <1>1, <1>2, <1>3, <1>5, GoesTo DEF SessionsTypeOK, Works
<1>6. ASSUME NEW kind \in Kinds, JobFrame(t, kind)
      PROVE  /\ SessionsTypeOK' /\ Stages'
             /\ \A u \in Takers : u # t => work'[u] = work[u]
  <2> DEFINE w == [Idle EXCEPT !.at = "take", !.kind = kind]
  <2>1. work' = [work EXCEPT ![t] = w] /\ w \in Works /\ pc' = pc
    BY <1>4, <1>6 DEF JobFrame, vars
  <2>2. Stage(w, pc'[t])
    BY DEF Stage, HasDelivery, Idle
  <2> HIDE DEF w
  <2>3. /\ work' \in [Takers -> Works] /\ Stages'
        /\ \A u \in Takers : u # t => work'[u] = work[u]
    BY <1>1, <1>2, <2>1, <2>2, GoesTo
  <2>4. /\ reader' \in [Conns -> [at : ReaderPCs, d : Deliveries \cup {NoDelivery}]]
        /\ UNCHANGED <<open, cancelled, tracked, toNack, repAck, seen, taken>>
    BY <1>1, <1>3, <1>6 DEF JobFrame, Read, Reading, ReaderPCs
  <2> QED BY <1>3, <2>3, <2>4 DEF SessionsTypeOK, Works
<1>7. CASE JobTakes(t)
  <2>1. /\ pc' = pc \/ pc' = [pc EXCEPT ![t] = "wait"]
        /\ UNCHANGED <<open, cancelled, tracked, toNack, repAck, reader, seen, taken>>
        /\ work[t].at = "take"
    BY <1>1, <1>7, TakerEffects DEF JobTakes, At
  <2>2. CASE pc'[t] = "idle"
    <3>1. work' = [work EXCEPT ![t] = Idle]
      BY <1>7, <2>2 DEF JobTakes, Done
    <3>2. Stage(Idle, pc'[t]) /\ \A u \in Takers : u # t => pc'[u] = pc[u]
      BY <1>2, <1>4, <2>1, <2>2
    <3> QED BY <1>4, <1>5, <2>1, <3>1, <3>2
  <2>3. CASE pc'[t] # "idle"
    <3>1. work' = [work EXCEPT ![t] = work[t]]
      BY <1>1, <1>7, <2>3 DEF JobTakes, SessionsTypeOK
    <3>2. Stage(work[t], pc'[t])
      BY <1>4, <2>1 DEF Stage
    <3>3. \A u \in Takers : u # t => pc'[u] = pc[u]
      BY <1>2, <2>1
    <3> QED BY <1>4, <1>5, <2>1, <3>1, <3>2, <3>3
  <2> QED BY <2>2, <2>3
<1>8. CASE JobReceives(t) \/ JobHoldFails(t)
  <2>1. /\ pc[t] \in {"wait", "got"} /\ \E p \in PCs : pc' = [pc EXCEPT ![t] = p]
        /\ UNCHANGED hubVars
    BY <1>1, <1>8, TakerEffects DEF JobReceives, JobHoldFails
  <2>2. work' = [work EXCEPT ![t] = work[t]]
    BY <1>1, <2>1 DEF hubVars, SessionsTypeOK
  <2>3. work[t].at = "take" /\ Stage(work[t], pc'[t])
    BY <1>4, <2>1 DEF Stage, HasDelivery
  <2>4. \A u \in Takers : u # t => pc'[u] = pc[u]
    BY <1>2, <2>1
  <2>5. UNCHANGED <<open, cancelled, tracked, toNack, repAck, reader, seen, taken>>
    BY <2>1 DEF hubVars
  <2> QED BY <1>4, <1>5, <2>2, <2>3, <2>4, <2>5
<1>9. CASE JobTakeFails(t) \/ JobRequeues(t)
  <2>1. pc'[t] = "idle" /\ \A u \in Takers : u # t => pc'[u] = pc[u]
    BY <1>1, <1>2, <1>9, TakerEffects DEF JobTakeFails, JobRequeues, vars
  <2>2. work' = [work EXCEPT ![t] = Idle]
    BY <1>9 DEF JobTakeFails, JobRequeues, Done
  <2>3. UNCHANGED <<open, cancelled, tracked, toNack, repAck, reader, seen, taken>>
    BY <1>9 DEF JobTakeFails, JobRequeues
  <2> QED BY <1>4, <1>5, <2>1, <2>2, <2>3
<1>10. ASSUME NEW d \in Deliveries, JobHolds(t, d)
       PROVE  /\ SessionsTypeOK' /\ Stages'
              /\ \A u \in Takers : u # t => work'[u] = work[u]
  <2> DEFINE w == [work[t] EXCEPT !.at = "track", !.d = d, !.job = hand[t]]
  <2>1. work' = [work EXCEPT ![t] = w]
    BY <1>10 DEF JobHolds
  <2>2. pc[t] = "got" /\ pc'[t] = "idle" /\ \A u \in Takers : u # t => pc'[u] = pc[u]
    BY <1>1, <1>2, <1>10, HoldEffects DEF JobHolds
  <2>3. hand[t] \in Jobs
    BY <1>1, <1>2, <2>2 DEF HandsFull, Maybe
  <2>4. w \in Works
    <3>1. "track" \in WorkPCs /\ hand[t] \in Maybe
      BY <1>2 DEF WorkPCs
    <3>2. d \in Deliveries \cup {NoDelivery} /\ work[t] \in Works
      BY <1>4
    <3> QED BY <3>1, <3>2 DEF Works
  <2>5. w.at = "track" /\ w.d = d /\ w.job = hand[t]
    BY <1>4 DEF Works
  <2>6. Stage(w, pc'[t])
    BY <2>2, <2>3, <2>5, SessionsAssumption DEF Stage, HasDelivery
  <2> HIDE DEF w
  <2> QED BY <1>5, <1>10, <2>1, <2>2, <2>4, <2>6 DEF JobHolds
\* from here on the bus does not move, or only the lease of the goroutine
<1>11. ASSUME NEW at \in WorkPCs \ {"none", "take"}, HasDelivery(work[t]), pc' = pc,
              at = "rep" => work[t].kind = "ready",
              at \in {"claim", "ack"} => work[t].kind = "take"
       PROVE  /\ [work[t] EXCEPT !.at = at] \in Works
              /\ Stage([work[t] EXCEPT !.at = at], pc'[t])
              /\ \A u \in Takers : u # t => pc'[u] = pc[u]
  <2> DEFINE w == [work[t] EXCEPT !.at = at]
  <2>1. w.at = at /\ w.d = work[t].d /\ w.job = work[t].job /\ w.kind = work[t].kind
    BY <1>4 DEF Works
  <2>2. pc[t] = "idle"
    BY <1>4, <1>11 DEF Stage, HasDelivery
  <2>3. Stage(w, pc'[t])
    BY <1>4, <1>11, <2>1, <2>2 DEF Stage, HasDelivery
  <2> QED BY <1>4, <1>11, <2>3
<1>12. HasDelivery(work[t]) => work[t].d \in Deliveries /\ work[t].job \in Jobs /\ pc[t] = "idle"
  BY <1>4 DEF Works, Stage, HasDelivery
<1>13. CASE JobTracks(t)
  <2>1. HasDelivery(work[t]) /\ pc' = pc
    BY <1>13 DEF JobTracks, HasDelivery, At, vars
  <2> DEFINE at == IF work[t].kind = "ready" THEN "rep" ELSE "write"
  <2>2. work' = [work EXCEPT ![t] = [work[t] EXCEPT !.at = at]]
    BY <1>13 DEF JobTracks, Goto
  <2>3. at \in WorkPCs \ {"none", "take"} /\ (at = "rep" => work[t].kind = "ready")
        /\ at \notin {"claim", "ack"}
    BY DEF WorkPCs
  <2> HIDE DEF at
  <2>4. /\ work' \in [Takers -> Works] /\ Stages'
        /\ \A u \in Takers : u # t => work'[u] = work[u]
    BY <1>1, <1>2, <1>11, <2>1, <2>2, <2>3, GoesTo
  <2>5. /\ tracked' \in [Conns -> SUBSET Deliveries]
        /\ UNCHANGED <<open, cancelled, toNack, repAck, reader, seen, taken>>
    BY <1>1, <1>3, <1>12, <1>13, <2>1 DEF JobTracks
  <2> QED BY <1>3, <2>4, <2>5 DEF SessionsTypeOK, Works
<1>14. CASE JobTracksRep(t)
  <2>1. HasDelivery(work[t]) /\ pc' = pc
    BY <1>14 DEF JobTracksRep, HasDelivery, At, vars
  <2>2. work' = [work EXCEPT ![t] = [work[t] EXCEPT !.at = "write"]]
    BY <1>14 DEF JobTracksRep, Goto
  <2>3. "write" \in WorkPCs \ {"none", "take"}
    BY DEF WorkPCs
  <2>4. /\ work' \in [Takers -> Works] /\ Stages'
        /\ \A u \in Takers : u # t => work'[u] = work[u]
    BY <1>1, <1>2, <1>11, <2>1, <2>2, <2>3, GoesTo
  <2>5. repAck' \in [Conns -> [Ids -> Deliveries \cup {NoDelivery}]]
    <3>1. repAck' = [repAck EXCEPT ![s][IdOf[work[t].job]] = work[t].d]
      BY <1>14 DEF JobTracksRep
    <3>2. IdOf[work[t].job] \in Ids
      BY <1>12, <2>1, JobsAssumption
    <3> QED BY <1>1, <1>3, <1>12, <2>1, <3>1, <3>2
  <2> QED BY <1>3, <1>14, <2>4, <2>5 DEF SessionsTypeOK, Works, JobTracksRep
<1>15. CASE JobWrites(t)
  <2>1. HasDelivery(work[t]) /\ pc' = pc
    BY <1>15 DEF JobWrites, HasDelivery, At, vars
  <2>2. CASE /\ work[t].kind = "take" /\ Goto(t, "claim")
             /\ taken' = [taken EXCEPT ![s] = @ \cup {work[t].d}] /\ UNCHANGED seen
    <3>1. "claim" \in WorkPCs \ {"none", "take"}
      BY DEF WorkPCs
    <3>2. /\ work' \in [Takers -> Works] /\ Stages'
          /\ \A u \in Takers : u # t => work'[u] = work[u]
      BY <1>1, <1>2, <1>11, <2>1, <2>2, <3>1, GoesTo DEF Goto
    <3>3. taken' \in [Conns -> SUBSET Deliveries]
      BY <1>1, <1>3, <1>12, <2>1, <2>2
    <3> QED BY <1>3, <1>15, <2>2, <3>2, <3>3 DEF SessionsTypeOK, Works, JobWrites
  <2>3. CASE Done(t) /\ seen' = [seen EXCEPT ![s] = @ \cup {work[t].d}] /\ UNCHANGED taken
    <3>1. /\ work' \in [Takers -> Works] /\ Stages'
          /\ \A u \in Takers : u # t => work'[u] = work[u]
      BY <1>1, <1>2, <1>4, <1>12, <2>1, <2>3, GoesTo DEF Done
    <3>2. seen' \in [Conns -> SUBSET Deliveries]
      BY <1>1, <1>3, <1>12, <2>1, <2>3
    <3> QED BY <1>3, <1>15, <2>3, <3>1, <3>2 DEF SessionsTypeOK, Works, JobWrites
  <2> QED BY <1>15, <2>2, <2>3 DEF JobWrites
<1>16. CASE JobWriteFails(t)
  <2>1. HasDelivery(work[t]) /\ pc' = pc
    BY <1>16 DEF JobWriteFails, HasDelivery, At, vars
  <2>2. /\ work' \in [Takers -> Works] /\ Stages'
        /\ \A u \in Takers : u # t => work'[u] = work[u]
    BY <1>1, <1>2, <1>4, <1>12, <1>16, <2>1, GoesTo DEF JobWriteFails, Done
  <2>3. repAck' \in [Conns -> [Ids -> Deliveries \cup {NoDelivery}]]
    <3>1. \/ repAck' = repAck
          \/ repAck' = [repAck EXCEPT ![s][IdOf[work[t].job]] = NoDelivery]
      BY <1>16 DEF JobWriteFails
    <3>2. IdOf[work[t].job] \in Ids
      BY <1>12, <2>1, JobsAssumption
    <3> DEFINE id == IdOf[work[t].job]
    <3> HIDE DEF id
    <3>3. repAck' = repAck \/ repAck' = [repAck EXCEPT ![s][id] = NoDelivery]
      BY <3>1 DEF id
    <3>4. id \in Ids
      BY <3>2 DEF id
    <3>5. repAck[s] \in [Ids -> Deliveries \cup {NoDelivery}]
      BY <1>1, <1>3
    <3>6. [repAck[s] EXCEPT ![id] = NoDelivery] \in [Ids -> Deliveries \cup {NoDelivery}]
      BY <3>4, <3>5
    <3>7. CASE repAck' = [repAck EXCEPT ![s][id] = NoDelivery]
      BY <1>1, <1>3, <3>6, <3>7
    <3> QED BY <1>3, <3>3, <3>7
  <2>4. /\ open' \in [Conns -> BOOLEAN] /\ toNack' \in [Conns -> SUBSET Deliveries]
        /\ tracked' \in [Conns -> SUBSET Deliveries]
    <3>1. Closes(s) \/ UNCHANGED <<open, toNack, tracked>>
      BY <1>16 DEF JobWriteFails
    <3>2. CASE Closes(s)
      BY <1>1, <1>3, <3>2 DEF Closes
    <3>3. CASE UNCHANGED <<open, toNack, tracked>>
      BY <1>3, <3>3
    <3> QED BY <3>1, <3>2, <3>3
  <2>5. UNCHANGED <<cancelled, reader, seen, taken>>
    BY <1>16 DEF JobWriteFails
  <2>6. /\ cancelled' \in [Conns -> BOOLEAN]
        /\ reader' \in [Conns -> [at : ReaderPCs, d : Deliveries \cup {NoDelivery}]]
        /\ seen' \in [Conns -> SUBSET Deliveries] /\ taken' \in [Conns -> SUBSET Deliveries]
    BY <1>3, <2>5
  <2>7. SessionsTypeOK'
    <3> HIDE DEF s
    <3> QED BY <2>2, <2>3, <2>4, <2>6 DEF SessionsTypeOK, Works
  <2> QED BY <2>2, <2>7
<1>17. CASE JobClaims(t)
  <2>1. HasDelivery(work[t]) /\ pc' = pc /\ work[t].kind = "take"
    BY <1>4, <1>17 DEF JobClaims, HasDelivery, At, vars, Stage
  <2>2. "ack" \in WorkPCs \ {"none", "take"}
    BY DEF WorkPCs
  <2>3. tracked' \in [Conns -> SUBSET Deliveries]
    <3>1. tracked' = tracked \/ tracked' = [tracked EXCEPT ![s] = @ \ {work[t].d}]
      BY <1>17 DEF JobClaims, Claims
    <3>2. tracked \in [Conns -> SUBSET Deliveries] /\ s \in Conns
      BY <1>1, <1>3
    <3> QED BY <3>1, <3>2
  <2>4. /\ work' \in [Takers -> Works] /\ Stages'
        /\ \A u \in Takers : u # t => work'[u] = work[u]
    <3>1. CASE work' = [work EXCEPT ![t] = [work[t] EXCEPT !.at = "ack"]]
      BY <1>1, <1>2, <1>11, <2>1, <2>2, <3>1, GoesTo
    <3>2. CASE work' = [work EXCEPT ![t] = Idle]
      BY <1>1, <1>2, <1>4, <1>12, <2>1, <3>2, GoesTo
    <3> QED BY <1>17, <3>1, <3>2 DEF JobClaims, Goto, Done
  <2> QED BY <1>3, <1>17, <2>3, <2>4 DEF SessionsTypeOK, Works, JobClaims
<1>18. CASE JobAcks(t)
  <2>1. HasDelivery(work[t])
    BY <1>18 DEF JobAcks, HasDelivery, At
  <2>2. pc' = pc
    BY <1>1, <1>12, <1>18, <2>1, LeaseEffects DEF JobAcks
  <2> QED BY <1>4, <1>5, <1>12, <1>18, <2>1, <2>2 DEF JobAcks, Done
<1> QED BY <1>6, <1>7, <1>8, <1>9, <1>10, <1>13, <1>14, <1>15, <1>16, <1>17, <1>18 DEF JobStep

\* The goroutines do not move, so their stages stay.
LEMMA WorkStays ==
    ASSUME SessionsTypeOK, Stages, UNCHANGED <<work, pc>>
    PROVE  Stages' /\ work' \in [Takers -> Works]
BY DEF Stages, SessionsTypeOK, Works

\* The readers keep types, and the goroutines stay where they are.
LEMMA ReaderSteady ==
    ASSUME BusInv, Steady, NEW s \in Conns, ReaderStep(s)
    PROVE  SessionsTypeOK' /\ Stages' /\ UNCHANGED work
<1>1. TypeOK /\ SessionsTypeOK /\ Stages /\ ReaderStages
  BY DEF Steady, BusInv, PlacementInv
<1>2. UNCHANGED <<open, cancelled, toNack, work, seen, taken>>
  BY DEF ReaderStep, AckFrame, NackFrame, RepFrame, ReadFrame, OtherFrame, DropInflight,
         RepClaims, RepAcks
<1>3. /\ open \in [Conns -> BOOLEAN] /\ cancelled \in [Conns -> BOOLEAN]
      /\ tracked \in [Conns -> SUBSET Deliveries]
      /\ toNack \in [Conns -> SUBSET Deliveries]
      /\ repAck \in [Conns -> [Ids -> Deliveries \cup {NoDelivery}]]
      /\ reader \in [Conns -> [at : ReaderPCs, d : Deliveries \cup {NoDelivery}]]
      /\ seen \in [Conns -> SUBSET Deliveries]
      /\ taken \in [Conns -> SUBSET Deliveries]
  BY <1>1 DEF SessionsTypeOK
<1>4. ASSUME UNCHANGED pc, tracked' \in [Conns -> SUBSET Deliveries],
             repAck' \in [Conns -> [Ids -> Deliveries \cup {NoDelivery}]],
             reader' \in [Conns -> [at : ReaderPCs, d : Deliveries \cup {NoDelivery}]]
      PROVE  SessionsTypeOK' /\ Stages' /\ UNCHANGED work
  BY <1>1, <1>2, <1>3, <1>4, WorkStays DEF SessionsTypeOK, Works
<1>5. ASSUME NEW at \in ReaderPCs, NEW d \in Deliveries \cup {NoDelivery}
      PROVE  [reader EXCEPT ![s] = [at |-> at, d |-> d]]
                \in [Conns -> [at : ReaderPCs, d : Deliveries \cup {NoDelivery}]]
  BY <1>3
<1>6. ASSUME NEW at \in ReaderPCs
      PROVE  [reader EXCEPT ![s].at = at]
                \in [Conns -> [at : ReaderPCs, d : Deliveries \cup {NoDelivery}]]
  BY <1>3
<1>7. {"read", "handle", "drop", "claim", "ack"} \subseteq ReaderPCs
  BY DEF ReaderPCs
<1>8. Read(s) => reader' \in [Conns -> [at : ReaderPCs, d : Deliveries \cup {NoDelivery}]]
  BY <1>5, <1>7 DEF Read, Reading
<1>9. ASSUME NEW d \in Deliveries, AckFrame(s, d) \/ NackFrame(s, d)
      PROVE  SessionsTypeOK' /\ Stages' /\ UNCHANGED work
  <2>1. pc' = pc
    BY <1>1, <1>9, LeaseEffects DEF AckFrame, NackFrame
  <2>2. UNCHANGED <<tracked, repAck>> /\ LeaseFrameReplied(s, d)
    BY <1>9 DEF AckFrame, NackFrame
  <2>3. reader' \in [Conns -> [at : ReaderPCs, d : Deliveries \cup {NoDelivery}]]
    BY <1>5, <1>7, <1>8, <2>2 DEF LeaseFrameReplied
  <2> QED BY <1>3, <1>4, <2>1, <2>2, <2>3
<1>10. ASSUME NEW id \in Ids, RepFrame(s, id)
       PROVE  SessionsTypeOK' /\ Stages' /\ UNCHANGED work
  <2>1. /\ pc' = pc /\ UNCHANGED tracked
        /\ repAck' = [repAck EXCEPT ![s][id] = NoDelivery]
        /\ reader' = [reader EXCEPT ![s] = [at |-> "claim", d |-> repAck[s][id]]]
    BY <1>10 DEF RepFrame, vars
  <2>2. repAck[s] \in [Ids -> Deliveries \cup {NoDelivery}]
    BY <1>3
  <2>3. [repAck[s] EXCEPT ![id] = NoDelivery] \in [Ids -> Deliveries \cup {NoDelivery}]
    BY <2>2
  <2>4. repAck' \in [Conns -> [Ids -> Deliveries \cup {NoDelivery}]]
    BY <1>3, <2>1, <2>3
  <2>5. repAck[s][id] \in Deliveries \cup {NoDelivery} /\ "claim" \in ReaderPCs
    BY <1>7, <2>2
  <2>6. reader' \in [Conns -> [at : ReaderPCs, d : Deliveries \cup {NoDelivery}]]
    BY <1>5, <2>1, <2>5
  <2>7. tracked' \in [Conns -> SUBSET Deliveries]
    BY <1>3, <2>1
  <2> QED BY <1>4, <2>1, <2>4, <2>6, <2>7
<1>11. CASE ReadFrame(s) \/ OtherFrame(s)
  <2>1. UNCHANGED <<tracked, repAck, pc>> /\ (Read(s) \/ reader' = [reader EXCEPT ![s].at = "handle"])
    BY <1>11 DEF ReadFrame, OtherFrame, vars
  <2>2. reader' \in [Conns -> [at : ReaderPCs, d : Deliveries \cup {NoDelivery}]]
    BY <1>6, <1>7, <1>8, <2>1
  <2>3. /\ tracked' \in [Conns -> SUBSET Deliveries]
        /\ repAck' \in [Conns -> [Ids -> Deliveries \cup {NoDelivery}]]
    BY <1>3, <2>1
  <2> QED BY <1>4, <2>1, <2>2, <2>3
<1>12. CASE DropInflight(s)
  <2>1. pc' = pc /\ UNCHANGED repAck /\ Read(s)
        /\ tracked' = [tracked EXCEPT ![s] = @ \ {reader[s].d}]
    BY <1>12 DEF DropInflight, vars
  <2>2. tracked' \in [Conns -> SUBSET Deliveries]
    BY <1>3, <2>1
  <2>3. repAck' \in [Conns -> [Ids -> Deliveries \cup {NoDelivery}]]
    BY <1>3, <2>1
  <2> QED BY <1>4, <1>8, <2>1, <2>2, <2>3
<1>13. CASE RepClaims(s)
  <2>1. /\ pc' = pc /\ UNCHANGED repAck
        /\ tracked' = tracked \/ tracked' = [tracked EXCEPT ![s] = @ \ {reader[s].d}]
        /\ Read(s) \/ reader' = [reader EXCEPT ![s].at = "ack"]
    BY <1>13 DEF RepClaims, Claims, vars
  <2>2. tracked' \in [Conns -> SUBSET Deliveries]
    <3>1. tracked[s] \ {reader[s].d} \in SUBSET Deliveries
      BY <1>3
    <3>2. CASE tracked' = [tracked EXCEPT ![s] = @ \ {reader[s].d}]
      BY <1>3, <3>1, <3>2
    <3> QED BY <1>3, <2>1, <3>2
  <2>3. "ack" \in ReaderPCs
    BY <1>7
  <2>4. reader' \in [Conns -> [at : ReaderPCs, d : Deliveries \cup {NoDelivery}]]
    BY <1>6, <1>8, <2>1, <2>3
  <2>5. repAck' \in [Conns -> [Ids -> Deliveries \cup {NoDelivery}]]
    BY <1>3, <2>1
  <2> QED BY <1>4, <2>1, <2>2, <2>4, <2>5
<1>14. CASE RepAcks(s)
  <2>1. reader[s].d \in Deliveries
    BY <1>1, <1>3, <1>14 DEF RepAcks, ReaderStages
  <2>2. pc' = pc
    BY <1>1, <1>14, <2>1, LeaseEffects DEF RepAcks
  <2> QED BY <1>3, <1>4, <1>8, <1>14, <2>2 DEF RepAcks
<1> QED BY <1>1, <1>9, <1>10, <1>11, <1>12, <1>13, <1>14, KnownIds DEF ReaderStep

\* So does the end of a session.
LEMMA EndSteady ==
    ASSUME BusInv, Steady, NEW s \in Conns, EndStep(s)
    PROVE  SessionsTypeOK' /\ Stages' /\ UNCHANGED <<work, reader>>
<1>1. TypeOK /\ SessionsTypeOK /\ Stages
  BY DEF Steady, BusInv, PlacementInv
<1>2. UNCHANGED <<repAck, work, reader, seen, taken>>
  BY DEF EndStep, CloseSession, ContextDone, NackCopied
<1>3. pc' = pc
  <2>1. ASSUME NEW d \in Deliveries, NackCopied(s, d) PROVE pc' = pc
    BY <1>1, <2>1, LeaseEffects DEF NackCopied
  <2> QED BY <2>1 DEF EndStep, CloseSession, ContextDone, vars
<1>4. /\ open' \in [Conns -> BOOLEAN] /\ cancelled' \in [Conns -> BOOLEAN]
      /\ tracked' \in [Conns -> SUBSET Deliveries]
      /\ toNack' \in [Conns -> SUBSET Deliveries]
  BY <1>1 DEF EndStep, CloseSession, Closes, ContextDone, NackCopied, SessionsTypeOK
<1> QED BY <1>1, <1>2, <1>3, <1>4, WorkStays DEF SessionsTypeOK, Works

\* Types and stages, for every step of the hub.
LEMMA TypesStay ==
    ASSUME BusInv, BusInv', Steady, [NextSessions]_allVars
    PROVE  SessionsTypeOK' /\ Stages'
<1>1. TypeOK /\ SessionsTypeOK /\ Stages
  BY DEF Steady, BusInv, PlacementInv
<1>2. CASE BusStep \/ UNCHANGED allVars
  <2>1. UNCHANGED hubVars /\ pc' = pc
    BY <1>1, <1>2, BusStepEffects DEF allVars, vars
  <2> QED BY <1>1, <2>1, WorkStays DEF hubVars, SessionsTypeOK
<1> QED BY <1>2, JobSteady, ReaderSteady, EndSteady DEF NextSessions

-----------------------------------------------------------------------------
(* A delivery is the business of one session.                              *)

\* A session has to do with a delivery: it is on its lists, its client was told the
\* id or a rep names it, it was written for a take, or a goroutine has it.  A reader
\* that drops an id does not count: the id may be that of another session.
Lists(s, d) == d \in tracked[s] \cup toNack[s]

Repping(s, d) == reader[s].at \in {"claim", "ack"} /\ reader[s].d = d

Told(s, d) ==
    d \in seen[s] \/ Repping(s, d) \/ \E id \in Ids : repAck[s][id] = d

Uses(s, d) ==
    \/ Lists(s, d) \/ Told(s, d) \/ d \in taken[s]
    \/ \E t \in Takers : SessionOf[t] = s /\ work[t].d = d

\* Only ids that were issued are in use, and each in one session.
Owned ==
    \A d \in Deliveries, s \in Conns : Uses(s, d) =>
        /\ d \in issued
        /\ \A r \in Conns : Uses(r, d) => r = s

\* A step of session s changes nothing that belongs to another session.
Alone(s) ==
    /\ \A r \in Conns : r # s =>
          /\ open'[r] = open[r] /\ tracked'[r] = tracked[r] /\ toNack'[r] = toNack[r]
          /\ repAck'[r] = repAck[r] /\ reader'[r] = reader[r] /\ seen'[r] = seen[r]
          /\ taken'[r] = taken[r]
    /\ \A t \in Takers : SessionOf[t] # s => work'[t] = work[t]

\* A job goroutine changes its own session only, and so do a reader and a close().
LEMMA OneSession ==
    ASSUME BusInv, BusInv', Steady
    PROVE  /\ \A t \in Takers : JobStep(t) => Alone(SessionOf[t])
           /\ \A s \in Conns : ReaderStep(s) \/ EndStep(s) => Alone(s)
<1>1. /\ open \in [Conns -> BOOLEAN] /\ tracked \in [Conns -> SUBSET Deliveries]
      /\ toNack \in [Conns -> SUBSET Deliveries]
      /\ repAck \in [Conns -> [Ids -> Deliveries \cup {NoDelivery}]]
      /\ reader \in [Conns -> [at : ReaderPCs, d : Deliveries \cup {NoDelivery}]]
      /\ seen \in [Conns -> SUBSET Deliveries] /\ taken \in [Conns -> SUBSET Deliveries]
  BY DEF Steady, SessionsTypeOK
<1>2. ASSUME NEW t \in Takers, JobStep(t) PROVE Alone(SessionOf[t])
  <2> DEFINE s == SessionOf[t]
  <2>1. s \in Conns
    BY SessionsAssumption
  <2>2. \A u \in Takers : SessionOf[u] # s => work'[u] = work[u]
    BY <1>2, JobSteady
  <2> HIDE DEF s
  <2>3. ASSUME NEW r \in Conns, r # s
        PROVE  /\ open'[r] = open[r] /\ tracked'[r] = tracked[r] /\ toNack'[r] = toNack[r]
               /\ repAck'[r] = repAck[r] /\ reader'[r] = reader[r] /\ seen'[r] = seen[r]
               /\ taken'[r] = taken[r]
    <3>1. /\ open' = open \/ open' = [open EXCEPT ![s] = FALSE]
          /\ \/ tracked' = tracked
             \/ \E x : tracked' = [tracked EXCEPT ![s] = x]
          /\ toNack' = toNack \/ \E x : toNack' = [toNack EXCEPT ![s] = x]
          /\ reader' = reader \/ \E x : reader' = [reader EXCEPT ![s] = x]
          /\ seen' = seen \/ \E x : seen' = [seen EXCEPT ![s] = x]
          /\ taken' = taken \/ \E x : taken' = [taken EXCEPT ![s] = x]
      BY <1>2 DEF JobStep, JobFrame, JobTakes, JobReceives, JobTakeFails, JobHolds,
             JobHoldFails, JobRequeues, JobTracks, JobTracksRep, JobWrites, JobWriteFails,
             JobClaims, JobAcks, Closes, Claims, Read, hubVars, s
    <3>2. repAck' = repAck \/ \E id, x : repAck' = [repAck EXCEPT ![s][id] = x]
      BY <1>2 DEF JobStep, JobFrame, JobTakes, JobReceives, JobTakeFails, JobHolds,
             JobHoldFails, JobRequeues, JobTracks, JobTracksRep, JobWrites, JobWriteFails,
             JobClaims, JobAcks, Closes, Claims, Read, hubVars, s
    <3> QED BY <1>1, <2>1, <2>3, <3>1, <3>2
  <2> QED BY <2>2, <2>3 DEF Alone, s
<1>3. ASSUME NEW s \in Conns, ReaderStep(s) PROVE Alone(s)
  <2>1. UNCHANGED work
    BY <1>3, ReaderSteady
  <2>2. ASSUME NEW r \in Conns, r # s
        PROVE  /\ open'[r] = open[r] /\ tracked'[r] = tracked[r] /\ toNack'[r] = toNack[r]
               /\ repAck'[r] = repAck[r] /\ reader'[r] = reader[r] /\ seen'[r] = seen[r]
               /\ taken'[r] = taken[r]
    <3>1. /\ UNCHANGED <<open, toNack, seen, taken>>
          /\ tracked' = tracked \/ \E x : tracked' = [tracked EXCEPT ![s] = x]
          /\ reader' = [reader EXCEPT ![s].at = "handle"]
             \/ reader' = [reader EXCEPT ![s].at = "ack"]
             \/ \E x : reader' = [reader EXCEPT ![s] = x]
          /\ repAck' = repAck \/ \E id \in Ids : repAck' = [repAck EXCEPT ![s][id] = NoDelivery]
      BY <1>3 DEF ReaderStep, AckFrame, NackFrame, RepFrame, ReadFrame, OtherFrame,
             DropInflight, RepClaims, RepAcks, LeaseFrameReplied, Claims, Read
    <3> QED BY <1>1, <2>2, <3>1
  <2> QED BY <2>1, <2>2 DEF Alone
<1>4. ASSUME NEW s \in Conns, EndStep(s) PROVE Alone(s)
  BY <1>1, <1>4 DEF EndStep, CloseSession, Closes, ContextDone, NackCopied, Alone
<1> QED BY <1>2, <1>3, <1>4

\* Ownership is kept by a step of one session that learns only a new id.
LEMMA OwnedKept ==
    ASSUME Owned, NEW s \in Conns, Alone(s), issued \subseteq issued',
           \A d \in Deliveries : Uses(s, d)' => Uses(s, d) \/ d \in issued' \ issued
    PROVE  Owned'
<1>1. ASSUME NEW d \in Deliveries, NEW r \in Conns, r # s, Uses(r, d)'
      PROVE  Uses(r, d)
  BY <1>1 DEF Uses, Lists, Told, Repping, Alone
<1>2. ASSUME NEW d \in Deliveries, NEW r \in Conns, Uses(r, d)'
      PROVE  /\ d \in issued'
             /\ \A p \in Conns : Uses(p, d)' => p = r
  BY <1>1, <1>2 DEF Owned
<1> QED BY <1>2 DEF Owned

\* A goroutine knows no id but those its session knew, until Hold gives it one.
LEMMA JobUses ==
    ASSUME BusInv, BusInv', Steady, NEW t \in Takers, JobStep(t)
    PROVE  /\ issued \subseteq issued'
           /\ \A d \in Deliveries :
                 Uses(SessionOf[t], d)' => Uses(SessionOf[t], d) \/ d \in issued' \ issued
<1> DEFINE s == SessionOf[t]
<1>1. TypeOK /\ SessionsTypeOK /\ Stages /\ s \in Conns /\ NoDelivery \notin Deliveries
  BY SessionsAssumption DEF Steady, BusInv, PlacementInv
<1>2. \A u \in Takers : u # t => work'[u] = work[u]
  BY JobSteady
<1>3. /\ tracked \in [Conns -> SUBSET Deliveries]
      /\ toNack \in [Conns -> SUBSET Deliveries]
      /\ repAck \in [Conns -> [Ids -> Deliveries \cup {NoDelivery}]]
      /\ reader \in [Conns -> [at : ReaderPCs, d : Deliveries \cup {NoDelivery}]]
      /\ seen \in [Conns -> SUBSET Deliveries] /\ taken \in [Conns -> SUBSET Deliveries]
      /\ work \in [Takers -> Works]
  BY <1>1 DEF SessionsTypeOK, Works
<1>4. \A at : [work[t] EXCEPT !.at = at].d = work[t].d
  BY <1>3 DEF Works
<1>5. Idle.d = NoDelivery
  BY DEF Idle
<1>6. ASSUME UNCHANGED issued,
             \A d \in Deliveries : Uses(s, d)' => Uses(s, d)
      PROVE  /\ issued \subseteq issued'
             /\ \A d \in Deliveries : Uses(s, d)' => Uses(s, d) \/ d \in issued' \ issued
  BY <1>6
<1>7. CASE \/ \E kind \in Kinds : JobFrame(t, kind)
           \/ JobTakes(t) \/ JobReceives(t) \/ JobTakeFails(t)
           \/ JobHoldFails(t) \/ JobRequeues(t) \/ JobAcks(t) \/ JobClaims(t)
  <2>1. issued' = issued
    <3>1. JobAcks(t) => work[t].d \in Deliveries
      BY <1>1, <1>3 DEF JobAcks, At, Stages, Stage, HasDelivery, Works
    <3>2. CASE JobAcks(t)
      BY <1>1, <3>1, <3>2, LeaseEffects DEF JobAcks, Releases
    <3>3. CASE JobTakes(t) \/ JobReceives(t) \/ JobTakeFails(t) \/ JobHoldFails(t)
               \/ JobRequeues(t)
      BY <1>1, <3>3, TakerEffects
         DEF JobTakes, JobReceives, JobTakeFails, JobHoldFails, JobRequeues, Releases, vars
    <3> QED BY <1>7, <3>2, <3>3 DEF JobFrame, JobClaims, vars
  <2>2. work'[t].d \in {work[t].d, NoDelivery}
    <3>1. \/ work' = work
          \/ work' = [work EXCEPT ![t] = Idle]
          \/ \E kind \in Kinds :
                work' = [work EXCEPT ![t] = [Idle EXCEPT !.at = "take", !.kind = kind]]
          \/ work' = [work EXCEPT ![t] = [work[t] EXCEPT !.at = "ack"]]
      BY <1>7 DEF JobFrame, JobTakes, JobReceives, JobTakeFails, JobHoldFails, JobRequeues,
                  JobAcks, JobClaims, Done, Goto, hubVars
    <3>2. \A kind \in Kinds : [Idle EXCEPT !.at = "take", !.kind = kind].d = NoDelivery
      BY DEF Idle
    <3>3. \A w : work' = [work EXCEPT ![t] = w] => work'[t] = w
      BY <1>3
    <3> QED BY <1>4, <1>5, <3>1, <3>2, <3>3
  <2>3. /\ toNack'[s] = toNack[s] /\ seen'[s] = seen[s] /\ repAck'[s] = repAck[s]
        /\ reader'[s] \in {reader[s], Reading} /\ tracked'[s] \subseteq tracked[s]
        /\ taken'[s] = taken[s]
    <3>1. /\ UNCHANGED <<toNack, seen, taken, repAck>>
          /\ tracked' = tracked \/ tracked' = [tracked EXCEPT ![s] = @ \ {work[t].d}]
          /\ reader' = reader \/ reader' = [reader EXCEPT ![s] = Reading]
      BY <1>7 DEF JobFrame, JobTakes, JobReceives, JobTakeFails, JobHoldFails, JobRequeues,
                  JobAcks, JobClaims, Claims, Read, hubVars
    <3> QED BY <1>1, <1>3, <3>1
  <2> HIDE DEF s
  <2>4. ASSUME NEW d \in Deliveries, Uses(s, d)' PROVE Uses(s, d)
    BY <1>1, <1>2, <2>2, <2>3, <2>4 DEF Uses, Lists, Told, Repping, Reading
  <2> QED BY <1>6, <2>1, <2>4 DEF s
<1>8. ASSUME NEW e \in Deliveries, JobHolds(t, e)
      PROVE  /\ issued \subseteq issued'
             /\ \A d \in Deliveries : Uses(s, d)' => Uses(s, d) \/ d \in issued' \ issued
  <2>1. e \notin issued /\ issued' = issued \cup {e}
    BY <1>1, <1>8, HoldEffects DEF JobHolds
  <2>2. work'[t].d = e /\ UNCHANGED <<tracked, toNack, seen, taken, repAck, reader>>
    BY <1>3, <1>8 DEF JobHolds, Works
  <2> HIDE DEF s
  <2>3. \A d \in Deliveries : Uses(s, d)' => Uses(s, d) \/ d = e
    BY <1>2, <2>2 DEF Uses, Lists, Told, Repping
  <2> QED BY <2>1, <2>3
<1>9. CASE JobTracks(t) \/ JobTracksRep(t) \/ JobWrites(t)
  <2>1. issued' = issued
    BY <1>9 DEF JobTracks, JobTracksRep, JobWrites, vars
  <2>2. work'[t].d \in {work[t].d, NoDelivery}
    <3>1. CASE Done(t)
      BY <1>3, <3>1 DEF Done, Idle
    <3>2. ASSUME NEW at, Goto(t, at) PROVE work'[t].d = work[t].d
      BY <1>3, <3>2 DEF Goto, Works
    <3> QED BY <1>9, <3>1, <3>2 DEF JobTracks, JobTracksRep, JobWrites
  <2>3. /\ toNack'[s] = toNack[s] /\ reader'[s] = reader[s]
        /\ seen'[s] \subseteq seen[s] \cup {work[t].d}
        /\ taken'[s] \subseteq taken[s] \cup {work[t].d}
        /\ tracked'[s] \subseteq tracked[s] \cup {work[t].d}
        /\ \A id \in Ids : repAck'[s][id] \in {repAck[s][id], work[t].d}
    <3>1. CASE JobTracks(t)
      BY <1>1, <1>3, <3>1 DEF JobTracks
    <3>2. CASE JobTracksRep(t)
      BY <1>1, <1>3, <3>2 DEF JobTracksRep
    <3>3. CASE JobWrites(t)
      BY <1>1, <1>3, <3>3 DEF JobWrites
    <3> QED BY <1>9, <3>1, <3>2, <3>3
  <2> HIDE DEF s
  <2>4. ASSUME NEW d \in Deliveries, Uses(s, d)' PROVE Uses(s, d)
    <3>1. d = work[t].d => Uses(s, d)
      BY DEF Uses, s
    <3> QED BY <1>1, <1>2, <2>2, <2>3, <2>4, <3>1 DEF Uses, Lists, Told, Repping
  <2> QED BY <1>6, <2>1, <2>4 DEF s
<1>10. CASE JobWriteFails(t)
  <2>1. issued' = issued /\ work' = [work EXCEPT ![t] = Idle]
    BY <1>10 DEF JobWriteFails, Done, vars
  <2>2. /\ toNack'[s] \subseteq toNack[s] \cup tracked[s] /\ reader'[s] = reader[s]
        /\ seen'[s] = seen[s] /\ taken'[s] = taken[s] /\ tracked'[s] \subseteq tracked[s]
        /\ \A id \in Ids : repAck'[s][id] \in {repAck[s][id], NoDelivery}
    BY <1>1, <1>3, <1>10 DEF JobWriteFails, Closes
  <2> HIDE DEF s
  <2>3. work'[t].d = NoDelivery
    BY <1>3, <1>5, <2>1
  <2>4. ASSUME NEW d \in Deliveries, Uses(s, d)' PROVE Uses(s, d)
    BY <1>1, <1>2, <2>2, <2>3, <2>4 DEF Uses, Lists, Told, Repping
  <2> QED BY <1>6, <2>1, <2>4 DEF s
<1> QED BY <1>7, <1>8, <1>9, <1>10 DEF JobStep

\* The reader and the end of a session learn nothing.
LEMMA SessionUses ==
    ASSUME BusInv, Steady, NEW s \in Conns, ReaderStep(s) \/ EndStep(s)
    PROVE  /\ issued' = issued
           /\ \A d \in Deliveries : Uses(s, d)' => Uses(s, d)
<1>1. TypeOK /\ SessionsTypeOK /\ ReaderStages /\ NoDelivery \notin Deliveries
  BY SessionsAssumption DEF Steady, BusInv, PlacementInv
<1>2. /\ tracked \in [Conns -> SUBSET Deliveries]
      /\ toNack \in [Conns -> SUBSET Deliveries]
      /\ repAck \in [Conns -> [Ids -> Deliveries \cup {NoDelivery}]]
      /\ reader \in [Conns -> [at : ReaderPCs, d : Deliveries \cup {NoDelivery}]]
      /\ seen \in [Conns -> SUBSET Deliveries]
      /\ Known \subseteq Deliveries
  BY <1>1, KnownIds DEF SessionsTypeOK
<1>3. UNCHANGED work
  BY ReaderSteady, EndSteady
<1>4. issued' = issued
  <2>1. ASSUME NEW d \in Deliveries, AckIfLeased(d) \/ NackIfLeased(d) PROVE issued' = issued
    BY <1>1, <2>1, LeaseEffects DEF Releases
  <2>2. RepAcks(s) => reader[s].d \in Deliveries
    BY <1>1, <1>2 DEF RepAcks, ReaderStages
  <2>3. RepAcks(s) => issued' = issued
    BY <2>1, <2>2 DEF RepAcks
  <2> QED BY <1>2, <2>1, <2>3
          DEF ReaderStep, EndStep, AckFrame, NackFrame, RepFrame, ReadFrame, OtherFrame,
              DropInflight, RepClaims, CloseSession, ContextDone, NackCopied, vars
<1>5. CASE EndStep(s)
  <2>1. /\ UNCHANGED <<repAck, reader, seen, taken>>
        /\ tracked'[s] \subseteq tracked[s] /\ toNack'[s] \subseteq toNack[s] \cup tracked[s]
    BY <1>2, <1>5 DEF EndStep, CloseSession, Closes, ContextDone, NackCopied
  <2> QED BY <1>3, <1>4, <2>1 DEF Uses, Lists, Told, Repping
<1>6. CASE ReaderStep(s)
  <2>1. UNCHANGED <<toNack, seen, taken>> /\ tracked'[s] \subseteq tracked[s]
        /\ \A id \in Ids : repAck'[s][id] \in {repAck[s][id], NoDelivery}
    BY <1>2, <1>6 DEF ReaderStep, AckFrame, NackFrame, RepFrame, ReadFrame, OtherFrame,
             DropInflight, RepClaims, RepAcks, Claims
  <2>2. \A d \in Deliveries : Repping(s, d)' =>
           Repping(s, d) \/ \E id \in Ids : repAck[s][id] = d
    BY <1>2, <1>6 DEF ReaderStep, AckFrame, NackFrame, RepFrame, ReadFrame, OtherFrame,
             DropInflight, RepClaims, RepAcks, LeaseFrameReplied, Read, Reading, Handles, Repping
  <2> QED BY <1>1, <1>3, <1>4, <2>1, <2>2 DEF Uses, Lists, Told
<1> QED BY <1>5, <1>6

\* Ids and their owners, for every step of the hub.
LEMMA OwnedStays ==
    ASSUME BusInv, BusInv', Steady, Owned, [NextSessions]_allVars
    PROVE  Owned' /\ issued \subseteq issued'
<1>1. CASE BusStep \/ UNCHANGED allVars
  <2>1. UNCHANGED hubVars /\ issued' = issued
    BY <1>1, BusStepEffects DEF allVars, vars, Releases, BusInv, PlacementInv
  <2> QED BY <2>1 DEF hubVars, Owned, Uses, Lists, Told, Repping
<1>2. ASSUME NEW t \in Takers, JobStep(t) PROVE Owned' /\ issued \subseteq issued'
  <2>1. SessionOf[t] \in Conns
    BY SessionsAssumption
  <2> QED BY <1>2, <2>1, OneSession, JobUses, OwnedKept
<1>3. ASSUME NEW s \in Conns, ReaderStep(s) \/ EndStep(s) PROVE Owned' /\ issued \subseteq issued'
  BY <1>3, OneSession, SessionUses, OwnedKept
<1> QED BY <1>1, <1>2, <1>3 DEF NextSessions

-----------------------------------------------------------------------------
(* Leases only end, so a reader that drops an id drops no lease.           *)

\* The lease of an id that was issued only ends.
LEMMA LeasesEnd ==
    ASSUME BusInv, Steady, [NextSessions]_allVars
    PROVE  \A e \in issued : inflight'[e] \in {inflight[e], NoJob}
<1>1. TypeOK /\ SessionsTypeOK /\ Stages /\ ReaderStages /\ NoDelivery \notin Deliveries
      /\ issued \subseteq Deliveries
  BY SessionsAssumption DEF Steady, BusInv, PlacementInv, TypeOK
<1>2. CASE BusStep \/ UNCHANGED vars
  BY <1>1, <1>2, BusStepEffects DEF vars, Releases
<1>3. ASSUME NEW d \in Deliveries, AckIfLeased(d) \/ NackIfLeased(d)
      PROVE  \A e \in issued : inflight'[e] \in {inflight[e], NoJob}
  BY <1>1, <1>3, LeaseEffects DEF Releases
<1>4. ASSUME NEW t \in Takers, JobStep(t)
      PROVE  \A e \in issued : inflight'[e] \in {inflight[e], NoJob}
  <2>1. ASSUME NEW d \in Deliveries, JobHolds(t, d)
        PROVE  \A e \in issued : inflight'[e] \in {inflight[e], NoJob}
    BY <1>1, <2>1, HoldEffects DEF JobHolds
  <2>2. CASE JobTakes(t) \/ JobReceives(t) \/ JobTakeFails(t) \/ JobHoldFails(t)
             \/ JobRequeues(t)
    BY <1>1, <1>2, <2>2, TakerEffects
       DEF JobTakes, JobReceives, JobTakeFails, JobHoldFails, JobRequeues, Releases
  <2>3. CASE JobAcks(t)
    <3>1. work[t].d \in Deliveries
      BY <1>1, <2>3 DEF JobAcks, At, SessionsTypeOK, Stages, Stage, HasDelivery
    <3> QED BY <1>3, <2>3, <3>1 DEF JobAcks
  <2>4. CASE \/ \E kind \in Kinds : JobFrame(t, kind)
             \/ JobTracks(t) \/ JobTracksRep(t) \/ JobWrites(t) \/ JobWriteFails(t)
             \/ JobClaims(t)
    BY <1>2, <2>4 DEF JobFrame, JobTracks, JobTracksRep, JobWrites, JobWriteFails, JobClaims
  <2> QED BY <1>4, <2>1, <2>2, <2>3, <2>4 DEF JobStep
<1>5. ASSUME NEW s \in Conns, ReaderStep(s)
      PROVE  \A e \in issued : inflight'[e] \in {inflight[e], NoJob}
  <2>1. (RepAcks(s) => reader[s].d \in Deliveries) /\ Known \subseteq Deliveries
    BY <1>1, KnownIds DEF RepAcks, ReaderStages, SessionsTypeOK
  <2> QED BY <1>2, <1>3, <1>5, <2>1
          DEF ReaderStep, AckFrame, NackFrame, RepFrame, ReadFrame, OtherFrame,
              DropInflight, RepClaims, RepAcks
<1>6. ASSUME NEW s \in Conns, EndStep(s)
      PROVE  \A e \in issued : inflight'[e] \in {inflight[e], NoJob}
  BY <1>2, <1>3, <1>6 DEF EndStep, CloseSession, ContextDone, NackCopied
<1>7. CASE UNCHANGED allVars
  BY <1>2, <1>7 DEF allVars
<1> QED BY <1>2, <1>4, <1>5, <1>6, <1>7 DEF NextSessions

\* The ids that frames name were issued.
LEMMA KnownIssued ==
    ASSUME SessionsTypeOK, Owned
    PROVE  Known \subseteq issued
BY DEF SessionsTypeOK, Known, Owned, Uses, Told

\* A reader that did not move, while other leases end.
LEMMA ReaderWaits ==
    ASSUME Steady, \A e \in issued : inflight'[e] \in {inflight[e], NoJob},
           issued \subseteq issued',
           NEW s \in Conns, reader'[s] \in {reader[s], Reading}
    PROVE  /\ reader'[s].d = NoDelivery <=> reader'[s].at \in {"read", "handle"}
           /\ reader'[s].at = "drop" =>
                 reader'[s].d \in issued' /\ inflight'[reader'[s].d] = NoJob
<1>1. /\ reader[s].d = NoDelivery <=> reader[s].at \in {"read", "handle"}
      /\ reader[s].at = "drop" => reader[s].d \in issued /\ inflight[reader[s].d] = NoJob
  BY DEF Steady, ReaderStages
<1> QED BY <1>1 DEF Reading

\* A reader that has dropped or claims has an id, and what it drops is not leased.
LEMMA ReadersStay ==
    ASSUME BusInv, BusInv', Steady, Owned, [NextSessions]_allVars
    PROVE  ReaderStages'
<1>1. TypeOK /\ SessionsTypeOK /\ Stages /\ ReaderStages /\ NoDelivery \notin Deliveries
      /\ issued \subseteq Deliveries
  BY SessionsAssumption DEF Steady, BusInv, PlacementInv, TypeOK
<1>2. /\ \A e \in issued : inflight'[e] \in {inflight[e], NoJob}
      /\ issued \subseteq issued' /\ Known \subseteq issued
  BY <1>1, LeasesEnd, OwnedStays, KnownIssued
<1>3. reader \in [Conns -> [at : ReaderPCs, d : Deliveries \cup {NoDelivery}]]
  BY <1>1 DEF SessionsTypeOK
<1>4. ASSUME \A s \in Conns : reader'[s] \in {reader[s], Reading} PROVE ReaderStages'
  BY <1>2, <1>4, ReaderWaits DEF ReaderStages
<1>5. ASSUME NEW s \in Conns, NEW x, reader' = [reader EXCEPT ![s] = x],
             x.d = NoDelivery <=> x.at \in {"read", "handle"},
             x.at = "drop" => x.d \in issued' /\ inflight'[x.d] = NoJob
      PROVE  ReaderStages'
  <2>1. reader'[s] = x /\ \A r \in Conns : r # s => reader'[r] = reader[r]
    BY <1>3, <1>5
  <2>2. \A r \in Conns : r # s =>
           /\ reader'[r].d = NoDelivery <=> reader'[r].at \in {"read", "handle"}
           /\ reader'[r].at = "drop" =>
                 reader'[r].d \in issued' /\ inflight'[reader'[r].d] = NoJob
    BY <1>2, <2>1, ReaderWaits
  <2> QED BY <1>5, <2>1, <2>2 DEF ReaderStages
<1>6. ASSUME NEW s \in Conns, Read(s) PROVE \A r \in Conns : reader'[r] \in {reader[r], Reading}
  BY <1>3, <1>6 DEF Read
<1>7. CASE BusStep \/ UNCHANGED allVars
  BY <1>4, <1>7 DEF BusStep, hubVars, allVars
<1>8. ASSUME NEW t \in Takers, JobStep(t) PROVE ReaderStages'
  <2>1. SessionOf[t] \in Conns
    BY SessionsAssumption
  <2>2. reader' = reader \/ Read(SessionOf[t])
    BY <1>8 DEF JobStep, JobFrame, JobTakes, JobReceives, JobTakeFails, JobHolds,
             JobHoldFails, JobRequeues, JobTracks, JobTracksRep, JobWrites, JobWriteFails,
             JobClaims, JobAcks, hubVars
  <2> QED BY <1>4, <1>6, <2>1, <2>2
<1>9. ASSUME NEW s \in Conns, EndStep(s) PROVE ReaderStages'
  BY <1>4, <1>9 DEF EndStep, CloseSession, ContextDone, NackCopied
<1>10. ASSUME NEW s \in Conns, ReaderStep(s) PROVE ReaderStages'
  <2>1. ASSUME NEW d \in Known, AckFrame(s, d) \/ NackFrame(s, d) PROVE ReaderStages'
    <3>1. CASE reader' = [reader EXCEPT ![s] = [at |-> "drop", d |-> d]]
      <4>1. d \in Deliveries /\ d \in issued'
        BY <1>1, <1>2
      <4>2. inflight'[d] = NoJob
        BY <1>1, <2>1, <4>1, LeaseEffects DEF AckFrame, NackFrame
      <4> DEFINE x == [at |-> "drop", d |-> d]
      <4>3. x.d = d /\ x.at = "drop" /\ reader' = [reader EXCEPT ![s] = x]
        BY <3>1
      <4> HIDE DEF x
      <4> QED BY <1>1, <1>5, <4>1, <4>2, <4>3
    <3>2. CASE Read(s)
      BY <1>4, <1>6, <3>2
    <3> QED BY <2>1, <3>1, <3>2 DEF AckFrame, NackFrame, LeaseFrameReplied
  <2>2. ASSUME NEW id \in Ids, RepFrame(s, id) PROVE ReaderStages'
    <3> DEFINE x == [at |-> "claim", d |-> repAck[s][id]]
    <3>1. reader' = [reader EXCEPT ![s] = x] /\ x.d # NoDelivery /\ x.at = "claim"
      BY <2>2 DEF RepFrame
    <3> HIDE DEF x
    <3> QED BY <1>5, <3>1
  <2>3. CASE ReadFrame(s)
    <3> DEFINE x == [reader[s] EXCEPT !.at = "handle"]
    <3>1. reader' = [reader EXCEPT ![s] = x]
      BY <2>3 DEF ReadFrame
    <3>2. x.at = "handle" /\ x.d = NoDelivery
      BY <1>1, <1>3, <2>3 DEF ReadFrame, ReaderStages
    <3> HIDE DEF x
    <3> QED BY <1>5, <3>1, <3>2
  <2>4. CASE RepClaims(s)
    <3>1. CASE reader' = [reader EXCEPT ![s].at = "ack"]
      <4> DEFINE x == [reader[s] EXCEPT !.at = "ack"]
      <4>1. reader' = [reader EXCEPT ![s] = x]
        BY <3>1
      <4>2. x.at = "ack" /\ x.d # NoDelivery
        BY <1>1, <1>3, <2>4 DEF RepClaims, ReaderStages
      <4> HIDE DEF x
      <4> QED BY <1>5, <4>1, <4>2
    <3>2. CASE Read(s)
      BY <1>4, <1>6, <3>2
    <3> QED BY <2>4, <3>1, <3>2 DEF RepClaims
  <2>5. CASE OtherFrame(s) \/ DropInflight(s) \/ RepAcks(s)
    BY <1>4, <1>6, <2>5 DEF OtherFrame, DropInflight, RepAcks
  <2> QED BY <1>10, <2>1, <2>2, <2>3, <2>4, <2>5 DEF ReaderStep
<1> QED BY <1>7, <1>8, <1>9, <1>10 DEF NextSessions

-----------------------------------------------------------------------------
(* In its session a delivery has one role at a time.                       *)

\* Inside one session: an open one has copied nothing yet, a goroutine or reader
\* that is about to list or to ack a delivery is not also on the lists, no two
\* goroutines have the same delivery, and neither the client nor a rep can name
\* one that is not listed yet, that trackRepAck has still to enter, or that a take
\* will ack or has acked.
Local(s) ==
    /\ open[s] => toNack[s] = {}
    /\ reader[s].at = "ack" => ~Lists(s, reader[s].d)
    /\ \A d \in taken[s] : ~Told(s, d)
    /\ \A t \in Takers : SessionOf[t] = s /\ HasDelivery(work[t]) =>
          /\ \A u \in Takers : SessionOf[u] = s /\ work[u].d = work[t].d => u = t
          /\ work[t].at \in {"track", "ack"} => ~Lists(s, work[t].d)
          /\ work[t].at \in {"track", "rep"} \/ work[t].kind = "take" => ~Told(s, work[t].d)
          /\ work[t].d \in taken[s] => work[t].kind = "take"

\* The other sessions do not notice.
LEMMA OthersLocal ==
    ASSUME NEW s \in Conns, Alone(s), NEW r \in Conns, r # s, Local(r)
    PROVE  Local(r)'
<1>1. /\ open'[r] = open[r] /\ tracked'[r] = tracked[r] /\ toNack'[r] = toNack[r]
      /\ repAck'[r] = repAck[r] /\ reader'[r] = reader[r] /\ seen'[r] = seen[r]
      /\ taken'[r] = taken[r]
      /\ \A t \in Takers : SessionOf[t] = r => work'[t] = work[t]
  BY DEF Alone
<1>2. \A d : /\ Lists(r, d)' <=> Lists(r, d)
             /\ Told(r, d)' <=> Told(r, d)
  BY <1>1 DEF Lists, Told, Repping
<1> QED BY <1>1, <1>2 DEF Local

\* A step after which the session's lists and words hold nothing new.
LEMMA LocalShrinks ==
    ASSUME NEW s \in Conns, Local(s), open'[s] => toNack'[s] = {}, taken'[s] = taken[s],
           taken[s] \subseteq Deliveries,
           \A d \in Deliveries : /\ Lists(s, d)' => Lists(s, d)
                                 /\ Told(s, d)' => Told(s, d),
           tracked' \in [Conns -> SUBSET Deliveries], toNack' \in [Conns -> SUBSET Deliveries],
           \A d \in Deliveries : reader'[s].at = "ack" /\ reader'[s].d = d => ~Lists(s, d)',
           \A t \in Takers, d \in Deliveries :
              SessionOf[t] = s /\ work'[t].d = d =>
                 /\ HasDelivery(work[t]) /\ work[t].d = d
                 /\ work'[t].kind = work[t].kind
                 /\ work'[t].at = "track" => work[t].at = "track"
                 /\ work'[t].at = "rep" => work[t].at = "rep"
                 /\ work'[t].at = "ack" => work[t].at = "ack" \/ ~Lists(s, d)',
           \A t \in Takers : HasDelivery(work'[t]) => work'[t].d \in Deliveries
    PROVE  Local(s)'
<1>1. ASSUME NEW t \in Takers, NEW d \in Deliveries, SessionOf[t] = s, HasDelivery(work'[t]),
             work'[t].d = d
      PROVE  /\ \A u \in Takers : SessionOf[u] = s /\ work'[u].d = d => u = t
             /\ work'[t].at \in {"track", "ack"} => ~Lists(s, d)'
             /\ work'[t].at \in {"track", "rep"} \/ work'[t].kind = "take" => ~Told(s, d)'
             /\ d \in taken'[s] => work'[t].kind = "take"
  <2>1. /\ HasDelivery(work[t]) /\ work[t].d = d /\ work'[t].kind = work[t].kind
        /\ work'[t].at = "track" => work[t].at = "track"
        /\ work'[t].at = "rep" => work[t].at = "rep"
        /\ work'[t].at = "ack" => work[t].at = "ack" \/ ~Lists(s, d)'
    BY <1>1
  <2>2. \A u \in Takers : SessionOf[u] = s /\ work'[u].d = d => u = t
    BY <1>1, <2>1 DEF Local
  <2>3. /\ work'[t].at \in {"track", "ack"} => ~Lists(s, d)'
        /\ work'[t].at \in {"track", "rep"} \/ work'[t].kind = "take" => ~Told(s, d)'
        /\ d \in taken'[s] => work'[t].kind = "take"
    BY <1>1, <2>1 DEF Local
  <2> QED BY <2>2, <2>3
<1>2. reader'[s].at = "ack" => ~Lists(s, reader[s].d)'
  <2>1. \A d \in Deliveries : Lists(s, d)' <=> d \in tracked'[s] \cup toNack'[s]
    BY DEF Lists
  <2>2. Lists(s, reader[s].d)' <=> reader'[s].d \in tracked'[s] \cup toNack'[s]
    BY DEF Lists
  <2>3. tracked'[s] \cup toNack'[s] \subseteq Deliveries
    OBVIOUS
  <2> QED BY <2>1, <2>2, <2>3
<1>3. ASSUME NEW t \in Takers, SessionOf[t] = s, HasDelivery(work'[t])
      PROVE  /\ \A u \in Takers : SessionOf[u] = s /\ work'[u].d = work'[t].d => u = t
             /\ work'[t].at \in {"track", "ack"} => ~Lists(s, work[t].d)'
             /\ work'[t].at \in {"track", "rep"} \/ work'[t].kind = "take"
                   => ~Told(s, work[t].d)'
             /\ work'[t].d \in taken'[s] => work'[t].kind = "take"
  <2>1. PICK d \in Deliveries : d = work'[t].d
    BY <1>3
  <2>2. /\ \A u \in Takers : SessionOf[u] = s /\ work'[u].d = d => u = t
        /\ work'[t].at \in {"track", "ack"} => ~Lists(s, d)'
        /\ work'[t].at \in {"track", "rep"} \/ work'[t].kind = "take" => ~Told(s, d)'
        /\ d \in taken'[s] => work'[t].kind = "take"
    BY <1>1, <1>3, <2>1
  <2>3. (Lists(s, work[t].d)' <=> Lists(s, d)') /\ (Told(s, work[t].d)' <=> Told(s, d)')
    BY <2>1 DEF Lists, Told, Repping
  <2> QED BY <2>1, <2>2, <2>3
<1>4. \A d \in taken'[s] : ~Told(s, d)'
  BY DEF Local
<1> QED BY <1>2, <1>3, <1>4 DEF Local, HasDelivery

\* A goroutine keeps its session in order.
LEMMA JobLocal ==
    ASSUME BusInv, BusInv', Steady, Owned, NEW t \in Takers, JobStep(t), Local(SessionOf[t])
    PROVE  Local(SessionOf[t])'
<1> DEFINE s == SessionOf[t]
<1>1. TypeOK /\ SessionsTypeOK /\ Stages /\ s \in Conns /\ NoDelivery \notin Deliveries
  BY SessionsAssumption DEF Steady, BusInv, PlacementInv
<1>2. SessionsTypeOK' /\ Stages' /\ \A u \in Takers : u # t => work'[u] = work[u]
  BY JobSteady
<1>3. /\ open \in [Conns -> BOOLEAN] /\ tracked \in [Conns -> SUBSET Deliveries]
      /\ toNack \in [Conns -> SUBSET Deliveries]
      /\ repAck \in [Conns -> [Ids -> Deliveries \cup {NoDelivery}]]
      /\ reader \in [Conns -> [at : ReaderPCs, d : Deliveries \cup {NoDelivery}]]
      /\ seen \in [Conns -> SUBSET Deliveries] /\ taken \in [Conns -> SUBSET Deliveries]
      /\ work \in [Takers -> Works]
  BY <1>1 DEF SessionsTypeOK, Works
<1>4. tracked' \in [Conns -> SUBSET Deliveries] /\ toNack' \in [Conns -> SUBSET Deliveries]
      /\ work' \in [Takers -> Works]
  BY <1>2 DEF SessionsTypeOK, Works
<1>5. \A u \in Takers : /\ HasDelivery(work[u]) <=> work[u].d \in Deliveries
                        /\ HasDelivery(work'[u]) <=> work'[u].d \in Deliveries
  BY <1>1, <1>2, <1>3, <1>4 DEF Stages, Stage, Works
<1>6. Local(s)
  OBVIOUS
<1>7. ASSUME open'[s] => toNack'[s] = {}, taken' = taken,
             \A d \in Deliveries : Lists(s, d)' => Lists(s, d),
             \A d \in Deliveries : Told(s, d)' => Told(s, d),
             reader'[s] \in {reader[s], Reading},
             work'[t].d \in Deliveries =>
                 /\ work'[t].d = work[t].d /\ work'[t].kind = work[t].kind
                 /\ work'[t].at \notin {"track", "rep", "ack"} \/ work'[t].at = work[t].at
                    \/ (work'[t].at = "ack" /\ work[t].d \notin tracked'[s] \cup toNack'[s])
      PROVE  Local(s)'
  <2>1. \A d \in Deliveries : reader'[s].at = "ack" /\ reader'[s].d = d => ~Lists(s, d)'
    BY <1>6, <1>7 DEF Local, Reading
  <2>2. ASSUME NEW u \in Takers, NEW d \in Deliveries, SessionOf[u] = s, work'[u].d = d
        PROVE  /\ HasDelivery(work[u]) /\ work[u].d = d /\ work'[u].kind = work[u].kind
               /\ work'[u].at = "track" => work[u].at = "track"
               /\ work'[u].at = "rep" => work[u].at = "rep"
               /\ work'[u].at = "ack" => work[u].at = "ack" \/ ~Lists(s, d)'
    BY <1>2, <1>5, <1>7, <2>2 DEF Lists
  <2>3. taken'[s] = taken[s] /\ taken[s] \subseteq Deliveries
    BY <1>1, <1>3, <1>7
  <2> QED BY <1>1, <1>4, <1>5, <1>6, <1>7, <2>1, <2>2, <2>3, LocalShrinks
<1> HIDE DEF s
<1>8. CASE \/ \E kind \in Kinds : JobFrame(t, kind)
           \/ JobTakes(t) \/ JobReceives(t) \/ JobTakeFails(t)
           \/ JobHoldFails(t) \/ JobRequeues(t) \/ JobAcks(t)
  <2>1. /\ UNCHANGED <<open, tracked, toNack, seen, taken, repAck>>
        /\ reader' = reader \/ reader' = [reader EXCEPT ![s] = Reading]
        /\ \/ work' = work
           \/ work' = [work EXCEPT ![t] = Idle]
           \/ \E kind \in Kinds :
                 work' = [work EXCEPT ![t] = [Idle EXCEPT !.at = "take", !.kind = kind]]
    BY <1>8 DEF JobFrame, JobTakes, JobReceives, JobTakeFails, JobHoldFails, JobRequeues,
                JobAcks, Done, Read, hubVars, s
  <2>2. work'[t].d \in Deliveries => work'[t] = work[t]
    <3>1. Idle.d = NoDelivery
          /\ \A kind \in Kinds : [Idle EXCEPT !.at = "take", !.kind = kind].d = NoDelivery
      BY DEF Idle
    <3>2. \A w : work' = [work EXCEPT ![t] = w] => work'[t] = w
      BY <1>3
    <3> QED BY <1>1, <2>1, <3>1, <3>2
  <2>3. reader'[s] \in {reader[s], Reading}
    BY <1>1, <1>3, <2>1
  <2>4. \A d \in Deliveries : (Lists(s, d)' => Lists(s, d)) /\ (Told(s, d)' => Told(s, d))
    <3>1. UNCHANGED <<tracked, toNack, seen, repAck>>
      BY <2>1
    <3>2. reader'[s] \in {reader[s], Reading}
      BY <2>3
    <3>3. \A d \in Deliveries : Lists(s, d)' => Lists(s, d)
      BY <3>1 DEF Lists
    <3>4. \A d \in Deliveries : Told(s, d)' => Told(s, d)
      BY <1>1, <3>1, <3>2 DEF Told, Repping, Reading
    <3> QED BY <3>3, <3>4
  <2>5. open'[s] => toNack'[s] = {}
    BY <1>6, <2>1 DEF Local
  <2>6. work'[t].d \in Deliveries =>
            /\ work'[t].d = work[t].d /\ work'[t].kind = work[t].kind
            /\ work'[t].at = work[t].at
    BY <2>2
  <2>7. \A d \in Deliveries : Lists(s, d)' => Lists(s, d)
    BY <2>4
  <2>8. \A d \in Deliveries : Told(s, d)' => Told(s, d)
    BY <2>4
  <2> QED BY <1>7, <2>1, <2>3, <2>5, <2>6, <2>7, <2>8 DEF s
<1>9. CASE JobClaims(t)
  <2>1. /\ UNCHANGED <<open, toNack, seen, taken, repAck, reader>>
        /\ \/ /\ open[s] /\ tracked' = [tracked EXCEPT ![s] = @ \ {work[t].d}]
              /\ work' = [work EXCEPT ![t] = [work[t] EXCEPT !.at = "ack"]]
           \/ UNCHANGED tracked /\ work' = [work EXCEPT ![t] = Idle]
    BY <1>9 DEF JobClaims, Claims, Goto, Done, s
  <2>2. /\ \A d \in Deliveries : (Lists(s, d)' => Lists(s, d)) /\ (Told(s, d)' => Told(s, d))
        /\ open'[s] => toNack'[s] = {}
    BY <1>1, <1>3, <1>6, <2>1 DEF Lists, Told, Repping, Local
  <2>3. work'[t].d \in Deliveries =>
           /\ work'[t].d = work[t].d /\ work'[t].kind = work[t].kind
           /\ work'[t].at = "ack" /\ work[t].d \notin tracked'[s] \cup toNack'[s]
    <3>1. CASE open[s] /\ tracked' = [tracked EXCEPT ![s] = @ \ {work[t].d}]
               /\ work' = [work EXCEPT ![t] = [work[t] EXCEPT !.at = "ack"]]
      <4>1. work'[t] = [work[t] EXCEPT !.at = "ack"] /\ work[t] \in Works
        BY <1>3, <3>1
      <4>2. work'[t].d = work[t].d /\ work'[t].kind = work[t].kind /\ work'[t].at = "ack"
        BY <4>1 DEF Works
      <4>3. toNack'[s] = {} /\ work[t].d \notin tracked'[s]
        BY <1>1, <1>3, <2>1, <2>2, <3>1
      <4> QED BY <4>2, <4>3
    <3>2. CASE work' = [work EXCEPT ![t] = Idle]
      BY <1>1, <1>3, <3>2 DEF Idle
    <3> QED BY <2>1, <3>1, <3>2
  <2> QED BY <1>7, <2>1, <2>2, <2>3 DEF s
<1>10. CASE JobWriteFails(t)
  <2>1. /\ UNCHANGED <<reader, seen, taken>> /\ work' = [work EXCEPT ![t] = Idle]
        /\ \/ /\ open' = [open EXCEPT ![s] = FALSE]
              /\ toNack' = [toNack EXCEPT ![s] = tracked[s]]
              /\ tracked' = [tracked EXCEPT ![s] = {}]
           \/ UNCHANGED <<open, toNack, tracked>>
        /\ repAck' = repAck \/ repAck' = [repAck EXCEPT ![s][IdOf[work[t].job]] = NoDelivery]
    BY <1>10 DEF JobWriteFails, Closes, Done, s
  <2>2. work'[t].d = NoDelivery
    BY <1>3, <2>1 DEF Idle
  <2>3. open'[s] => toNack'[s] = {}
    BY <1>1, <1>3, <1>6, <2>1 DEF Local
  <2>4. \A d \in Deliveries : Lists(s, d)' => Lists(s, d)
    BY <1>1, <1>3, <2>1 DEF Lists
  <2>5. \A id \in Ids : repAck'[s][id] \in {repAck[s][id], NoDelivery}
    BY <1>1, <1>3, <2>1
  <2>6. \A d \in Deliveries : Told(s, d)' => Told(s, d)
    BY <1>1, <2>1, <2>5 DEF Told, Repping
  <2> QED BY <1>1, <1>7, <2>1, <2>2, <2>3, <2>4, <2>6 DEF s
<1>11. ASSUME NEW d \in Deliveries, JobHolds(t, d) PROVE Local(s)'
  <2>1. /\ UNCHANGED <<open, tracked, toNack, seen, taken, repAck, reader>>
        /\ work'[t].d = d
    BY <1>3, <1>11 DEF JobHolds, Works
  <2>2. d \notin issued
    BY <1>1, <1>11, HoldEffects DEF JobHolds
  <2>3. ~Lists(s, d) /\ ~Told(s, d) /\ d \notin taken[s]
    BY <1>1, <2>2 DEF Owned, Uses
  <2>4. \A u \in Takers : work[u].d # d
    BY <1>1, <2>2, SessionsAssumption DEF Owned, Uses
  <2>5. \A e : (Lists(s, e)' <=> Lists(s, e)) /\ (Told(s, e)' <=> Told(s, e))
    BY <2>1 DEF Lists, Told, Repping
  <2>6. /\ open'[s] => toNack'[s] = {}
        /\ reader'[s].at = "ack" => ~(reader'[s].d \in tracked'[s] \cup toNack'[s])
    BY <1>6, <2>1 DEF Local, Lists
  <2>7. ASSUME NEW u \in Takers, SessionOf[u] = s, HasDelivery(work'[u])
        PROVE  /\ \A v \in Takers : SessionOf[v] = s /\ work'[v].d = work'[u].d => v = u
               /\ work'[u].at \in {"track", "ack"} => ~Lists(s, work[u].d)'
               /\ work'[u].at \in {"track", "rep"} \/ work'[u].kind = "take"
                     => ~Told(s, work[u].d)'
               /\ work'[u].d \in taken'[s] => work'[u].kind = "take"
    <3>1. CASE u = t
      <4>1. ~Lists(s, work[t].d)' /\ ~Told(s, work[t].d)'
        BY <2>1, <2>3 DEF Lists, Told, Repping
      <4> QED BY <1>2, <2>1, <2>3, <2>4, <3>1, <4>1
    <3>2. CASE u # t
      <4>1. work'[u] = work[u] /\ HasDelivery(work[u])
        BY <1>2, <2>7, <3>2
      <4>2. \A v \in Takers : SessionOf[v] = s /\ work'[v].d = work'[u].d => v = u
        BY <1>2, <1>6, <2>1, <2>4, <2>7, <4>1 DEF Local
      <4>3. /\ work[u].at \in {"track", "ack"} => ~Lists(s, work[u].d)
            /\ work[u].at \in {"track", "rep"} \/ work[u].kind = "take" => ~Told(s, work[u].d)
            /\ work[u].d \in taken[s] => work[u].kind = "take"
        BY <1>6, <2>7, <4>1 DEF Local
      <4>4. /\ work'[u].at \in {"track", "ack"} => ~Lists(s, work[u].d)'
            /\ work'[u].at \in {"track", "rep"} \/ work'[u].kind = "take"
                  => ~Told(s, work[u].d)'
        BY <2>1, <4>1, <4>3 DEF Lists, Told, Repping
      <4> QED BY <2>1, <4>1, <4>2, <4>3, <4>4
    <3> QED BY <3>1, <3>2
  <2>8. \A e \in taken'[s] : ~Told(s, e)'
    BY <1>6, <2>1, <2>5 DEF Local
  <2> QED BY <2>6, <2>7, <2>8 DEF Local, Lists, HasDelivery
\* The last three: a delivery joins a list or is told, and it is this goroutine's.
<1>12. ASSUME NEW d \in Deliveries, work[t].d = d,
              UNCHANGED <<open, toNack, reader>>,
              work[t].at = "track" \/ tracked' = tracked,
              \A e : Lists(s, e)' => Lists(s, e) \/ e = d,
              \A e \in Deliveries : Told(s, e)' => Told(s, e) \/ e = d,
              work'[t].d \in {d, NoDelivery}, work'[t].at \notin {"track", "ack"},
              work'[t].d = d => work'[t].kind = work[t].kind,
              work[t].kind = "take" \/ work'[t].at = "rep" => (Told(s, d)' => Told(s, d)),
              work'[t].at = "rep" => work[t].at = "track",
              taken'[s] \subseteq taken[s] \cup {d},
              work[t].kind = "take" \/ taken'[s] = taken[s]
       PROVE  Local(s)'
  <2>1. \A u \in Takers : SessionOf[u] = s /\ u # t => work[u].d # d
    BY <1>5, <1>6, <1>12 DEF Local, s
  <2>2. reader'[s].at = "ack" => ~Lists(s, reader[s].d)'
    <3>1. CASE work[t].at = "track"
      <4>1. reader[s].at = "ack" => reader[s].d # d
        BY <1>5, <1>6, <1>12, <3>1 DEF Local, Told, Repping, s
      <4>2. reader[s].at = "ack" => ~Lists(s, reader[s].d)
        BY <1>6 DEF Local
      <4>3. PICK x : x = reader[s].d
        OBVIOUS
      <4>4. reader[s].at = "ack" => ~Lists(s, x)'
        BY <1>12, <4>1, <4>2, <4>3
      <4>5. Lists(s, reader[s].d)' <=> Lists(s, x)'
        BY <1>12, <4>3 DEF Lists
      <4> QED BY <1>12, <4>4, <4>5
    <3>2. CASE tracked' = tracked
      BY <1>6, <1>12, <3>2 DEF Local, Lists
    <3> QED BY <1>12, <3>1, <3>2
  <2>3. work[t].kind = "take" => ~Told(s, d) /\ ~Told(s, d)'
    BY <1>5, <1>6, <1>12 DEF Local, s
  <2>4. d \in taken[s] => work[t].kind = "take"
    BY <1>5, <1>6, <1>12 DEF Local, s
  <2>5. ASSUME NEW u \in Takers, SessionOf[u] = s, HasDelivery(work'[u])
        PROVE  /\ \A v \in Takers : SessionOf[v] = s /\ work'[v].d = work'[u].d => v = u
               /\ work'[u].at \in {"track", "ack"} => ~Lists(s, work[u].d)'
               /\ work'[u].at \in {"track", "rep"} \/ work'[u].kind = "take"
                     => ~Told(s, work[u].d)'
               /\ work'[u].d \in taken'[s] => work'[u].kind = "take"
    <3>1. PICK e \in Deliveries : e = work'[u].d
      BY <1>5, <2>5
    <3>2. (Lists(s, work[u].d)' <=> Lists(s, e)') /\ (Told(s, work[u].d)' <=> Told(s, e)')
      BY <3>1 DEF Lists, Told, Repping
    <3>3. CASE u = t
      <4>1. e = d
        BY <1>1, <1>12, <3>1, <3>3
      <4>2. \A v \in Takers : SessionOf[v] = s /\ work'[v].d = d => v = t
        BY <1>2, <2>1
      <4>3. work'[t].kind = "take" => ~Told(s, d)'
        BY <1>12, <2>3, <3>1, <3>3, <4>1
      <4>4. work'[t].at = "rep" => ~Told(s, d)'
        <5>1. work[t].at = "track" => ~Told(s, d)
          BY <1>5, <1>6, <1>12 DEF Local, s
        <5> QED BY <1>12, <5>1
      <4>5. d \in taken'[s] => work'[t].kind = "take"
        BY <1>12, <2>4, <3>1, <3>3, <4>1
      <4> QED BY <1>12, <3>1, <3>2, <3>3, <4>1, <4>2, <4>3, <4>4, <4>5
    <3>4. CASE u # t
      <4>1. work'[u] = work[u] /\ HasDelivery(work[u]) /\ e = work[u].d /\ e # d
        BY <1>2, <2>1, <2>5, <3>1, <3>4
      <4>2. \A v \in Takers : SessionOf[v] = s /\ work'[v].d = e => v = u
        BY <1>1, <1>2, <1>6, <1>12, <2>5, <4>1 DEF Local
      <4>3. /\ work[u].at \in {"track", "ack"} => ~Lists(s, e)
            /\ work[u].at \in {"track", "rep"} \/ work[u].kind = "take" => ~Told(s, e)
            /\ e \in taken[s] => work[u].kind = "take"
        BY <1>6, <2>5, <4>1 DEF Local
      <4>4. (Lists(s, e)' => Lists(s, e)) /\ (Told(s, e)' => Told(s, e))
        BY <1>12, <4>1
      <4>5. e \in taken'[s] => e \in taken[s]
        BY <1>12, <4>1
      <4> QED BY <3>1, <3>2, <4>1, <4>2, <4>3, <4>4, <4>5
    <3> QED BY <3>3, <3>4
  <2>6. ASSUME NEW e \in taken'[s] PROVE ~Told(s, e)'
    <3>1. CASE e # d
      <4>1. e \in taken[s] /\ e \in Deliveries
        BY <1>1, <1>3, <1>12, <3>1
      <4>2. ~Told(s, e)
        BY <1>6, <4>1 DEF Local
      <4> QED BY <1>12, <3>1, <4>1, <4>2
    <3>2. CASE e = d
      <4>1. work[t].kind = "take"
        BY <1>12, <2>4, <3>2
      <4>2. ~Told(s, d)'
        BY <2>3, <4>1
      <4>3. Told(s, e)' <=> Told(s, d)'
        BY <3>2 DEF Told, Repping
      <4> QED BY <4>2, <4>3
    <3> QED BY <3>1, <3>2
  <2>7. open'[s] => toNack'[s] = {}
    BY <1>6, <1>12 DEF Local
  <2> QED BY <2>2, <2>5, <2>6, <2>7 DEF Local, HasDelivery
<1>13. HasDelivery(work[t]) => work[t].d \in Deliveries
  BY <1>5
<1>14. CASE JobTracks(t)
  <2>1. PICK d \in Deliveries : d = work[t].d
    BY <1>13, <1>14 DEF JobTracks, At, HasDelivery
  <2>2. /\ UNCHANGED <<open, toNack, reader, seen, taken, repAck>> /\ work[t].at = "track"
        /\ tracked' = [tracked EXCEPT ![s] = @ \cup {d}]
    BY <1>14, <2>1 DEF JobTracks, At, s
  <2>3. work'[t].d = d /\ work'[t].at \notin {"track", "ack"} /\ work'[t].kind = work[t].kind
    BY <1>3, <1>14, <2>1 DEF JobTracks, Goto, Works
  <2>4. \A e : Lists(s, e)' => Lists(s, e) \/ e = d
    BY <1>1, <1>3, <2>2 DEF Lists
  <2>5. \A e : Told(s, e)' <=> Told(s, e)
    BY <2>2 DEF Told, Repping
  <2>6. UNCHANGED <<open, toNack, reader>> /\ taken'[s] = taken[s]
    BY <2>2
  <2>7. \A e \in Deliveries : Told(s, e)' => Told(s, e) \/ e = d
    BY <2>5
  <2>8. Told(s, d)' => Told(s, d)
    BY <2>5
  <2>9. work'[t].d \in {d, NoDelivery} /\ (work'[t].d = d => work'[t].kind = work[t].kind)
    BY <2>3
  <2>10. taken'[s] \subseteq taken[s] \cup {d}
    BY <2>6
  <2> QED BY <1>12, <2>1, <2>2, <2>3, <2>4, <2>6, <2>7, <2>8, <2>9, <2>10 DEF s
<1>15. CASE JobTracksRep(t)
  <2>1. PICK d \in Deliveries : d = work[t].d
    BY <1>13, <1>15 DEF JobTracksRep, At, HasDelivery
  <2>2. /\ UNCHANGED <<open, toNack, reader, seen, taken, tracked>> /\ work[t].at = "rep"
        /\ repAck' = [repAck EXCEPT ![s][IdOf[work[t].job]] = d]
    BY <1>15, <2>1 DEF JobTracksRep, At, s
  <2>3. /\ work'[t].d = d /\ work'[t].at \notin {"track", "rep", "ack"}
        /\ work'[t].kind = work[t].kind
    BY <1>3, <1>15, <2>1 DEF JobTracksRep, Goto, Works
  <2>4. work[t].kind # "take"
    BY <1>1, <2>2 DEF Stages, Stage
  <2>5. \A id \in Ids : repAck'[s][id] \in {repAck[s][id], d}
    BY <1>1, <1>3, <2>2
  <2>6. \A e : Told(s, e)' => Told(s, e) \/ e = d
    BY <2>2, <2>5 DEF Told, Repping
  <2>7. \A e : Lists(s, e)' <=> Lists(s, e)
    BY <2>2 DEF Lists
  <2>8. UNCHANGED <<open, toNack, reader, tracked>> /\ taken'[s] = taken[s]
        /\ taken'[s] \subseteq taken[s] \cup {d}
    BY <2>2
  <2> QED BY <1>12, <2>1, <2>3, <2>4, <2>6, <2>7, <2>8 DEF s
<1>16. CASE JobWrites(t)
  <2>1. PICK d \in Deliveries : d = work[t].d
    BY <1>13, <1>16 DEF JobWrites, At, HasDelivery
  <2>2. UNCHANGED <<open, toNack, reader, repAck, tracked>> /\ work[t].at = "write"
    BY <1>16 DEF JobWrites, At
  <2>3. \A e : Lists(s, e)' <=> Lists(s, e)
    BY <2>2 DEF Lists
  <2>4. CASE /\ work[t].kind = "take" /\ Goto(t, "claim") /\ UNCHANGED seen
             /\ taken' = [taken EXCEPT ![s] = @ \cup {d}]
    <3>1. /\ work'[t].d = d /\ work'[t].at \notin {"track", "rep", "ack"}
          /\ work'[t].kind = work[t].kind
      BY <1>3, <2>1, <2>4 DEF Goto, Works
    <3>2. \A e : Told(s, e)' <=> Told(s, e)
      BY <2>2, <2>4 DEF Told, Repping
    <3>3. taken'[s] \subseteq taken[s] \cup {d}
      BY <1>1, <1>3, <2>4
    <3> QED BY <1>12, <2>1, <2>2, <2>3, <2>4, <3>1, <3>2, <3>3 DEF s
  <2>5. CASE /\ work[t].kind # "take" /\ Done(t) /\ UNCHANGED taken
             /\ seen' = [seen EXCEPT ![s] = @ \cup {d}]
    <3>1. work'[t].d = NoDelivery /\ work'[t].at \notin {"track", "rep", "ack"}
      BY <1>3, <2>5 DEF Done, Idle
    <3>2. \A e : Told(s, e)' => Told(s, e) \/ e = d
      BY <1>1, <1>3, <2>2, <2>5 DEF Told, Repping
    <3>3. taken'[s] \subseteq taken[s] \cup {d} /\ taken'[s] = taken[s]
      BY <2>5
    <3> QED BY <1>1, <1>12, <2>1, <2>2, <2>3, <2>5, <3>1, <3>2, <3>3 DEF s
  <2> QED BY <1>16, <2>1, <2>4, <2>5 DEF JobWrites, s
<1> QED BY <1>8, <1>9, <1>10, <1>11, <1>14, <1>15, <1>16 DEF JobStep, s

\* The reader and the end of a session keep it in order.
LEMMA SessionLocal ==
    ASSUME BusInv, BusInv', Steady, Owned, NEW s \in Conns, ReaderStep(s) \/ EndStep(s), Local(s)
    PROVE  Local(s)'
<1>1. TypeOK /\ SessionsTypeOK /\ Stages /\ ReaderStages /\ NoDelivery \notin Deliveries
  BY SessionsAssumption DEF Steady, BusInv, PlacementInv
<1>2. SessionsTypeOK' /\ work' = work
  BY ReaderSteady, EndSteady
<1>3. /\ open \in [Conns -> BOOLEAN] /\ tracked \in [Conns -> SUBSET Deliveries]
      /\ toNack \in [Conns -> SUBSET Deliveries]
      /\ repAck \in [Conns -> [Ids -> Deliveries \cup {NoDelivery}]]
      /\ reader \in [Conns -> [at : ReaderPCs, d : Deliveries \cup {NoDelivery}]]
      /\ seen \in [Conns -> SUBSET Deliveries] /\ taken \in [Conns -> SUBSET Deliveries]
      /\ work \in [Takers -> Works]
  BY <1>1 DEF SessionsTypeOK, Works
<1>4. tracked' \in [Conns -> SUBSET Deliveries] /\ toNack' \in [Conns -> SUBSET Deliveries]
  BY <1>2 DEF SessionsTypeOK
<1>5. \A t \in Takers : HasDelivery(work[t]) <=> work[t].d \in Deliveries
  BY <1>1, <1>3 DEF Stages, Stage, Works
<1>6. ASSUME open'[s] => toNack'[s] = {},
             \A d \in Deliveries : Lists(s, d)' => Lists(s, d),
             \A d \in Deliveries : Told(s, d)' => Told(s, d),
             \A d \in Deliveries : reader'[s].at = "ack" /\ reader'[s].d = d => ~Lists(s, d)'
      PROVE  Local(s)'
  <2>1. \A t \in Takers, d \in Deliveries :
              SessionOf[t] = s /\ work'[t].d = d =>
                 /\ HasDelivery(work[t]) /\ work[t].d = d
                 /\ work'[t].kind = work[t].kind
                 /\ work'[t].at = "track" => work[t].at = "track"
                 /\ work'[t].at = "rep" => work[t].at = "rep"
                 /\ work'[t].at = "ack" => work[t].at = "ack" \/ ~Lists(s, d)'
    BY <1>2, <1>5
  <2>2. \A t \in Takers : HasDelivery(work'[t]) => work'[t].d \in Deliveries
    BY <1>2, <1>5
  <2>3. taken'[s] = taken[s] /\ taken[s] \subseteq Deliveries
    BY <1>3 DEF ReaderStep, AckFrame, NackFrame, RepFrame, ReadFrame, OtherFrame, DropInflight,
              RepClaims, RepAcks, EndStep, CloseSession, ContextDone, NackCopied
  <2> QED BY <1>4, <1>6, <2>1, <2>2, <2>3, LocalShrinks
<1>7. CASE EndStep(s)
  <2>1. /\ UNCHANGED <<repAck, reader, seen>>
        /\ tracked'[s] \subseteq tracked[s] /\ toNack'[s] \subseteq toNack[s] \cup tracked[s]
        /\ open'[s] => open[s] /\ toNack'[s] \subseteq toNack[s]
    BY <1>3, <1>7 DEF EndStep, CloseSession, Closes, ContextDone, NackCopied
  <2>2. \A d \in Deliveries : Lists(s, d)' => Lists(s, d)
    BY <2>1 DEF Lists
  <2>3. \A d \in Deliveries : Told(s, d)' => Told(s, d)
    BY <2>1 DEF Told, Repping
  <2>4. open'[s] => toNack'[s] = {}
    BY <2>1 DEF Local
  <2>5. \A d \in Deliveries : reader'[s].at = "ack" /\ reader'[s].d = d => ~Lists(s, d)'
    BY <2>1, <2>2 DEF Local
  <2> QED BY <1>6, <2>2, <2>3, <2>4, <2>5
<1>8. CASE ReaderStep(s)
  <2>1. UNCHANGED <<open, toNack, seen>> /\ tracked'[s] \subseteq tracked[s]
        /\ \A id \in Ids : repAck'[s][id] \in {repAck[s][id], NoDelivery}
    BY <1>3, <1>8 DEF ReaderStep, AckFrame, NackFrame, RepFrame, ReadFrame, OtherFrame,
             DropInflight, RepClaims, RepAcks, Claims
  <2>2. \A d \in Deliveries : Repping(s, d)' =>
           Repping(s, d) \/ \E id \in Ids : repAck[s][id] = d
    BY <1>3, <1>8 DEF ReaderStep, AckFrame, NackFrame, RepFrame, ReadFrame, OtherFrame,
             DropInflight, RepClaims, RepAcks, LeaseFrameReplied, Read, Reading, Handles, Repping
  <2>3. \A d \in Deliveries : Lists(s, d)' => Lists(s, d)
    BY <2>1 DEF Lists
  <2>4. \A d \in Deliveries : Told(s, d)' => Told(s, d)
    BY <1>1, <2>1, <2>2 DEF Told
  <2>5. open'[s] => toNack'[s] = {}
    BY <2>1 DEF Local
  <2>6. reader'[s].at = "ack" => reader'[s].d \notin tracked'[s] \cup toNack'[s]
    <3>1. CASE RepClaims(s)
      <4>1. CASE open[s] /\ tracked' = [tracked EXCEPT ![s] = @ \ {reader[s].d}]
                 /\ reader' = [reader EXCEPT ![s].at = "ack"]
        BY <1>3, <2>1, <4>1 DEF Local
      <4>2. CASE reader' = [reader EXCEPT ![s] = Reading]
        BY <1>3, <4>2 DEF Reading
      <4> QED BY <3>1, <4>1, <4>2 DEF RepClaims, Claims, Read
    <3>2. CASE ~RepClaims(s)
      <4>1. reader'[s].at # "ack"
        BY <1>3, <1>8, <3>2 DEF ReaderStep, AckFrame, NackFrame, RepFrame, ReadFrame, OtherFrame,
               DropInflight, RepAcks, LeaseFrameReplied, Read, Reading
      <4> QED BY <4>1
    <3> QED BY <3>1, <3>2
  <2>7. \A d \in Deliveries : reader'[s].at = "ack" /\ reader'[s].d = d => ~Lists(s, d)'
    BY <2>6 DEF Lists
  <2> QED BY <1>6, <2>3, <2>4, <2>5, <2>7
<1> QED BY <1>7, <1>8

\* Every session, every step.
LEMMA LocalStays ==
    ASSUME BusInv, BusInv', Steady, Owned, [NextSessions]_allVars, \A s \in Conns : Local(s)
    PROVE  \A s \in Conns : Local(s)'
<1>1. CASE BusStep \/ UNCHANGED allVars
  <2>1. UNCHANGED hubVars
    BY <1>1 DEF BusStep, allVars
  <2> QED BY <2>1 DEF hubVars, Local, Lists, Told, Repping, HasDelivery
<1>2. ASSUME NEW t \in Takers, JobStep(t) PROVE \A s \in Conns : Local(s)'
  <2>1. SessionOf[t] \in Conns /\ Alone(SessionOf[t])
    BY <1>2, OneSession, SessionsAssumption
  <2>2. Local(SessionOf[t])'
    BY <1>2, <2>1, JobLocal
  <2>3. ASSUME NEW s \in Conns PROVE Local(s)'
    <3>1. CASE s # SessionOf[t]
      BY <2>1, <3>1, OthersLocal
    <3>2. CASE s = SessionOf[t]
      BY <2>2, <3>2
    <3> QED BY <3>1, <3>2
  <2> QED BY <2>3
<1>3. ASSUME NEW r \in Conns, ReaderStep(r) \/ EndStep(r) PROVE \A s \in Conns : Local(s)'
  <2>1. Alone(r)
    BY <1>3, OneSession
  <2>2. Local(r)'
    BY <1>3, SessionLocal
  <2> QED BY <2>1, <2>2, OthersLocal
<1> QED BY <1>1, <1>2, <1>3 DEF NextSessions

-----------------------------------------------------------------------------
(* Every lease is watched.                                                 *)

\* Somebody will list, settle or give back d.
Watch(d) == InFlux(d) \/ \E s \in Conns : Lists(s, d)

Watched == \A d \in Deliveries : inflight[d] # NoJob => Watch(d)

\* A goroutine passes on what it watches.
LEMMA JobWatches ==
    ASSUME BusInv, BusInv', Steady, Owned, \A s \in Conns : Local(s),
           NEW t \in Takers, JobStep(t),
           NEW d \in Deliveries, inflight'[d] # NoJob, inflight[d] # NoJob => Watch(d)
    PROVE  Watch(d)'
<1> DEFINE s == SessionOf[t]
<1>1. TypeOK /\ SessionsTypeOK /\ Stages /\ s \in Conns /\ NoDelivery \notin Deliveries
  BY SessionsAssumption DEF Steady, BusInv, PlacementInv
<1>2. /\ open \in [Conns -> BOOLEAN] /\ tracked \in [Conns -> SUBSET Deliveries]
      /\ toNack \in [Conns -> SUBSET Deliveries]
      /\ reader \in [Conns -> [at : ReaderPCs, d : Deliveries \cup {NoDelivery}]]
      /\ work \in [Takers -> Works] /\ inflight \in [Deliveries -> Maybe]
  BY <1>1 DEF SessionsTypeOK, Works, TypeOK
<1>3. ASSUME NEW e \in Deliveries, JobHolds(t, e), e = d PROVE Watch(d)'
  <2>1. work'[t].d = d /\ work'[t].at = "track"
    BY <1>2, <1>3 DEF JobHolds, Works
  <2> QED BY <2>1 DEF Watch, InFlux
<1>4. CASE ~ \E e \in Deliveries : JobHolds(t, e) /\ e = d
  <2>1. d \in issued
    <3>1. d \in issued'
      BY DEF BusInv, LeasesIssued
    <3>2. CASE \E e \in Deliveries : JobHolds(t, e)
      <4>1. PICK e \in Deliveries : JobHolds(t, e)
        BY <3>2
      <4>2. Hold(t, e)
        BY <4>1 DEF JobHolds
      <4>3. issued' = issued \cup {e}
        BY <1>1, <4>2, HoldEffects
      <4> QED BY <1>4, <3>1, <4>1, <4>3
    <3>3. CASE ~ \E e \in Deliveries : JobHolds(t, e)
      <4>1. issued' = issued
        <5>1. CASE JobTakes(t) \/ JobReceives(t) \/ JobTakeFails(t) \/ JobHoldFails(t)
                   \/ JobRequeues(t)
          BY <1>1, <5>1, TakerEffects
             DEF JobTakes, JobReceives, JobTakeFails, JobHoldFails, JobRequeues, Releases, vars
        <5>2. CASE JobAcks(t)
          <6>1. work[t].d \in Deliveries
            BY <1>1, <5>2 DEF JobAcks, At, SessionsTypeOK, Stages, Stage, HasDelivery
          <6> QED BY <1>1, <5>2, <6>1, LeaseEffects DEF JobAcks, Releases
        <5>3. CASE \/ \E kind \in Kinds : JobFrame(t, kind)
                   \/ JobTracks(t) \/ JobTracksRep(t) \/ JobWrites(t) \/ JobWriteFails(t)
                   \/ JobClaims(t)
          BY <5>3 DEF JobFrame, JobTracks, JobTracksRep, JobWrites, JobWriteFails, JobClaims, vars
        <5> QED BY <3>3, <5>1, <5>2, <5>3 DEF JobStep
      <4> QED BY <3>1, <4>1
    <3> QED BY <3>2, <3>3
  <2>2. inflight[d] # NoJob /\ Watch(d)
    <3>1. inflight'[d] \in {inflight[d], NoJob}
      BY <2>1, LeasesEnd DEF NextSessions
    <3> QED BY <3>1
\* Nothing but t moves, and t is not about to list or to ack d.
  <2>3. ASSUME UNCHANGED <<tracked, toNack>>, reader' = reader \/ (Handles(s) /\ Read(s)),
               work[t].d = d => work[t].at \notin {"track", "ack"}
        PROVE  Watch(d)'
    <3>1. \A u \in Takers : u # t => work'[u] = work[u]
      BY JobSteady
    <3>2. \A r \in Conns : reader[r].at = "ack" => reader'[r] = reader[r]
      BY <1>1, <1>2, <2>3 DEF Handles, Read
    <3>3. \A r \in Conns : Lists(r, d) => Lists(r, d)'
      BY <2>3 DEF Lists
    <3>4. \A u \in Takers : work[u].d = d /\ work[u].at \in {"track", "ack"} => work'[u] = work[u]
      BY <2>3, <3>1
    <3>5. CASE \E u \in Takers : work[u].d = d /\ work[u].at \in {"track", "ack"}
      BY <3>4, <3>5 DEF Watch, InFlux
    <3>6. CASE \E r \in Conns : reader[r] = [at |-> "ack", d |-> d]
      <4>1. PICK r \in Conns : reader[r] = [at |-> "ack", d |-> d]
        BY <3>6
      <4>2. reader'[r] = [at |-> "ack", d |-> d]
        BY <3>2, <4>1
      <4> QED BY <4>2 DEF Watch, InFlux
    <3>7. CASE \E r \in Conns : Lists(r, d)
      BY <3>3, <3>7 DEF Watch
    <3> QED BY <2>2, <3>5, <3>6, <3>7 DEF Watch, InFlux
  <2> HIDE DEF s
  <2>4. CASE \/ \E kind \in Kinds : JobFrame(t, kind)
             \/ JobTakes(t) \/ JobReceives(t) \/ JobTakeFails(t) \/ JobHoldFails(t)
             \/ JobRequeues(t) \/ JobTracksRep(t) \/ JobWrites(t)
             \/ \E e \in Deliveries : JobHolds(t, e)
    <3>1. UNCHANGED <<tracked, toNack>> /\ (reader' = reader \/ (Handles(s) /\ Read(s)))
      BY <2>4 DEF JobFrame, JobTakes, JobReceives, JobTakeFails, JobHoldFails, JobRequeues,
             JobTracksRep, JobWrites, JobHolds, hubVars, s
    <3>2. work[t].at \notin {"track", "ack"}
      <4>1. CASE \/ \E kind \in Kinds : JobFrame(t, kind)
                 \/ JobTakes(t) \/ JobTakeFails(t) \/ JobTracksRep(t) \/ JobWrites(t)
        BY <4>1 DEF JobFrame, JobTakes, JobTakeFails, JobTracksRep, JobWrites, At
      <4>2. CASE JobReceives(t) \/ JobHoldFails(t) \/ JobRequeues(t)
                 \/ \E e \in Deliveries : JobHolds(t, e)
        <5>1. pc[t] # "idle"
          BY <1>1, <4>2, TakerEffects, HoldEffects
             DEF JobReceives, JobHoldFails, JobRequeues, JobHolds
        <5> QED BY <1>1, <5>1 DEF Stages, Stage
      <4> QED BY <2>4, <4>1, <4>2
    <3> QED BY <2>3, <3>1, <3>2 DEF s
  <2>5. CASE JobAcks(t)
    <3>1. work[t].d # d
      <4>1. work[t].d \in Deliveries
        BY <1>1, <2>5 DEF JobAcks, At, SessionsTypeOK, Stages, Stage, HasDelivery
      <4> QED BY <1>1, <2>5, <4>1, LeaseEffects DEF JobAcks
    <3>2. UNCHANGED <<tracked, toNack, reader>>
      BY <2>5 DEF JobAcks
    <3> QED BY <2>3, <3>1, <3>2
\* The other steps, by who watched d.
  <2>6. ASSUME \A r \in Conns : Lists(r, d) => Watch(d)',
               work[t].d = d /\ work[t].at \in {"track", "ack"} => Watch(d)',
               reader' = reader
        PROVE  Watch(d)'
    <3>1. \A u \in Takers : u # t => work'[u] = work[u]
      BY JobSteady
    <3>2. CASE \E u \in Takers : u # t /\ work[u].d = d /\ work[u].at \in {"track", "ack"}
      BY <3>1, <3>2 DEF Watch, InFlux
    <3>3. CASE \E r \in Conns : reader[r] = [at |-> "ack", d |-> d]
      BY <2>6, <3>3 DEF Watch, InFlux
    <3> QED BY <2>2, <2>6, <3>2, <3>3 DEF Watch, InFlux
  <2>7. CASE JobTracks(t)
    <3>1. /\ UNCHANGED <<toNack, reader>>
          /\ tracked' = [tracked EXCEPT ![s] = @ \cup {work[t].d}]
      BY <2>7 DEF JobTracks, s
    <3>2. \A r \in Conns : Lists(r, d) => Lists(r, d)'
      BY <1>1, <1>2, <3>1 DEF Lists
    <3>3. work[t].d = d => Lists(s, d)'
      BY <1>1, <1>2, <3>1 DEF Lists
    <3> QED BY <1>1, <2>6, <3>1, <3>2, <3>3 DEF Watch, s
  <2>8. CASE JobWriteFails(t)
    <3>1. /\ UNCHANGED reader /\ work[t].at = "write"
          /\ \/ UNCHANGED <<tracked, toNack>>
             \/ /\ open[s] /\ toNack' = [toNack EXCEPT ![s] = tracked[s]]
                /\ tracked' = [tracked EXCEPT ![s] = {}]
      BY <2>8 DEF JobWriteFails, Closes, At, s
    <3>2. open[s] => toNack[s] = {}
      BY <1>1 DEF Local, s
    <3>3. \A r \in Conns : Lists(r, d) => Lists(r, d)'
      BY <1>1, <1>2, <3>1, <3>2 DEF Lists
    <3> QED BY <2>6, <3>1, <3>3 DEF Watch
  <2>9. CASE JobClaims(t)
    <3>1. CASE UNCHANGED tracked
      BY <2>3, <2>9, <3>1 DEF JobClaims, At
    <3>2. CASE Claims(s, work[t].d) /\ Goto(t, "ack")
      <4>1. UNCHANGED <<toNack, reader>> /\ work[t].at = "claim"
        BY <2>9 DEF JobClaims, At
      <4>2. work'[t].at = "ack" /\ work'[t].d = work[t].d
        BY <1>2, <3>2 DEF Goto, Works
      <4>3. \A r \in Conns : Lists(r, d) => Lists(r, d)' \/ d = work[t].d
        BY <1>1, <1>2, <3>2, <4>1 DEF Lists, Claims
      <4>4. d = work[t].d => Watch(d)'
        BY <4>2 DEF Watch, InFlux
      <4> QED BY <2>6, <4>1, <4>3, <4>4 DEF Watch
    <3> QED BY <2>9, <3>1, <3>2 DEF JobClaims, s
  <2> QED BY <2>4, <2>5, <2>7, <2>8, <2>9 DEF JobStep
<1> QED BY <1>3, <1>4

\* So do the reader and the end of a session.
LEMMA SessionWatches ==
    ASSUME BusInv, BusInv', Steady, Owned, NEW s \in Conns, Local(s),
           ReaderStep(s) \/ EndStep(s),
           NEW d \in Deliveries, inflight'[d] # NoJob, inflight[d] # NoJob => Watch(d)
    PROVE  Watch(d)'
<1>1. TypeOK /\ SessionsTypeOK /\ ReaderStages /\ NoDelivery \notin Deliveries
  BY SessionsAssumption DEF Steady, BusInv, PlacementInv
<1>2. /\ open \in [Conns -> BOOLEAN] /\ tracked \in [Conns -> SUBSET Deliveries]
      /\ toNack \in [Conns -> SUBSET Deliveries]
      /\ reader \in [Conns -> [at : ReaderPCs, d : Deliveries \cup {NoDelivery}]]
  BY <1>1 DEF SessionsTypeOK
<1>3. UNCHANGED work
  BY ReaderSteady, EndSteady
<1>4. inflight[d] # NoJob /\ Watch(d)
  <2>1. d \in issued
    BY SessionUses DEF BusInv, LeasesIssued
  <2>2. inflight'[d] \in {inflight[d], NoJob}
    BY <2>1, LeasesEnd DEF NextSessions
  <2> QED BY <2>2
<1>5. ASSUME \A r \in Conns : Lists(r, d) => Watch(d)',
             reader[s] = [at |-> "ack", d |-> d] => Watch(d)',
             \A r \in Conns : r # s => reader'[r] = reader[r]
      PROVE  Watch(d)'
  <2>1. CASE \E t \in Takers : work[t].d = d /\ work[t].at \in {"track", "ack"}
    BY <1>3, <2>1 DEF Watch, InFlux
  <2>2. CASE \E r \in Conns : r # s /\ reader[r] = [at |-> "ack", d |-> d]
    <3>1. PICK r \in Conns : r # s /\ reader[r] = [at |-> "ack", d |-> d]
      BY <2>2
    <3>2. reader'[r] = [at |-> "ack", d |-> d]
      BY <1>5, <3>1
    <3> QED BY <3>2 DEF Watch, InFlux
  <2> QED BY <1>4, <1>5, <2>1, <2>2 DEF Watch, InFlux
<1>6. \A r \in Conns : r # s => reader'[r] = reader[r]
  BY OneSession DEF Alone
<1>7. CASE EndStep(s)
  <2>1. /\ UNCHANGED reader
        /\ \/ UNCHANGED <<tracked, toNack>>
           \/ /\ open[s] /\ toNack' = [toNack EXCEPT ![s] = tracked[s]]
              /\ tracked' = [tracked EXCEPT ![s] = {}]
           \/ /\ UNCHANGED tracked
              /\ \E e \in Deliveries : NackIfLeased(e) /\ toNack' = [toNack EXCEPT ![s] = @ \ {e}]
    BY <1>7 DEF EndStep, CloseSession, Closes, ContextDone, NackCopied
  <2>2. \A e \in Deliveries : NackIfLeased(e) => e # d
    BY <1>1, LeaseEffects
  <2>3. \A r \in Conns : Lists(r, d) => Lists(r, d)'
    BY <1>2, <2>1, <2>2 DEF Lists, Local
  <2>4. reader[s] = [at |-> "ack", d |-> d] => Watch(d)'
    BY <2>1 DEF Watch, InFlux
  <2> QED BY <1>5, <1>6, <2>3, <2>4 DEF Watch
<1>8. CASE ReaderStep(s)
  <2>1. CASE RepClaims(s)
    <3>1. UNCHANGED toNack /\ reader[s].at = "claim"
      BY <2>1 DEF RepClaims
    <3>2. CASE Claims(s, reader[s].d) /\ reader' = [reader EXCEPT ![s].at = "ack"]
      <4>1. \A r \in Conns : Lists(r, d) => Lists(r, d)' \/ d = reader[s].d
        BY <1>2, <3>1, <3>2 DEF Lists, Claims
      <4>2. reader'[s] = [at |-> "ack", d |-> reader[s].d]
        BY <1>2, <3>2
      <4>3. d = reader[s].d => Watch(d)'
        BY <4>2 DEF Watch, InFlux
      <4> QED BY <1>5, <1>6, <3>1, <4>1, <4>3 DEF Watch
    <3>3. CASE UNCHANGED tracked
      <4>1. \A r \in Conns : Lists(r, d) => Lists(r, d)'
        BY <3>1, <3>3 DEF Lists
      <4> QED BY <1>5, <1>6, <3>1, <4>1 DEF Watch
    <3> QED BY <2>1, <3>2, <3>3 DEF RepClaims
  <2>2. CASE RepAcks(s)
    <3>1. reader[s].d \in Deliveries
      BY <1>1, <1>2, <2>2 DEF RepAcks, ReaderStages
    <3>2. reader[s].d # d
      BY <1>1, <2>2, <3>1, LeaseEffects DEF RepAcks
    <3>3. \A r \in Conns : Lists(r, d) => Lists(r, d)'
      BY <2>2 DEF RepAcks, Lists
    <3> QED BY <1>5, <1>6, <3>2, <3>3 DEF Watch
  <2>3. CASE DropInflight(s)
    <3>1. reader[s].at = "drop" /\ reader[s].d # d
      BY <1>1, <1>4, <2>3 DEF DropInflight, ReaderStages
    <3>2. \A r \in Conns : Lists(r, d) => Lists(r, d)'
      BY <1>2, <2>3, <3>1 DEF DropInflight, Lists
    <3> QED BY <1>5, <1>6, <3>1, <3>2 DEF Watch
  <2>4. CASE \/ \E e \in Known : AckFrame(s, e) \/ NackFrame(s, e)
             \/ \E id \in Ids : RepFrame(s, id)
             \/ ReadFrame(s) \/ OtherFrame(s)
    <3>1. UNCHANGED <<tracked, toNack>> /\ reader[s].at # "ack"
      BY <2>4 DEF AckFrame, NackFrame, RepFrame, ReadFrame, OtherFrame, Handles
    <3>2. \A r \in Conns : Lists(r, d) => Lists(r, d)'
      BY <3>1 DEF Lists
    <3> QED BY <1>5, <1>6, <3>1, <3>2 DEF Watch
  <2> QED BY <1>8, <2>1, <2>2, <2>3, <2>4 DEF ReaderStep
<1> QED BY <1>7, <1>8

\* And every step of the hub.
LEMMA WatchedStays ==
    ASSUME BusInv, BusInv', Steady, Owned, \A s \in Conns : Local(s), Watched,
           [NextSessions]_allVars
    PROVE  Watched'
<1>1. TypeOK
  BY DEF BusInv, PlacementInv
<1> SUFFICES ASSUME NEW d \in Deliveries, inflight'[d] # NoJob PROVE Watch(d)'
  BY DEF Watched
<1>2. inflight[d] # NoJob => Watch(d)
  BY DEF Watched
<1>3. CASE BusStep \/ UNCHANGED allVars
  <2>1. UNCHANGED hubVars
    BY <1>3 DEF BusStep, allVars
  <2>2. inflight[d] # NoJob
    BY <1>1, <1>3, BusStepEffects DEF Releases, allVars, vars
  <2> QED BY <1>2, <2>1, <2>2 DEF hubVars, Watch, InFlux, Lists
<1>4. ASSUME NEW t \in Takers, JobStep(t) PROVE Watch(d)'
  BY <1>2, <1>4, JobWatches
<1>5. ASSUME NEW s \in Conns, ReaderStep(s) \/ EndStep(s) PROVE Watch(d)'
  BY <1>2, <1>5, SessionWatches
<1> QED BY <1>3, <1>4, <1>5 DEF NextSessions

\* One session lists a delivery, unless a goroutine has it.
LEMMA OneWatcher ==
    ASSUME SessionsTypeOK, Stages, Owned, \A s \in Conns : Local(s), Watched
    PROVE  LeaseWatched
<1> SUFFICES ASSUME NEW d \in Deliveries, inflight[d] # NoJob
             PROVE  Cardinality({s \in Conns : Lists(s, d)}) = (IF InFlux(d) THEN 0 ELSE 1)
  BY DEF LeaseWatched, Lists
<1>1. SessionOf \in [Takers -> Conns]
  BY SessionsAssumption
<1>2. CASE InFlux(d)
  <2>1. ASSUME NEW t \in Takers, work[t].d = d, work[t].at \in {"track", "ack"}
        PROVE  \A s \in Conns : ~Lists(s, d)
    <3>1. SessionOf[t] \in Conns /\ HasDelivery(work[t])
      BY <1>1, <2>1 DEF HasDelivery
    <3>2. ~Lists(SessionOf[t], d)
      BY <2>1, <3>1 DEF Local
    <3>3. Uses(SessionOf[t], d)
      BY <2>1 DEF Uses
    <3> QED BY <3>1, <3>2, <3>3 DEF Owned, Uses
  <2>2. ASSUME NEW r \in Conns, reader[r] = [at |-> "ack", d |-> d]
        PROVE  \A s \in Conns : ~Lists(s, d)
    <3>1. reader[r].at = "ack" /\ reader[r].d = d
      BY <2>2
    <3>2. ~Lists(r, d)
      BY <3>1 DEF Local
    <3>3. Uses(r, d)
      BY <3>1 DEF Uses, Told, Repping
    <3> QED BY <3>2, <3>3 DEF Owned, Uses
  <2>3. {s \in Conns : Lists(s, d)} = {}
    BY <1>2, <2>1, <2>2 DEF InFlux
  <2> QED BY <1>2, <2>3, FS_EmptySet
<1>3. CASE ~InFlux(d)
  <2>1. PICK s \in Conns : Lists(s, d)
    BY <1>3 DEF Watched, Watch
  <2>2. \A r \in Conns : Lists(r, d) => r = s
    BY <2>1 DEF Owned, Uses
  <2>3. {r \in Conns : Lists(r, d)} = {s}
    BY <2>1, <2>2
  <2>4. Cardinality({r \in Conns : Lists(r, d)}) = 1
    BY <2>3, FS_Singleton
  <2> QED BY <1>3, <2>4
<1> QED BY <1>2, <1>3

\* Who copied a delivery is the session whose goroutine or reader has it, and
\* then it is not on the list.
LEMMA ClaimedApart ==
    ASSUME SessionsTypeOK, Owned, \A s \in Conns : Local(s)
    PROVE  ClaimExclusive
<1> SUFFICES ASSUME NEW s \in Conns, NEW d \in Deliveries, d \in toNack[s],
                    toNack[s] \subseteq Deliveries
             PROVE  /\ \A t \in Takers : ~(work[t].d = d /\ At(t, "ack"))
                    /\ \A r \in Conns : reader[r] # [at |-> "ack", d |-> d]
  BY DEF ClaimExclusive, SessionsTypeOK
<1>1. Lists(s, d) /\ Uses(s, d)
  BY DEF Lists, Uses
<1>2. ASSUME NEW t \in Takers, work[t].d = d, At(t, "ack") PROVE FALSE
  <2>1. SessionOf[t] \in Conns /\ Uses(SessionOf[t], d) /\ HasDelivery(work[t])
    BY <1>2, SessionsAssumption DEF Uses, At, HasDelivery
  <2>2. SessionOf[t] = s
    BY <1>1, <2>1 DEF Owned
  <2> QED BY <1>1, <1>2, <2>1, <2>2 DEF Local, At
<1>3. ASSUME NEW r \in Conns, reader[r] = [at |-> "ack", d |-> d] PROVE FALSE
  <2>1. reader[r].at = "ack" /\ reader[r].d = d /\ Uses(r, d)
    BY <1>3 DEF Uses, Told, Repping
  <2>2. r = s
    BY <1>1, <2>1 DEF Owned
  <2> QED BY <1>1, <2>1, <2>2 DEF Local
<1> QED BY <1>2, <1>3

-----------------------------------------------------------------------------
(* What a rep acks.                                                        *)

\* The delivery of a goroutine is a lease on its job or not leased any more.
WorkJob ==
    \A t \in Takers : HasDelivery(work[t]) => inflight[work[t].d] \in {NoJob, work[t].job}

\* The goroutines keep their jobs.
LEMMA WorkJobStays ==
    ASSUME BusInv, BusInv', Steady, Owned, [NextSessions]_allVars, WorkJob
    PROVE  WorkJob'
<1>1. TypeOK /\ SessionsTypeOK /\ Stages /\ ReaderStages /\ work \in [Takers -> Works]
      /\ HandsFull /\ NoDelivery \notin Deliveries
  BY SessionsAssumption DEF Steady, BusInv, PlacementInv, SessionsTypeOK, Works
<1> SUFFICES ASSUME NEW u \in Takers, HasDelivery(work'[u])
             PROVE  inflight'[work'[u].d] \in {NoJob, work'[u].job}
  BY DEF WorkJob, HasDelivery
<1>2. CASE /\ HasDelivery(work[u])
           /\ work'[u].d = work[u].d /\ work'[u].job = work[u].job
  <2>1. PICK d \in Deliveries : d = work[u].d
    BY <1>1, <1>2 DEF Stages, Stage, Works
  <2>2. Uses(SessionOf[u], d) /\ SessionOf[u] \in Conns
    BY <2>1, SessionsAssumption DEF Uses
  <2>3. d \in issued
    BY <2>2 DEF Owned
  <2>4. inflight'[d] \in {inflight[d], NoJob}
    BY <2>3, LeasesEnd
  <2>5. inflight[d] \in {NoJob, work[u].job}
    BY <1>2, <2>1 DEF WorkJob
  <2> QED BY <1>2, <2>1, <2>4, <2>5
<1>3. CASE \E e \in Deliveries : JobHolds(u, e)
  <2>1. PICK e \in Deliveries : JobHolds(u, e)
    BY <1>3
  <2>2. Hold(u, e) /\ work'[u].d = e /\ work'[u].job = hand[u]
    BY <1>1, <2>1 DEF JobHolds, Works
  <2>3. inflight'[e] = hand[u]
    BY <1>1, <2>2, HoldEffects
  <2> QED BY <2>2, <2>3
<1>4. CASE /\ ~ \E e \in Deliveries : JobHolds(u, e)
           /\ ~ (/\ HasDelivery(work[u])
                 /\ work'[u].d = work[u].d /\ work'[u].job = work[u].job)
  <2>1. ASSUME NEW t \in Takers, JobStep(t), t # u PROVE FALSE
    <3>1. work'[u] = work[u]
      BY <2>1, JobSteady
    <3> QED BY <1>4, <3>1
  <2>2. ASSUME JobStep(u) PROVE FALSE
    <3>1. CASE \/ JobTracks(u) \/ JobTracksRep(u) \/ JobWrites(u) \/ JobClaims(u)
               \/ JobWriteFails(u) \/ JobAcks(u)
      <4>1. work' = [work EXCEPT ![u] = Idle]
            \/ \E at \in WorkPCs : work' = [work EXCEPT ![u] = [work[u] EXCEPT !.at = at]]
        BY <3>1 DEF JobTracks, JobTracksRep, JobWrites, JobClaims, JobWriteFails, JobAcks,
                    Done, Goto, WorkPCs
      <4>2. work'[u] # Idle
        BY DEF Idle, HasDelivery
      <4>3. HasDelivery(work[u])
        BY <3>1 DEF JobTracks, JobTracksRep, JobWrites, JobClaims, JobWriteFails, JobAcks, At,
                    HasDelivery
      <4>4. PICK at \in WorkPCs : work' = [work EXCEPT ![u] = [work[u] EXCEPT !.at = at]]
        BY <1>1, <4>1, <4>2
      <4>5. work'[u].d = work[u].d /\ work'[u].job = work[u].job
        BY <1>1, <4>4 DEF Works
      <4> QED BY <1>4, <4>3, <4>5
    <3>2. CASE \/ \E kind \in Kinds : JobFrame(u, kind)
               \/ JobTakes(u) \/ JobTakeFails(u) \/ JobRequeues(u)
      <4>1. work[u].at \in {"none", "take"}
        <5>1. CASE JobRequeues(u)
          <6>1. pc[u] # "idle"
            BY <5>1, <1>1, TakerEffects DEF JobRequeues
          <6> QED BY <1>1, <6>1 DEF Stages, Stage
        <5> QED BY <3>2, <5>1 DEF JobFrame, JobTakes, JobTakeFails, At
      <4>2. \/ work' = work
            \/ work' = [work EXCEPT ![u] = Idle]
            \/ \E kind \in Kinds :
                  work' = [work EXCEPT ![u] = [Idle EXCEPT !.at = "take", !.kind = kind]]
        BY <3>2 DEF JobFrame, JobTakes, JobTakeFails, JobRequeues, Done
      <4>3. work'[u].at \in {"none", "take"}
        <5>1. \A w : work' = [work EXCEPT ![u] = w] => work'[u] = w
          BY <1>1
        <5>2. Idle.at = "none" /\ \A kind \in Kinds :
                  [Idle EXCEPT !.at = "take", !.kind = kind].at = "take"
          BY DEF Idle
        <5> QED BY <4>1, <4>2, <5>1, <5>2
      <4> QED BY <4>3 DEF HasDelivery
    <3>3. CASE JobReceives(u) \/ JobHoldFails(u)
      <4>1. work' = work
        BY <3>3 DEF JobReceives, JobHoldFails, hubVars
      <4>2. pc[u] # "idle"
        BY <3>3, <1>1, TakerEffects DEF JobReceives, JobHoldFails
      <4>3. work[u].at = "take"
        BY <1>1, <4>2 DEF Stages, Stage
      <4> QED BY <4>1, <4>3 DEF HasDelivery
    <3> QED BY <1>4, <2>2, <3>1, <3>2, <3>3 DEF JobStep
  <2>3. CASE UNCHANGED work
    BY <1>4, <2>3
  <2>4. (BusStep \/ UNCHANGED allVars) \/ (\E s \in Conns : ReaderStep(s) \/ EndStep(s))
           => UNCHANGED work
    BY ReaderSteady, EndSteady DEF BusStep, hubVars, allVars
  <2> QED BY <2>1, <2>2, <2>3, <2>4 DEF NextSessions
<1> QED BY <1>2, <1>3, <1>4

\* The entries of repAck: a lease named there is on a job with that message id, no
\* rep that was read before has the delivery, and no other entry does.
Reps(s) ==
    \A id \in Ids : repAck[s][id] \in Deliveries =>
        /\ inflight[repAck[s][id]] # NoJob => IdOf[inflight[repAck[s][id]]] = id
        /\ ~Repping(s, repAck[s][id])
        /\ \A e \in Ids : repAck[s][e] = repAck[s][id] => e = id

\* A step that enters nothing, and whose rep takes its entry with it.
LEMMA RepsShrink ==
    ASSUME Owned, NEW s \in Conns, Reps(s), NoDelivery \notin Deliveries,
           \A e \in issued : inflight'[e] \in {inflight[e], NoJob},
           \A id \in Ids : repAck'[s][id] \in {repAck[s][id], NoDelivery},
           \A d \in Deliveries : Repping(s, d)' =>
              Repping(s, d) \/ \E id \in Ids : repAck[s][id] = d /\ repAck'[s][id] = NoDelivery
    PROVE  Reps(s)'
<1> SUFFICES ASSUME NEW id \in Ids, NEW d \in Deliveries, repAck'[s][id] = d
             PROVE  /\ inflight'[d] # NoJob => IdOf[inflight'[d]] = id
                    /\ ~Repping(s, d)'
                    /\ \A e \in Ids : repAck'[s][e] = d => e = id
  <2>1. ASSUME NEW id \in Ids, repAck'[s][id] \in Deliveries
        PROVE  /\ inflight'[repAck'[s][id]] # NoJob => IdOf[inflight'[repAck'[s][id]]] = id
               /\ ~(reader'[s].at \in {"claim", "ack"} /\ reader'[s].d = repAck'[s][id])
               /\ \A e \in Ids : repAck'[s][e] = repAck'[s][id] => e = id
    <3>1. PICK d \in Deliveries : d = repAck'[s][id]
      BY <2>1
    <3>2. /\ inflight'[d] # NoJob => IdOf[inflight'[d]] = id
          /\ ~Repping(s, d)'
          /\ \A e \in Ids : repAck'[s][e] = d => e = id
      BY <3>1
    <3>3. ~(reader'[s].at \in {"claim", "ack"} /\ reader'[s].d = d)
      BY <3>2 DEF Repping
    <3> QED BY <3>1, <3>2, <3>3
  <2> QED BY <2>1 DEF Reps, Repping
<1>1. repAck[s][id] = d
  OBVIOUS
<1>2. d \in issued
  BY <1>1 DEF Owned, Uses, Told
<1>3. /\ inflight[d] # NoJob => IdOf[inflight[d]] = id
      /\ ~Repping(s, d)
      /\ \A e \in Ids : repAck[s][e] = d => e = id
  BY <1>1 DEF Reps
<1>4. inflight'[d] # NoJob => IdOf[inflight'[d]] = id
  BY <1>2, <1>3
<1>5. ~Repping(s, d)'
  BY <1>3
<1>6. \A e \in Ids : repAck'[s][e] = d => e = id
  BY <1>3
<1> QED BY <1>4, <1>5, <1>6

\* trackRepAck enters a delivery that nobody was told of yet, under the id of the
\* job it is a lease on.
LEMMA RepEntered ==
    ASSUME BusInv, Steady, \A s \in Conns : Local(s), WorkJob, NEW t \in Takers,
           JobTracksRep(t), Reps(SessionOf[t])
    PROVE  Reps(SessionOf[t])'
<1> DEFINE s == SessionOf[t]
           i == IdOf[work[t].job]
<1>1. /\ s \in Conns /\ NoDelivery \notin Deliveries
      /\ repAck \in [Conns -> [Ids -> Deliveries \cup {NoDelivery}]]
      /\ work \in [Takers -> Works] /\ Stages
  BY SessionsAssumption DEF Steady, SessionsTypeOK, Works
<1>2. work[t].at = "rep" /\ HasDelivery(work[t]) /\ work[t].job \in Jobs
  BY <1>1 DEF JobTracksRep, At, HasDelivery, Stages, Stage
<1>3. PICK d \in Deliveries : d = work[t].d
  BY <1>1, <1>2 DEF Stages, Stage, Works
<1>4. i \in Ids
  BY <1>2, JobsAssumption
<1>5. ~Told(s, d)
  BY <1>1, <1>2, <1>3 DEF Local
<1>6. inflight[d] # NoJob => IdOf[inflight[d]] = i
  BY <1>2, <1>3 DEF WorkJob
<1>7. UNCHANGED <<inflight, reader>> /\ repAck' = [repAck EXCEPT ![s][i] = d]
  BY <1>3 DEF JobTracksRep, vars
<1> HIDE DEF s, i
<1>8. repAck'[s][i] = d /\ \A id \in Ids : id # i => repAck'[s][id] = repAck[s][id]
  BY <1>1, <1>4, <1>7
<1>9. \A id \in Ids : repAck[s][id] # d
  BY <1>5 DEF Told
<1>10. ~Repping(s, d)
  BY <1>5 DEF Told
<1>11. ASSUME NEW id \in Ids, repAck'[s][id] \in Deliveries
       PROVE  /\ inflight'[repAck'[s][id]] # NoJob => IdOf[inflight'[repAck'[s][id]]] = id
              /\ ~(reader'[s].at \in {"claim", "ack"} /\ reader'[s].d = repAck'[s][id])
              /\ \A e \in Ids : repAck'[s][e] = repAck'[s][id] => e = id
  <2>1. CASE id = i
    BY <1>6, <1>7, <1>8, <1>9, <1>10, <2>1 DEF Repping
  <2>2. CASE id # i
    <3>1. repAck'[s][id] = repAck[s][id] /\ repAck[s][id] # d
      BY <1>8, <1>9, <2>2
    <3>2. /\ inflight[repAck[s][id]] # NoJob => IdOf[inflight[repAck[s][id]]] = id
          /\ ~Repping(s, repAck[s][id])
          /\ \A e \in Ids : repAck[s][e] = repAck[s][id] => e = id
      BY <1>11, <3>1 DEF Reps, s
    <3>3. inflight' = inflight /\ reader' = reader
      BY <1>7
    <3>4. \A e \in Ids : repAck'[s][e] = repAck[s][id] => e = id
      BY <1>8, <3>1, <3>2
    <3> QED BY <3>1, <3>2, <3>3, <3>4 DEF Repping
  <2> QED BY <2>1, <2>2
<1>12. Reps(s)'
  BY <1>11 DEF Reps, Repping
<1> QED BY <1>12 DEF s

\* The entries of every session, and every step.
LEMMA RepsStay ==
    ASSUME BusInv, BusInv', Steady, Owned, \A s \in Conns : Local(s), WorkJob,
           [NextSessions]_allVars, \A s \in Conns : Reps(s)
    PROVE  \A s \in Conns : Reps(s)'
<1>1. /\ NoDelivery \notin Deliveries /\ SessionsTypeOK /\ Stages
      /\ repAck \in [Conns -> [Ids -> Deliveries \cup {NoDelivery}]]
      /\ reader \in [Conns -> [at : ReaderPCs, d : Deliveries \cup {NoDelivery}]]
      /\ SessionOf \in [Takers -> Conns]
  BY SessionsAssumption DEF Steady, SessionsTypeOK
<1>2. \A e \in issued : inflight'[e] \in {inflight[e], NoJob}
  BY LeasesEnd
<1>3. ASSUME NEW s \in Conns, repAck'[s] = repAck[s], reader'[s] = reader[s]
      PROVE  Reps(s)'
  <2>1. /\ \A id \in Ids : repAck'[s][id] \in {repAck[s][id], NoDelivery}
        /\ \A d \in Deliveries : Repping(s, d)' => Repping(s, d)
    BY <1>3 DEF Repping
  <2> QED BY <1>1, <1>2, <2>1, RepsShrink
<1>4. CASE BusStep \/ UNCHANGED allVars
  BY <1>3, <1>4 DEF BusStep, hubVars, allVars
<1>5. ASSUME NEW t \in Takers, JobStep(t), ~JobTracksRep(t) PROVE Reps(SessionOf[t])'
  <2> DEFINE s == SessionOf[t]
  <2>1. s \in Conns
    BY <1>1
  <2>2. /\ reader' = reader \/ reader' = [reader EXCEPT ![s] = Reading]
        /\ \/ repAck' = repAck
           \/ \E id : repAck' = [repAck EXCEPT ![s][id] = NoDelivery]
    BY <1>5 DEF JobStep, JobFrame, JobTakes, JobReceives, JobTakeFails, JobHolds,
             JobHoldFails, JobRequeues, JobTracks, JobWrites, JobWriteFails,
             JobClaims, JobAcks, Read, hubVars
  <2> HIDE DEF s
  <2>3. \A id \in Ids : repAck'[s][id] \in {repAck[s][id], NoDelivery}
    BY <1>1, <2>1, <2>2
  <2>4. reader'[s] \in {reader[s], Reading}
    BY <1>1, <2>1, <2>2
  <2>5. \A d \in Deliveries : Repping(s, d)' => Repping(s, d)
    BY <2>4 DEF Repping, Reading
  <2>6. Reps(s)'
    BY <1>1, <1>2, <2>1, <2>3, <2>5, RepsShrink
  <2> QED BY <2>6 DEF s
<1>6. ASSUME NEW t \in Takers, JobStep(t) PROVE \A s \in Conns : Reps(s)'
  <2>1. SessionOf[t] \in Conns /\ Alone(SessionOf[t])
    BY <1>1, <1>6, OneSession
  <2>2. Reps(SessionOf[t])'
    BY <1>5, <1>6, <2>1, RepEntered
  <2>3. ASSUME NEW s \in Conns, s # SessionOf[t] PROVE Reps(s)'
    BY <1>3, <2>1, <2>3 DEF Alone
  <2> QED BY <2>2, <2>3
<1>7. ASSUME NEW s \in Conns, ReaderStep(s) PROVE Reps(s)'
  <2>1. ASSUME NEW id \in Ids, RepFrame(s, id) PROVE Reps(s)'
    <3>1. /\ repAck' = [repAck EXCEPT ![s][id] = NoDelivery]
          /\ reader' = [reader EXCEPT ![s] = [at |-> "claim", d |-> repAck[s][id]]]
      BY <2>1 DEF RepFrame
    <3>2. /\ repAck'[s][id] = NoDelivery
          /\ \A e \in Ids : repAck'[s][e] \in {repAck[s][e], NoDelivery}
      BY <1>1, <3>1
    <3>3. reader'[s].d = repAck[s][id]
      BY <1>1, <3>1
    <3>4. \A d \in Deliveries : Repping(s, d)' => repAck[s][id] = d
      BY <3>3 DEF Repping
    <3> QED BY <1>1, <1>2, <3>2, <3>4, RepsShrink
  <2>2. CASE ~ \E id \in Ids : RepFrame(s, id)
    <3>1. UNCHANGED repAck
      BY <1>7, <2>2 DEF ReaderStep, AckFrame, NackFrame, ReadFrame, OtherFrame,
             DropInflight, RepClaims, RepAcks
    <3>2. \A d \in Deliveries : Repping(s, d)' => Repping(s, d)
      BY <1>1, <1>7, <2>2 DEF ReaderStep, AckFrame, NackFrame, ReadFrame, OtherFrame,
             DropInflight, RepClaims, RepAcks, LeaseFrameReplied, Read, Reading, Handles, Repping
    <3>3. \A id \in Ids : repAck'[s][id] \in {repAck[s][id], NoDelivery}
      BY <3>1
    <3> QED BY <1>1, <1>2, <3>2, <3>3, RepsShrink
  <2> QED BY <2>1, <2>2
<1>8. ASSUME NEW s \in Conns, EndStep(s) PROVE Reps(s)'
  BY <1>3, <1>8 DEF EndStep, CloseSession, ContextDone, NackCopied
<1>9. ASSUME NEW r \in Conns, ReaderStep(r) \/ EndStep(r) PROVE \A s \in Conns : Reps(s)'
  <2>1. Alone(r)
    BY <1>9, OneSession
  <2>2. ASSUME NEW s \in Conns, s # r PROVE Reps(s)'
    BY <1>3, <2>1, <2>2 DEF Alone
  <2> QED BY <1>7, <1>8, <1>9, <2>2
<1> QED BY <1>4, <1>6, <1>9 DEF NextSessions

\* Such an entry is of a delivery that its session lists: nobody else watches it.
LEMMA RepsNamed ==
    ASSUME SessionsTypeOK, Stages, Owned, \A s \in Conns : Local(s), Watched,
           \A s \in Conns : Reps(s)
    PROVE  RepNamesLease
<1> SUFFICES ASSUME NEW s \in Conns, NEW id \in Ids, NEW d, d = repAck[s][id],
                    d # NoDelivery, inflight[d] # NoJob
             PROVE  /\ IdOf[inflight[d]] = id
                    /\ d \in tracked[s] \cup toNack[s]
                    /\ ~(reader[s].at \in {"claim", "ack"} /\ reader[s].d = d)
  BY DEF RepNamesLease
<1>1. d \in Deliveries
  BY DEF SessionsTypeOK
<1>2. IdOf[inflight[d]] = id /\ ~Repping(s, d)
  BY <1>1 DEF Reps
<1>3. Told(s, d) /\ Uses(s, d)
  BY DEF Told, Uses
<1>4. \A r \in Conns : Uses(r, d) => r = s
  BY <1>1, <1>3 DEF Owned
<1>5. ASSUME NEW t \in Takers, work[t].d = d, work[t].at \in {"track", "ack"} PROVE FALSE
  <2>1. SessionOf[t] \in Conns /\ Uses(SessionOf[t], d)
    BY <1>5, SessionsAssumption DEF Uses
  <2>2. HasDelivery(work[t]) /\ (work[t].at = "ack" => work[t].kind = "take")
    BY <1>5 DEF HasDelivery, Stages, Stage
  <2>3. SessionOf[t] = s
    BY <1>4, <2>1
  <2> QED BY <1>3, <1>5, <2>2, <2>3 DEF Local
<1>6. ASSUME NEW r \in Conns, reader[r] = [at |-> "ack", d |-> d] PROVE FALSE
  <2>1. Repping(r, d)
    BY <1>6 DEF Repping
  <2>2. r = s
    BY <1>4, <2>1 DEF Uses, Told
  <2> QED BY <1>2, <2>1, <2>2
<1>7. \E r \in Conns : Lists(r, d)
  BY <1>1, <1>5, <1>6 DEF Watched, Watch, InFlux
<1>8. Lists(s, d)
  BY <1>4, <1>7 DEF Uses
<1> QED BY <1>2, <1>8 DEF Lists, Repping

-----------------------------------------------------------------------------
(* How leases end.                                                         *)

\* How a lease ends: it had elapsed, a take is acknowledged, a rep that claimed it
\* acks it, an ack or nack frame names it, whoever sent that, or a session that has
\* ended gives it back.
LEMMA LeaseFates ==
    ASSUME BusInv, Steady, \A s \in Conns : Local(s), [NextSessions]_allVars,
           NEW d \in Deliveries, inflight[d] # NoJob, inflight'[d] = NoJob
    PROVE  \/ d \in elapsed
           \/ \E t \in Takers : work[t].at = "ack" /\ work[t].d = d /\ Ack(d)
           \/ \E s \in Conns : reader[s] = [at |-> "ack", d |-> d]
           \/ d \in Known /\ SettledByFrame(d)
           \/ \E s \in Conns : d \in toNack[s] /\ ~open[s]
<1>1. TypeOK /\ SessionsTypeOK /\ Stages /\ ReaderStages /\ NoDelivery \notin Deliveries
      /\ Known \subseteq Deliveries
  BY SessionsAssumption, KnownIds DEF Steady, BusInv, PlacementInv, TypeOK
<1>2. CASE BusStep
  BY <1>1, <1>2, BusStepEffects
<1>3. ASSUME NEW e \in Deliveries, AckIfLeased(e) \/ NackIfLeased(e) PROVE e = d
  BY <1>1, <1>3, LeaseEffects
<1>4. UNCHANGED vars => FALSE
  BY DEF vars
<1>5. ASSUME NEW t \in Takers, JobStep(t)
      PROVE  d \in elapsed \/ (work[t].at = "ack" /\ work[t].d = d /\ Ack(d))
  <2>1. CASE JobTakes(t)
    BY <1>1, <2>1, TakerEffects DEF JobTakes
  <2>2. CASE JobReceives(t) \/ JobHoldFails(t) \/ JobRequeues(t)
    BY <1>1, <2>2, TakerEffects DEF JobReceives, JobHoldFails, JobRequeues
  <2>3. CASE JobTakeFails(t)
    BY <1>1, <1>4, <2>3, TakerEffects DEF JobTakeFails
  <2>4. ASSUME NEW e \in Deliveries, JobHolds(t, e) PROVE FALSE
    <3>1. Hold(t, e)
      BY <2>4 DEF JobHolds
    <3>2. e # d => inflight'[d] = inflight[d]
      BY <1>1, <3>1, HoldEffects
    <3>3. e = d
      BY <3>2
    <3>4. inflight'[d] = hand[t] /\ hand[t] # NoJob
      BY <1>1, <3>1, <3>3, HoldEffects DEF BusInv, PlacementInv, HandsFull
    <3> QED BY <3>4
  <2>5. CASE JobAcks(t)
    <3>1. work[t].d \in Deliveries /\ work[t].at = "ack" /\ AckIfLeased(work[t].d)
      BY <1>1, <2>5 DEF JobAcks, At, SessionsTypeOK, Stages, Stage, HasDelivery
    <3>2. work[t].d = d
      BY <1>3, <3>1
    <3> QED BY <3>1, <3>2 DEF AckIfLeased
  <2>6. CASE \/ \E kind \in Kinds : JobFrame(t, kind)
             \/ JobTracks(t) \/ JobTracksRep(t) \/ JobWrites(t) \/ JobWriteFails(t)
             \/ JobClaims(t)
    BY <1>4, <2>6 DEF JobFrame, JobTracks, JobTracksRep, JobWrites, JobWriteFails, JobClaims
  <2> QED BY <1>5, <2>1, <2>2, <2>3, <2>4, <2>5, <2>6 DEF JobStep
<1>6. ASSUME NEW s \in Conns, ReaderStep(s)
      PROVE  \/ reader[s] = [at |-> "ack", d |-> d]
             \/ d \in Known /\ SettledByFrame(d)
  <2>1. reader \in [Conns -> [at : ReaderPCs, d : Deliveries \cup {NoDelivery}]]
    BY <1>1 DEF SessionsTypeOK
  <2>2. ASSUME NEW e \in Known, AckFrame(s, e) \/ NackFrame(s, e)
        PROVE  d \in Known /\ SettledByFrame(d)
    <3>1. e = d /\ Handles(s)
      BY <1>1, <1>3, <2>2 DEF AckFrame, NackFrame
    <3>2. LeaseFrameReplied(s, d)
      BY <2>2, <3>1 DEF AckFrame, NackFrame
    <3>3. reader'[s] = [at |-> "drop", d |-> d] \/ (SaveFails /\ reader'[s] = Reading)
      BY <2>1, <3>2 DEF LeaseFrameReplied, Read
    <3> QED BY <2>2, <3>1, <3>3 DEF SettledByFrame
  <2>3. CASE RepAcks(s)
    <3>1. reader[s].d \in Deliveries /\ reader[s].at = "ack"
      BY <1>1, <2>1, <2>3 DEF RepAcks, ReaderStages
    <3>2. reader[s].d = d
      BY <1>3, <2>3, <3>1 DEF RepAcks
    <3> QED BY <2>1, <3>1, <3>2
  <2>4. CASE \/ \E id \in Ids : RepFrame(s, id)
             \/ ReadFrame(s) \/ OtherFrame(s) \/ DropInflight(s) \/ RepClaims(s)
    BY <1>4, <2>4 DEF RepFrame, ReadFrame, OtherFrame, DropInflight, RepClaims
  <2> QED BY <1>6, <2>2, <2>3, <2>4 DEF ReaderStep
<1>7. ASSUME NEW s \in Conns, EndStep(s) PROVE d \in toNack[s] /\ ~open[s]
  <2>1. ASSUME NEW e \in Deliveries, NackCopied(s, e) PROVE d \in toNack[s] /\ ~open[s]
    <3>1. e = d /\ d \in toNack[s]
      BY <1>3, <2>1 DEF NackCopied
    <3> QED BY <3>1 DEF Local
  <2> QED BY <1>4, <1>7, <2>1 DEF EndStep, CloseSession, ContextDone
<1> QED BY <1>2, <1>4, <1>5, <1>6, <1>7 DEF NextSessions, allVars

\* What a worker of an open session holds is ended by its own rep, by a frame that
\* names it, or because it elapsed.
LEMMA LeaseKept ==
    ASSUME BusInv, Steady, Owned, \A s \in Conns : Local(s), [NextSessions]_allVars,
           NEW s \in Conns, NEW d \in seen[s], open[s],
           inflight[d] # NoJob, inflight'[d] = NoJob
    PROVE  d \in elapsed \/ reader[s] = [at |-> "ack", d |-> d] \/ SettledByFrame(d)
<1>1. d \in Deliveries /\ Uses(s, d) /\ Told(s, d)
  BY DEF Steady, SessionsTypeOK, Uses, Told
<1>2. \A r \in Conns : Uses(r, d) => r = s
  BY <1>1 DEF Owned
<1>3. ASSUME NEW t \in Takers, work[t].at = "ack", work[t].d = d PROVE FALSE
  <2>1. HasDelivery(work[t]) /\ work[t].kind = "take"
    BY <1>3 DEF HasDelivery, Steady, Stages, Stage
  <2>2. SessionOf[t] = s
    BY <1>2, <1>3, SessionsAssumption DEF Uses
  <2> QED BY <1>1, <1>3, <2>1, <2>2 DEF Local
<1>4. ASSUME NEW r \in Conns, reader[r] = [at |-> "ack", d |-> d] PROVE r = s
  BY <1>2, <1>4 DEF Uses, Told, Repping
<1>5. ASSUME NEW r \in Conns, d \in toNack[r] PROVE r = s
  BY <1>2, <1>5 DEF Uses, Lists
<1> QED BY <1>1, <1>3, <1>4, <1>5, LeaseFates

\* An acknowledged delivery leaves the bus.
LEMMA AckedLeaves ==
    ASSUME SinglePlace, TypeOK, NEW d \in Deliveries, Ack(d)
    PROVE  inflight[d] \notin Located'
<1>1. q' = q /\ hand' = hand /\ inflight' = Without({d}) /\ inflight[d] # NoJob
  BY DEF Ack
<1>2. inflight[d] \notin ToSet(q) /\ inflight[d] \in Leased(inflight)
  BY <1>1 DEF SinglePlace, OncePlaced, NoRepetition, Leased
<1>3. inflight[d] \notin InHand
  BY <1>2 DEF SinglePlace, OncePlaced, InHand
<1>4. inflight[d] \notin Leased(Without({d}))
  BY <1>1 DEF SinglePlace, OncePlaced, NoRepetition, Leased, Without
<1>5. Located' = ToSet(q) \cup InHand \cup Leased(Without({d}))
  BY <1>1 DEF Located, InHand
<1> QED BY <1>2, <1>3, <1>4, <1>5

\* No rep and no frame names what was written for a take, so that it is acked, or it
\* elapses, or its session's close() has copied it.
LEMMA TakeSettled ==
    ASSUME BusInv, Steady, Owned, \A s \in Conns : Local(s), [NextSessions]_allVars,
           NEW s \in Conns, NEW d \in taken[s], inflight[d] # NoJob, inflight'[d] = NoJob
    PROVE  inflight[d] \notin Located' \/ d \in elapsed \/ d \in toNack[s]
<1>1. d \in Deliveries /\ Uses(s, d) /\ ~Told(s, d) /\ SinglePlace /\ TypeOK
  BY DEF Steady, SessionsTypeOK, Uses, Local, BusInv, PlacementInv
<1>2. \A r \in Conns : Uses(r, d) => r = s
  BY <1>1 DEF Owned
<1>3. Ack(d) => inflight[d] \notin Located'
  BY <1>1, AckedLeaves
<1>4. \A r \in Conns : Told(r, d) => FALSE
  BY <1>1, <1>2 DEF Uses
<1>5. ASSUME NEW r \in Conns, reader[r] = [at |-> "ack", d |-> d] PROVE FALSE
  BY <1>4, <1>5 DEF Told, Repping
<1>6. d \notin Known
  BY <1>4 DEF Known, Told
<1>7. ASSUME NEW r \in Conns, d \in toNack[r] PROVE d \in toNack[s]
  BY <1>2, <1>7 DEF Uses, Lists
<1> QED BY <1>1, <1>3, <1>5, <1>6, <1>7, LeaseFates

-----------------------------------------------------------------------------
(* The inductive invariant of the hub.                                     *)

HubInv ==
    BusInv /\ Steady /\ Owned /\ (\A s \in Conns : Local(s)) /\ Watched
    /\ WorkJob /\ (\A s \in Conns : Reps(s))

\* It holds when no session has read a frame.
LEMMA HubInit == InitSessions => HubInv
<1> SUFFICES ASSUME InitSessions PROVE HubInv
  OBVIOUS
<1>1. Init
  BY DEF InitSessions
<1>2. BusInv
  <2>1. PlacementInv
    BY <1>1, PlacementInit
  <2>2. WaitersWait
    BY <1>1 DEF Init, WaitersWait, HandsFull, IsInjective, ToSet
  <2>3. LeasesIssued
    BY <1>1 DEF Init, NoLeases, LeasesIssued
  <2> QED BY <2>1, <2>2, <2>3 DEF BusInv
<1>3. Idle \in Works /\ Idle.d = NoDelivery /\ Idle.at = "none"
  BY DEF Idle, Works, WorkPCs, Kinds, Maybe
<1>4. /\ \A s \in Conns : /\ open[s] /\ tracked[s] = {} /\ toNack[s] = {} /\ seen[s] = {}
                          /\ reader[s] = Reading /\ \A id \in Ids : repAck[s][id] = NoDelivery
      /\ \A t \in Takers : work[t] = Idle /\ pc[t] = "idle"
      /\ \A d \in Deliveries : inflight[d] = NoJob
      /\ \A s \in Conns : taken[s] = {}
      /\ NoDelivery \notin Deliveries
  BY SessionsAssumption DEF InitSessions, Init, NoLeases
<1>5. Steady
  <2>1. SessionsTypeOK
    BY <1>3 DEF InitSessions, SessionsTypeOK, Works, Reading, ReaderPCs
  <2>2. Stages /\ ReaderStages
    BY <1>3, <1>4 DEF Stages, Stage, HasDelivery, ReaderStages, Reading
  <2> QED BY <2>1, <2>2 DEF Steady
<1>6. Owned
  BY <1>3, <1>4 DEF Owned, Uses, Lists, Told, Repping, Reading
<1>7. \A s \in Conns : Local(s)
  BY <1>3, <1>4 DEF Local, HasDelivery, Reading
<1>8. Watched /\ WorkJob /\ \A s \in Conns : Reps(s)
  BY <1>3, <1>4 DEF Watched, WorkJob, HasDelivery, Reps
<1> QED BY <1>2, <1>5, <1>6, <1>7, <1>8 DEF HubInv

\* Every step of the hub keeps it.
LEMMA HubStep == HubInv /\ [NextSessions]_allVars => HubInv'
<1> SUFFICES ASSUME HubInv, [NextSessions]_allVars PROVE HubInv'
  OBVIOUS
<1>1. BusInv /\ Steady /\ Owned /\ (\A s \in Conns : Local(s)) /\ Watched /\ WorkJob
      /\ \A s \in Conns : Reps(s)
  BY DEF HubInv
<1>2. BusInv'
  BY <1>1, BusStays DEF Steady
<1>3. Steady'
  BY <1>1, <1>2, TypesStay, ReadersStay DEF Steady
<1>4. Owned'
  BY <1>1, <1>2, OwnedStays
<1>5. \A s \in Conns : Local(s)'
  BY <1>1, <1>2, LocalStays
<1>6. Watched'
  BY <1>1, <1>2, WatchedStays
<1>7. WorkJob'
  BY <1>1, <1>2, WorkJobStays
<1>8. \A s \in Conns : Reps(s)'
  BY <1>1, <1>2, RepsStay
<1> QED BY <1>2, <1>3, <1>4, <1>5, <1>6, <1>7, <1>8 DEF HubInv

\* In every state the hub reaches.
LEMMA HubHolds == SessionsSpec => []HubInv
BY HubInit, HubStep, PTL DEF SessionsSpec

\* The hub drives the mailbox only through its steps, so all that is proved of the
\* mailbox holds under the sessions: no handler of hub.go reaches into the queue,
\* the leases or the channels of another.
THEOREM HubIsMailbox == SessionsSpec => Spec
<1>1. InitSessions => Init
  BY DEF InitSessions
<1>2. HubInv /\ [NextSessions]_allVars => [Next]_vars
  BY HubSteps DEF HubInv, Steady
<1> QED BY <1>1, <1>2, HubHolds, PTL DEF SessionsSpec, Spec

\* A job that is put, taken, handed to a worker, acked, nacked or left behind by
\* the handlers and goroutines of the hub lives the life that WorkQueue promises,
\* whatever they do between two calls of the bus.
THEOREM HubKeepsPromise == SessionsSpec => KeepsPromise
BY HubIsMailbox, PromiseKept

\* Every variable of struct session has its type.
THEOREM SessionTypes == SessionsSpec => []SessionsTypeOK
<1>1. HubInv => SessionsTypeOK
  BY DEF HubInv, Steady
<1> QED BY <1>1, HubHolds, PTL

\* Every lease has one watcher, for any number of sessions, goroutines and leases,
\* whichever of trackInflight, claimInflight, dropInflight and close() run in
\* between: none is forgotten and none is settled by two.
THEOREM LeasesWatched == SessionsSpec => []LeaseWatched
<1>1. HubInv => LeaseWatched
  BY OneWatcher DEF HubInv, Steady
<1> QED BY <1>1, HubHolds, PTL

\* What takeJob or the rep handler has claimed no close() will nack.
THEOREM ClaimsExclusive == SessionsSpec => []ClaimExclusive
<1>1. HubInv => ClaimExclusive
  BY ClaimedApart DEF HubInv, Steady
<1> QED BY <1>1, HubHolds, PTL

\* A rep acks a lease on a job with its message id, once, that its own session lists,
\* for any number of sessions and redeliveries: neither an entry that a redelivery
\* under ready overwrote nor a late or repeated rep settles another job
\* (trackRepAck, takeRepAck, claimInflight).
THEOREM RepsNameLeases == SessionsSpec => []RepNamesLease
<1>1. HubInv => RepNamesLease
  BY RepsNamed DEF HubInv, Steady
<1> QED BY <1>1, HubHolds, PTL

\* A job that was written for a take leaves the bus by the ack behind the write,
\* unless its lease elapses or its session's close() comes between the write and
\* claimInflight: those are the only ways in which a take is not at-most-once.
THEOREM TakesReturnOnlyByClose == SessionsSpec => TakenReturnsOnlyByClose
<1> DEFINE Settled ==
        \A s \in Conns : \A d \in taken[s] :
          inflight[d] # NoJob /\ inflight'[d] = NoJob =>
              \/ inflight[d] \notin Located'
              \/ d \in elapsed
              \/ d \in toNack[s]
<1>1. HubInv /\ [NextSessions]_allVars => Settled
  BY TakeSettled DEF HubInv
<1>2. SessionsSpec => [][Settled]_allVars
  <2> HIDE DEF Settled
  <2> QED BY <1>1, HubHolds, PTL DEF SessionsSpec
<1> QED BY <1>2 DEF TakenReturnsOnlyByClose, Settled

\* The lease of a worker that is connected ends because it elapsed, by a rep of the
\* worker, or by an ack or nack frame that names it, which the hub takes from any
\* session: never by another session's rep, take or close(), nor by a foreign
\* delivery id left in a list.
THEOREM HoldersKeepLeases == SessionsSpec => HolderKeepsLease
<1> DEFINE Keeps ==
        \A s \in Conns : \A d \in seen[s] :
          open[s] /\ inflight[d] # NoJob /\ inflight'[d] = NoJob =>
              \/ d \in elapsed
              \/ reader[s] = [at |-> "ack", d |-> d]
              \/ SettledByFrame(d)
<1>1. HubInv /\ [NextSessions]_allVars => Keeps
  BY LeaseKept DEF HubInv
<1>2. SessionsSpec => [][Keeps]_allVars
  <2> HIDE DEF Keeps
  <2> QED BY <1>1, HubHolds, PTL DEF SessionsSpec
<1> QED BY <1>2 DEF HolderKeepsLease, Keeps
=============================================================================
