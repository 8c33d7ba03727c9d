---------------------------- MODULE MailboxProofs ----------------------------
(* Proofs about Mailbox, for every value of its constants.  First its types,  *)
(* its wait list and the order in which waiters are served; then where its   *)
(* jobs are: each in one place, only jobs that were accepted and not         *)
(* acknowledged anywhere, none of them lost, what is queued or leased in the *)
(* file of a disk that works, and the order and the bound of the queue.      *)
EXTENDS Mailbox, TLAPS, SequenceTheorems, FiniteSetTheorems

-----------------------------------------------------------------------------
(* What the helpers of the specification return.                           *)

\* The number of jobs of an id in a sequence is a natural number.
LEMMA CopiesNat ==
    ASSUME NEW js \in Seq(Jobs), NEW id \in Ids
    PROVE  Copies(js, id) \in Nat
<1> DEFINE Here == {i \in DOMAIN js : IdOf[js[i]] = id}
<1>1. Len(js) \in Nat /\ DOMAIN js = 1..Len(js)
  BY LenProperties
<1>2. IsFiniteSet(1..Len(js))
  BY <1>1, FS_Interval
<1>3. IsFiniteSet(Here)
  BY <1>1, <1>2, FS_Subset
<1> QED BY <1>3, FS_CardinalityType DEF Copies

\* The index stays an index: adding and deleting keep natural numbers.
LEMMA IndexNat ==
    ASSUME NEW index \in [Ids -> Nat], NEW js \in Seq(Jobs)
    PROVE  /\ IndexAdd(index, js) \in [Ids -> Nat]
           /\ IndexDel(index, js) \in [Ids -> Nat]
BY CopiesNat DEF IndexAdd, IndexDel

\* So does the count of leased copies.
LEMMA LeaseCopiesNat ==
    ASSUME NEW leases \in [Deliveries -> Maybe], NEW id \in Ids
    PROVE  LeaseCopies(leases, id) \in Nat
<1> DEFINE Here == {d \in Deliveries : leases[d] # NoJob /\ IdOf[leases[d]] = id}
<1>1. IsFiniteSet(Here)
  BY DeliveriesAssumption, FS_Subset
<1> QED BY <1>1, FS_CardinalityType DEF LeaseCopies

\* deliverLocked hands out as many jobs as there are jobs and waiters.
LEMMA HandOffsBound ==
    ASSUME TypeOK, NEW js \in Seq(Jobs)
    PROVE  /\ HandOffs(js) \in Nat
           /\ HandOffs(js) <= Len(js)
           /\ HandOffs(js) <= Len(waiters)
           /\ HandOffs(js) < Len(js) => HandOffs(js) = Len(waiters)
<1>1. Len(js) \in Nat /\ Len(waiters) \in Nat
  BY LenProperties DEF TypeOK
<1> QED BY <1>1 DEF HandOffs

\* What deliverLocked leaves has the types of what it found.
LEMMA AfterTypes ==
    ASSUME TypeOK, NEW js \in Seq(Jobs)
    PROVE  /\ Unhanded(js) \in Seq(Jobs)
           /\ WaitersAfter(js) \in Seq(Takers)
           /\ HandAfter(js) \in [Takers -> Maybe]
           /\ \A hands \in [Takers -> Maybe] :
                 HandsWith(hands, js) \in [Takers -> Maybe]
           /\ QueueAfter(js) \in Seq(Jobs)
           /\ ReindexedAfter(js) \in [Ids -> Nat]
<1> DEFINE n == HandOffs(js)
<1>1. n \in Nat /\ n <= Len(js) /\ n <= Len(waiters)
  BY HandOffsBound
<1>2. Len(js) \in Nat /\ Len(waiters) \in Nat /\ waiters \in Seq(Takers)
  BY LenProperties DEF TypeOK
<1>3. Unhanded(js) \in Seq(Jobs)
  <2>1. \A i \in n+1 .. Len(js) : js[i] \in Jobs
    BY <1>1, <1>2, ElementOfSeq
  <2> QED BY <1>1, <1>2, <2>1, SubSeqProperties DEF Unhanded
<1>4. WaitersAfter(js) \in Seq(Takers)
  <2>1. \A i \in n+1 .. Len(waiters) : waiters[i] \in Takers
    BY <1>1, <1>2, ElementOfSeq
  <2> QED BY <1>1, <1>2, <2>1, SubSeqProperties DEF WaitersAfter
<1>5. ASSUME NEW hands \in [Takers -> Maybe]
      PROVE  HandsWith(hands, js) \in [Takers -> Maybe]
  <2>1. \A i \in 1..n : js[i] \in Maybe
    BY <1>1, <1>2, ElementOfSeq DEF Maybe
  <2>2. ASSUME NEW t \in Takers
        PROVE  (IF \E i \in 1..n : waiters[i] = t
                THEN js[CHOOSE i \in 1..n : waiters[i] = t]
                ELSE hands[t]) \in Maybe
    BY <2>1
  <2> HIDE DEF n
  <2> QED BY <2>2 DEF HandsWith, n
<1>6. QueueAfter(js) \in Seq(Jobs)
  <2>1. Reverse(Unhanded(js)) \in Seq(Jobs)
    <3> DEFINE u == Unhanded(js)
    <3> HIDE DEF u
    <3>1. u \in Seq(Jobs) /\ Len(u) \in Nat
      BY <1>3, LenProperties DEF u
    <3>2. \A i \in 1..Len(u) : u[(Len(u) - i) + 1] \in Jobs
      BY <3>1, ElementOfSeq
    <3> QED BY <3>1, <3>2 DEF Reverse, u
  <2> QED BY <2>1, ConcatProperties DEF QueueAfter, TypeOK
<1>7. ReindexedAfter(js) \in [Ids -> Nat]
  BY <1>3, IndexNat DEF ReindexedAfter, TypeOK
<1>8. HandAfter(js) \in [Takers -> Maybe]
  BY <1>5 DEF HandAfter, TypeOK
<1> QED BY <1>3, <1>4, <1>5, <1>6, <1>7, <1>8

\* The expired jobs form a sequence of jobs, in each of their orders.
LEMMA ExpiredJobsSeq ==
    ASSUME TypeOK, NEW js \in ExpiredJobs
    PROVE  js \in Seq(Jobs)
<1>1. PICK s \in Orders(Expired) : js = LeasedBy(s)
  BY DEF ExpiredJobs
<1> DEFINE n == Cardinality(Expired)
<1>2. n \in Nat
  BY DeliveriesAssumption, FS_Subset, FS_CardinalityType DEF Expired
<1>3. s \in [1..n -> Expired]
  BY <1>1 DEF Orders
<1>4. \A i \in 1..n : inflight[s[i]] \in Jobs
  BY <1>3 DEF Expired, TypeOK, Maybe
<1> QED BY <1>1, <1>2, <1>3, <1>4 DEF LeasedBy

\* What a taker's leaving does to the wait list.
LEMMA WaitersWithoutType ==
    ASSUME TypeOK, NEW t \in Takers
    PROVE  WaitersWithout(t) \in Seq(Takers)
<1>1. waiters \in Seq(Takers) /\ Len(waiters) \in Nat /\ DOMAIN waiters = 1..Len(waiters)
  BY LenProperties DEF TypeOK
<1>2. CASE t \in ToSet(waiters)
  <2> DEFINE i == CHOOSE k \in DOMAIN waiters : waiters[k] = t
  <2>1. i \in 1..Len(waiters)
    BY <1>1, <1>2 DEF ToSet
  <2> HIDE DEF i
  <2>2. \A k \in 1..Len(waiters) : waiters[k] \in Takers
    BY <1>1, ElementOfSeq
  <2>3. SubSeq(waiters, 1, i - 1) \in Seq(Takers)
    BY <1>1, <2>1, <2>2, SubSeqProperties
  <2>4. SubSeq(waiters, i + 1, Len(waiters)) \in Seq(Takers)
    BY <1>1, <2>1, <2>2, SubSeqProperties
  <2>5. WaitersWithout(t) = SubSeq(waiters, 1, i - 1) \o SubSeq(waiters, i + 1, Len(waiters))
    BY <1>2 DEF WaitersWithout, RemoveAt, i
  <2> QED BY <2>3, <2>4, <2>5, ConcatProperties
<1>3. CASE t \notin ToSet(waiters)
  BY <1>1, <1>3 DEF WaitersWithout
<1> QED BY <1>2, <1>3

\* A save writes a snapshot, a failed one leaves the one that was there.
LEMMA SavedType ==
    ASSUME TypeOK, q' \in Seq(Jobs), inflight' \in [Deliveries -> Maybe], SavedOrNot
    PROVE  disk' \in Snapshots
BY DEF TypeOK, SavedOrNot, Saved, SaveFails, Snapshots

\* Releasing leases leaves a table of leases.
LEMMA WithoutType ==
    ASSUME TypeOK, NEW ds
    PROVE  Without(ds) \in [Deliveries -> Maybe]
BY DEF TypeOK, Without, Maybe

\* Popping the head of the queue that expired jobs leave.
LEMMA PopTypes ==
    ASSUME TypeOK, NEW t \in Takers, NEW js \in Seq(Jobs), NEW next \in PCs,
           inflight' \in [Deliveries -> Maybe], Pop(t, js, next)
    PROVE  /\ q' \in Seq(Jobs)
           /\ waiters' \in Seq(Takers)
           /\ hand' \in [Takers -> Maybe]
           /\ dedup' \in [Ids -> Nat]
           /\ pc' \in [Takers -> PCs]
           /\ disk' \in Snapshots
<1> DEFINE queue == QueueAfter(js)
<1>1. /\ queue \in Seq(Jobs) /\ WaitersAfter(js) \in Seq(Takers)
      /\ HandAfter(js) \in [Takers -> Maybe] /\ ReindexedAfter(js) \in [Ids -> Nat]
  BY AfterTypes
<1>2. queue # <<>> /\ waiters' = WaitersAfter(js)
  BY DEF Pop
<1>3. Head(queue) \in Jobs /\ Tail(queue) \in Seq(Jobs) /\ <<Head(queue)>> \in Seq(Jobs)
  <2>1. Head(queue) \in Jobs /\ Tail(queue) \in Seq(Jobs)
    BY <1>1, <1>2, HeadTailProperties
  <2> QED BY <2>1
<1>4. CASE /\ q' = Tail(queue)
           /\ hand' = [HandAfter(js) EXCEPT ![t] = Head(queue)]
           /\ dedup' = IndexDel(ReindexedAfter(js), <<Head(queue)>>)
           /\ pc' = [pc EXCEPT ![t] = next]
           /\ Saved
  <2>1. hand' \in [Takers -> Maybe]
    BY <1>1, <1>3, <1>4 DEF Maybe
  <2>2. dedup' \in [Ids -> Nat]
    BY <1>1, <1>3, <1>4, IndexNat
  <2>3. pc' \in [Takers -> PCs]
    BY <1>4 DEF TypeOK
  <2> QED BY <1>1, <1>2, <1>3, <1>4, <2>1, <2>2, <2>3, SavedType DEF SavedOrNot
<1>5. CASE /\ q' = queue
           /\ hand' = HandAfter(js)
           /\ dedup' = ReindexedAfter(js)
           /\ pc' = pc
           /\ SaveFails
  BY <1>1, <1>2, <1>5, SavedType DEF SavedOrNot, TypeOK
<1> QED BY <1>4, <1>5 DEF Pop

\* The mailbox starts with its types.
LEMMA TypeInit == Init => TypeOK
<1> SUFFICES ASSUME Init PROVE TypeOK
  OBVIOUS
<1>1. <<>> \in Seq(Jobs) /\ <<>> \in Seq(Takers)
  BY EmptySeq
<1>2. NoLeases \in [Deliveries -> Maybe]
  BY DEF NoLeases, Maybe
<1>3. 0 \in 0..MaxRestarts
  BY LimitsAssumption
<1> QED BY <1>1, <1>2, <1>3 DEF Init, TypeOK, Snapshots, Maybe, PCs, Fates

\* No step breaks a type; that a taker in got or requeue has a job is needed,
\* because Hold and Requeue store or queue what it has.
LEMMA TypeStep == TypeOK /\ HandsFull /\ [Next]_vars => TypeOK'
<1> SUFFICES ASSUME TypeOK, HandsFull, [Next]_vars PROVE TypeOK'
  OBVIOUS
<1> USE DEF Fates, PCs
<1>1. ASSUME NEW j \in Jobs, Put(j) PROVE TypeOK'
  <2>1. CASE PutMerges(j)
    BY <2>1 DEF PutMerges, memory, TypeOK
  <2>2. CASE PutHandsOff(j)
    <3>1. Head(waiters) \in Takers /\ Tail(waiters) \in Seq(Takers)
      BY <2>2, HeadTailProperties DEF PutHandsOff, TypeOK
    <3>2. hand' \in [Takers -> Maybe]
      BY <2>2 DEF PutHandsOff, TypeOK, Maybe
    <3> QED BY <2>2, <3>1, <3>2 DEF PutHandsOff, TypeOK
  <2>3. CASE PutQueues(j)
    <3>1. q' \in Seq(Jobs)
      BY <2>3, AppendProperties DEF PutQueues, TypeOK
    <3>2. dedup' \in [Ids -> Nat]
      <4>1. <<j>> \in Seq(Jobs)
        OBVIOUS
      <4> QED BY <2>3, <4>1, IndexNat DEF PutQueues, TypeOK
    <3>3. disk' \in Snapshots
      BY <2>3, <3>1, SavedType DEF PutQueues, SavedOrNot, TypeOK
    <3> QED BY <2>3, <3>1, <3>2, <3>3 DEF PutQueues, TypeOK
  <2>4. CASE PutRefused(j)
    BY <2>4 DEF PutRefused, vars, TypeOK
  <2> QED BY <1>1, <2>1, <2>2, <2>3, <2>4 DEF Put
<1>2. ASSUME NEW t \in Takers, TakerStep(t) PROVE TypeOK'
  <2>1. CASE TakeChan(t)
    <3>1. inflight' \in [Deliveries -> Maybe]
      BY <2>1, WithoutType DEF TakeChan
    <3>2. PICK js \in ExpiredJobs :
             \/ Pop(t, js, "wait")
             \/ /\ QueueAfter(js) = <<>>
                /\ q' = <<>>
                /\ waiters' = Append(WaitersAfter(js), t)
                /\ hand' = HandAfter(js)
                /\ dedup' = ReindexedAfter(js)
                /\ pc' = [pc EXCEPT ![t] = "wait"]
                /\ UNCHANGED disk
      BY <2>1 DEF TakeChan
    <3>3. js \in Seq(Jobs)
      BY ExpiredJobsSeq
    <3>4. CASE Pop(t, js, "wait")
      BY <2>1, <3>1, <3>3, <3>4, PopTypes DEF TakeChan, TypeOK
    <3>5. CASE QueueAfter(js) = <<>> /\ ~Pop(t, js, "wait")
      <4>1. /\ WaitersAfter(js) \in Seq(Takers) /\ HandAfter(js) \in [Takers -> Maybe]
            /\ ReindexedAfter(js) \in [Ids -> Nat]
        BY <3>3, AfterTypes
      <4>2. waiters' \in Seq(Takers)
        <5>1. waiters' = Append(WaitersAfter(js), t)
          BY <3>2, <3>5
        <5> QED BY <4>1, <5>1, AppendProperties
      <4>3. pc' \in [Takers -> PCs] /\ q' \in Seq(Jobs)
        BY <3>2, <3>5, EmptySeq DEF TypeOK
      <4> QED BY <2>1, <3>1, <3>2, <3>5, <4>1, <4>2, <4>3 DEF TakeChan, TypeOK
    <3> QED BY <3>2, <3>4, <3>5
  <2>2. CASE TryTake(t)
    <3>1. inflight' \in [Deliveries -> Maybe]
      BY <2>2, WithoutType DEF TryTake
    <3>2. PICK js \in ExpiredJobs :
             \/ Pop(t, js, "got")
             \/ /\ QueueAfter(js) = <<>>
                /\ q' = <<>>
                /\ waiters' = WaitersAfter(js)
                /\ hand' = HandAfter(js)
                /\ dedup' = ReindexedAfter(js)
                /\ UNCHANGED <<pc, disk>>
      BY <2>2 DEF TryTake
    <3>3. js \in Seq(Jobs)
      BY ExpiredJobsSeq
    <3>4. CASE Pop(t, js, "got")
      BY <2>2, <3>1, <3>3, <3>4, PopTypes DEF TryTake, TypeOK
    <3>5. CASE QueueAfter(js) = <<>> /\ ~Pop(t, js, "got")
      BY <2>2, <3>1, <3>2, <3>3, <3>5, AfterTypes DEF TryTake, TypeOK
    <3> QED BY <3>2, <3>4, <3>5
  <2>3. CASE Receive(t)
    BY <2>3 DEF Receive, TypeOK
  <2>4. CASE TakeFails(t)
    BY <2>4 DEF TakeFails, TypeOK
  <2>5. CASE Cancel(t)
    <3>1. waiters' \in Seq(Takers)
      BY <2>5, WaitersWithoutType DEF Cancel
    <3>2. hand' \in [Takers -> Maybe] /\ pc' \in [Takers -> PCs]
      BY <2>5 DEF Cancel, TypeOK, Maybe
    <3>3. CASE hand[t] = NoJob
      BY <2>5, <3>1, <3>2, <3>3 DEF Cancel, TypeOK
    <3>4. CASE hand[t] # NoJob
      <4>1. <<hand[t]>> \in Seq(Jobs)
        BY <3>4 DEF TypeOK, Maybe
      <4>2. q' \in Seq(Jobs)
        <5>1. q' = <<hand[t]>> \o q
          BY <2>5, <3>4 DEF Cancel
        <5> QED BY <4>1, <5>1, ConcatProperties DEF TypeOK
      <4>3. dedup' \in [Ids -> Nat]
        <5>1. dedup' = IndexAdd(dedup, <<hand[t]>>)
          BY <2>5, <3>4 DEF Cancel
        <5> QED BY <4>1, <5>1, IndexNat DEF TypeOK
      <4>4. disk' \in Snapshots
        BY <2>5, <3>4, <4>2, SavedType DEF Cancel, TypeOK
      <4> QED BY <2>5, <3>1, <3>2, <4>2, <4>3, <4>4 DEF Cancel, TypeOK
    <3> QED BY <3>3, <3>4
  <2>6. ASSUME NEW d \in Deliveries, Hold(t, d) PROVE TypeOK'
    <3>1. inflight' \in [Deliveries -> Maybe] /\ hand' \in [Takers -> Maybe]
          /\ pc' \in [Takers -> PCs]
      BY <2>6 DEF Hold, TypeOK, Maybe
    <3>2. dedup' \in [Ids -> Nat]
      <4>1. <<hand[t]>> \in Seq(Jobs)
        BY <2>6 DEF Hold, HandsFull, TypeOK, Maybe
      <4> QED BY <2>6, <4>1, IndexNat DEF Hold, TypeOK
    <3>3. disk' \in Snapshots
      BY <2>6, <3>1, SavedType DEF Hold, SavedOrNot, TypeOK
    <3> QED BY <2>6, <3>1, <3>2, <3>3 DEF Hold, TypeOK
  <2>7. CASE HoldFails(t)
    BY <2>7 DEF HoldFails, TypeOK
  <2>8. CASE Requeue(t)
    <3>1. pc' \in [Takers -> PCs]
      BY <2>8 DEF Requeue, TypeOK
    <3>2. CASE closed
      BY <2>8, <3>1, <3>2 DEF Requeue, TypeOK, Maybe
    <3>3. CASE ~closed
      <4> DEFINE js == <<hand[t]>>
      <4>1. js \in Seq(Jobs)
        BY <2>8 DEF Requeue, HandsFull, TypeOK, Maybe
      <4>2. q' \in Seq(Jobs) /\ waiters' \in Seq(Takers)
        BY <2>8, <3>3, <4>1, AfterTypes DEF Requeue
      <4>3. hand' \in [Takers -> Maybe]
        <5>1. [hand EXCEPT ![t] = NoJob] \in [Takers -> Maybe]
          BY DEF TypeOK, Maybe
        <5>2. hand' = HandsWith([hand EXCEPT ![t] = NoJob], js)
          BY <2>8, <3>3 DEF Requeue
        <5> HIDE DEF js
        <5> QED BY <4>1, <5>1, <5>2, AfterTypes
      <4>4. dedup' \in [Ids -> Nat]
        <5>1. dedup' = IndexAdd(dedup, Unhanded(js)) /\ Unhanded(js) \in Seq(Jobs)
          BY <2>8, <3>3, <4>1, AfterTypes DEF Requeue
        <5> QED BY <5>1, IndexNat DEF TypeOK
      <4>5. disk' \in Snapshots
        BY <2>8, <3>3, <4>2, SavedType DEF Requeue, TypeOK
      <4> QED BY <2>8, <3>1, <4>2, <4>3, <4>4, <4>5 DEF Requeue, TypeOK
    <3> QED BY <3>2, <3>3
  <2> QED BY <1>2, <2>1, <2>2, <2>3, <2>4, <2>5, <2>6, <2>7, <2>8 DEF TakerStep
<1>3. ASSUME NEW d \in Deliveries, DeliveryStep(d) PROVE TypeOK'
  <2>1. CASE Ack(d)
    <3>1. inflight[d] \in Jobs /\ <<inflight[d]>> \in Seq(Jobs)
      BY <2>1 DEF Ack, TypeOK, Maybe
    <3>2. inflight' \in [Deliveries -> Maybe] /\ dedup' \in [Ids -> Nat]
      BY <2>1, <3>1, WithoutType, IndexNat DEF Ack, TypeOK
    <3>3. fate' \in [Jobs -> Fates]
      BY <2>1, <3>1 DEF Ack, TypeOK
    <3>4. disk' \in Snapshots
      BY <2>1, <3>2, SavedType DEF Ack, SavedOrNot, TypeOK
    <3> QED BY <2>1, <3>2, <3>3, <3>4 DEF Ack, TypeOK
  <2>2. CASE Nack(d)
    <3>1. inflight[d] \in Jobs /\ <<inflight[d]>> \in Seq(Jobs)
      BY <2>2 DEF Nack, TypeOK, Maybe
    <3>2. inflight' \in [Deliveries -> Maybe]
      BY <2>2, WithoutType DEF Nack
    <3>3. /\ q' \in Seq(Jobs) /\ waiters' \in Seq(Takers)
          /\ hand' \in [Takers -> Maybe] /\ dedup' \in [Ids -> Nat]
      BY <2>2, <3>1, AfterTypes DEF Nack
    <3>4. disk' \in Snapshots
      BY <2>2, <3>2, <3>3, SavedType DEF Nack
    <3> QED BY <2>2, <3>2, <3>3, <3>4 DEF Nack, TypeOK
  <2>3. CASE LeaseElapses(d)
    BY <2>3 DEF LeaseElapses, memory, TypeOK
  <2> QED BY <1>3, <2>1, <2>2, <2>3 DEF DeliveryStep
<1>4. CASE ExpireLeases
  <2>1. inflight' \in [Deliveries -> Maybe]
    BY <1>4, WithoutType DEF ExpireLeases
  <2>2. PICK js \in ExpiredJobs :
           /\ q' = QueueAfter(js)
           /\ waiters' = WaitersAfter(js)
           /\ hand' = HandAfter(js)
           /\ dedup' = ReindexedAfter(js)
    BY <1>4 DEF ExpireLeases
  <2>3. /\ q' \in Seq(Jobs) /\ waiters' \in Seq(Takers)
        /\ hand' \in [Takers -> Maybe] /\ dedup' \in [Ids -> Nat]
    BY <2>2, ExpiredJobsSeq, AfterTypes
  <2>4. disk' \in Snapshots
    BY <1>4, <2>1, <2>3, SavedType DEF ExpireLeases
  <2> QED BY <1>4, <2>1, <2>3, <2>4 DEF ExpireLeases, TypeOK
<1>5. CASE Close
  BY <1>5, EmptySeq DEF Close, TypeOK
<1>6. CASE Restart
  <2>1. disk.q \in Seq(Jobs) /\ disk.inflight \in [Deliveries -> Maybe]
    BY DEF TypeOK, Snapshots
  <2>2. dedup' \in [Ids -> Nat]
    <3>1. \A id \in Ids : /\ Copies(disk.q, id) \in Nat
                          /\ LeaseCopies(disk.inflight, id) \in Nat
      BY <2>1, CopiesNat, LeaseCopiesNat
    <3> QED BY <1>6, <3>1 DEF Restart
  <2>3. restarts' \in 0..MaxRestarts
    BY <1>6, LimitsAssumption DEF Restart, TypeOK
  <2> QED BY <1>6, <2>1, <2>2, <2>3, EmptySeq DEF Restart, TypeOK, Maybe
<1>7. CASE UNCHANGED vars
  BY <1>7 DEF vars, TypeOK
<1> QED BY <1>1, <1>2, <1>3, <1>4, <1>5, <1>6, <1>7 DEF Next

\* A taker gets or keeps its job in every step but its own Hold, Requeue and
\* Cancel, which take it back to idle, and a hand-off gives a job.
LEMMA HandsFullStep ==
    TypeOK /\ HandsFull /\ [Next]_vars => HandsFull'
<1> SUFFICES ASSUME TypeOK, HandsFull, [Next]_vars PROVE HandsFull'
  OBVIOUS
<1>1. ASSUME NEW js \in Seq(Jobs), NEW hands, NEW t \in Takers, hands[t] # NoJob
      PROVE  HandsWith(hands, js)[t] # NoJob
  <2> DEFINE n == HandOffs(js)
  <2>1. n \in Nat /\ n <= Len(js) /\ Len(js) \in Nat
    BY HandOffsBound, LenProperties
  <2>2. \A i \in 1..n : js[i] \in Jobs
    BY <2>1, ElementOfSeq
  <2> HIDE DEF n
  <2>3. \A i \in 1..n : js[i] # NoJob
    BY <2>2, JobsAssumption
  <2> QED BY <1>1, <2>3 DEF HandsWith, n
<1>2. ASSUME NEW t \in Takers, NEW js \in Seq(Jobs), NEW next \in {"wait", "got"},
             Pop(t, js, next)
      PROVE  HandsFull'
  <2>1. /\ HandAfter(js) \in [Takers -> Maybe] /\ QueueAfter(js) \in Seq(Jobs)
    BY AfterTypes
  <2>2. QueueAfter(js) # <<>> => Head(QueueAfter(js)) # NoJob
    BY <2>1, HeadTailProperties, JobsAssumption
  <2> QED BY <1>1, <1>2, <2>1, <2>2 DEF Pop, HandsFull, TypeOK, HandAfter
<1>3. ASSUME NEW j \in Jobs, Put(j) PROVE HandsFull'
  <2>1. CASE PutHandsOff(j)
    <3>1. j # NoJob
      BY JobsAssumption
    <3> QED BY <2>1, <3>1 DEF PutHandsOff, HandsFull, TypeOK
  <2> QED BY <1>3, <2>1 DEF Put, PutMerges, PutQueues, PutRefused, memory, vars, HandsFull
<1>4. ASSUME NEW t \in Takers, TakerStep(t) PROVE HandsFull'
  <2>1. CASE TakeChan(t)
    <3>1. PICK js \in ExpiredJobs :
             \/ Pop(t, js, "wait")
             \/ hand' = HandAfter(js) /\ pc' = [pc EXCEPT ![t] = "wait"]
      BY <2>1 DEF TakeChan
    <3>2. js \in Seq(Jobs)
      BY ExpiredJobsSeq
    <3> QED BY <1>1, <1>2, <3>1, <3>2 DEF HandsFull, TypeOK, HandAfter
  <2>2. CASE TryTake(t)
    <3>1. PICK js \in ExpiredJobs :
             \/ Pop(t, js, "got")
             \/ hand' = HandAfter(js) /\ pc' = pc
      BY <2>2 DEF TryTake
    <3>2. js \in Seq(Jobs)
      BY ExpiredJobsSeq
    <3> QED BY <1>1, <1>2, <3>1, <3>2 DEF HandsFull, HandAfter
  <2>3. CASE Receive(t) \/ TakeFails(t) \/ Cancel(t) \/ HoldFails(t)
    BY <2>3 DEF Receive, TakeFails, Cancel, HoldFails, HandsFull, TypeOK
  <2>4. ASSUME NEW d \in Deliveries, Hold(t, d) PROVE HandsFull'
    BY <2>4 DEF Hold, HandsFull, TypeOK
  <2>5. CASE Requeue(t)
    <3> DEFINE js == <<hand[t]>>
    <3>1. js \in Seq(Jobs)
      BY <2>5 DEF Requeue, HandsFull, TypeOK, Maybe
    <3>2. HandAfter(js) \in [Takers -> Maybe]
      BY <3>1, AfterTypes
    <3>3. CASE closed
      BY <2>5, <3>3 DEF Requeue, HandsFull, TypeOK
    <3>4. CASE ~closed
      <4>1. hand' = HandsWith([hand EXCEPT ![t] = NoJob], js) /\ pc' = [pc EXCEPT ![t] = "idle"]
        BY <2>5, <3>4 DEF Requeue
      <4> HIDE DEF js
      <4> QED BY <1>1, <3>1, <3>2, <4>1 DEF HandsFull, TypeOK
    <3> QED BY <3>3, <3>4
  <2> QED BY <1>4, <2>1, <2>2, <2>3, <2>4, <2>5 DEF TakerStep
<1>5. ASSUME NEW d \in Deliveries, DeliveryStep(d) PROVE HandsFull'
  <2>1. CASE Nack(d)
    <3>1. <<inflight[d]>> \in Seq(Jobs)
      BY <2>1 DEF Nack, TypeOK, Maybe
    <3> QED BY <1>1, <2>1, <3>1 DEF Nack, HandsFull, HandAfter
  <2> QED BY <1>5, <2>1 DEF DeliveryStep, Ack, LeaseElapses, memory, HandsFull
<1>6. CASE ExpireLeases
  <2>1. PICK js \in ExpiredJobs : hand' = HandAfter(js)
    BY <1>6 DEF ExpireLeases
  <2> QED BY <1>1, <1>6, <2>1, ExpiredJobsSeq DEF ExpireLeases, HandsFull, HandAfter
<1>7. CASE Close \/ Restart
  BY <1>7 DEF Close, Restart, HandsFull
<1>8. CASE UNCHANGED vars
  BY <1>8 DEF vars, HandsFull
<1> QED BY <1>3, <1>4, <1>5, <1>6, <1>7, <1>8 DEF Next

\* Types hold, together with the fact they need: Requeue and Hold put back or
\* lease a job and never the zero message.
THEOREM TypeCorrect == Spec => [](TypeOK /\ HandsFull)
<1>1. Init => TypeOK /\ HandsFull
  BY TypeInit DEF Init, HandsFull
<1>2. TypeOK /\ HandsFull /\ [Next]_vars => (TypeOK /\ HandsFull)'
  BY TypeStep, HandsFullStep
<1> QED BY <1>1, <1>2, PTL DEF Spec

-----------------------------------------------------------------------------
(* The wait lists.                                                         *)

\* An element of a sequence, by its position.
LEMMA SeqElems ==
    ASSUME NEW S, NEW s \in Seq(S)
    PROVE  /\ Len(s) \in Nat /\ DOMAIN s = 1..Len(s)
           /\ ToSet(s) = {s[i] : i \in 1..Len(s)}
           /\ ToSet(s) \subseteq S
           /\ IsInjective(s) <=> \A i, k \in 1..Len(s) : s[i] = s[k] => i = k
<1>1. Len(s) \in Nat /\ DOMAIN s = 1..Len(s)
  BY LenProperties
<1>2. \A i \in 1..Len(s) : s[i] \in S
  BY <1>1, ElementOfSeq
<1> QED BY <1>1, <1>2 DEF ToSet, IsInjective

\* The waiters deliverLocked leaves, by position: the first ones are gone.
LEMMA WaitersAfterElems ==
    ASSUME TypeOK, NEW js \in Seq(Jobs)
    PROVE  LET h == HandOffs(js)
           IN  /\ Len(WaitersAfter(js)) = Len(waiters) - h
               /\ \A i \in 1 .. Len(waiters) - h : WaitersAfter(js)[i] = waiters[h + i]
<1> DEFINE h == HandOffs(js)
<1>1. h \in Nat /\ h <= Len(waiters) /\ Len(waiters) \in Nat /\ waiters \in Seq(Takers)
  BY HandOffsBound, LenProperties DEF TypeOK
<1>2. \A i \in h+1 .. Len(waiters) : waiters[i] \in Takers
  BY <1>1, ElementOfSeq
<1> QED BY <1>1, <1>2, SubSeqProperties DEF WaitersAfter

\* deliverLocked wakes the waiters it takes off the list, gives each of them a
\* job, and leaves the others, and whoever does not wait, as they were.
LEMMA DeliverWakes ==
    ASSUME TypeOK, NEW js \in Seq(Jobs), IsInjective(waiters), NEW hands
    PROVE  /\ WaitersAfter(js) \in Seq(Takers) /\ IsInjective(WaitersAfter(js))
           /\ \A i \in 1..HandOffs(js) : HandsWith(hands, js)[waiters[i]] = js[i]
           /\ \A t \in Takers :
                /\ t \in ToSet(WaitersAfter(js)) =>
                      t \in ToSet(waiters) /\ HandsWith(hands, js)[t] = hands[t]
                /\ t \in ToSet(waiters) \ ToSet(WaitersAfter(js)) =>
                      HandsWith(hands, js)[t] \in ToSet(js)
                /\ t \notin ToSet(waiters) => HandsWith(hands, js)[t] = hands[t]
<1> DEFINE h == HandOffs(js)
           W == WaitersAfter(js)
           H == HandsWith(hands, js)
<1>1. h \in Nat /\ h <= Len(js) /\ h <= Len(waiters)
  BY HandOffsBound
<1>2. /\ waiters \in Seq(Takers) /\ Len(waiters) \in Nat
      /\ ToSet(waiters) = {waiters[i] : i \in 1..Len(waiters)}
      /\ \A i, k \in 1..Len(waiters) : waiters[i] = waiters[k] => i = k
  BY SeqElems DEF TypeOK
<1>3. W \in Seq(Takers)
  BY AfterTypes
<1>4. /\ Len(W) = Len(waiters) - h
      /\ \A i \in 1 .. Len(waiters) - h : W[i] = waiters[h + i]
  BY WaitersAfterElems
<1>5. \A t \in Takers : H[t] = IF \E i \in 1..h : waiters[i] = t
                              THEN js[CHOOSE i \in 1..h : waiters[i] = t]
                              ELSE hands[t]
  BY DEF HandsWith
<1>6. Len(js) \in Nat /\ ToSet(js) = {js[i] : i \in 1..Len(js)}
  BY SeqElems
<1>7. \A i \in 1..Len(waiters) : waiters[i] \in Takers
  BY <1>2, ElementOfSeq
<1> HIDE DEF h, W, H
<1>8. ToSet(W) = {W[i] : i \in 1 .. Len(waiters) - h}
  BY <1>3, <1>4, SeqElems
<1>9. IsInjective(W)
  <2>1. \A i \in 1 .. Len(waiters) - h : h + i \in 1..Len(waiters)
    BY <1>1, <1>2
  <2>2. ASSUME NEW i \in 1 .. Len(waiters) - h, NEW k \in 1 .. Len(waiters) - h, W[i] = W[k]
        PROVE  i = k
    <3>1. h + i = h + k
      BY <1>2, <1>4, <2>1, <2>2
    <3> QED BY <1>1, <1>2, <3>1
  <2> QED BY <1>3, <1>4, <2>2, SeqElems
<1>10. ASSUME NEW i \in 1..h
       PROVE  H[waiters[i]] = js[i] /\ js[i] \in ToSet(js)
  <2>1. i \in 1..Len(waiters) /\ i \in 1..Len(js) /\ waiters[i] \in Takers
    BY <1>1, <1>2, <1>6, <1>7
  <2> DEFINE k == CHOOSE n \in 1..h : waiters[n] = waiters[i]
  <2>2. k \in 1..h /\ waiters[k] = waiters[i]
    OBVIOUS
  <2> HIDE DEF k
  <2>3. k = i
    BY <1>1, <1>2, <2>1, <2>2
  <2>4. H[waiters[i]] = js[k]
    BY <1>5, <2>1 DEF k
  <2> QED BY <1>6, <2>1, <2>3, <2>4
<1>11. ASSUME NEW t \in Takers
       PROVE  /\ t \in ToSet(W) => t \in ToSet(waiters) /\ H[t] = hands[t]
              /\ t \in ToSet(waiters) /\ t \notin ToSet(W) => H[t] \in ToSet(js)
              /\ t \notin ToSet(waiters) => H[t] = hands[t]
  <2>1. ASSUME t \in ToSet(W)
        PROVE  t \in ToSet(waiters) /\ H[t] = hands[t]
    <3>1. PICK i \in 1 .. Len(waiters) - h : t = waiters[h + i]
      BY <1>4, <1>8, <2>1
    <3>2. h + i \in 1..Len(waiters) /\ \A n \in 1..h : n # h + i /\ n \in 1..Len(waiters)
      BY <1>1, <1>2
    <3>3. ~\E n \in 1..h : waiters[n] = t
      BY <1>2, <3>1, <3>2
    <3> QED BY <1>2, <1>5, <3>1, <3>2, <3>3
  <2>2. ASSUME t \in ToSet(waiters), t \notin ToSet(W)
        PROVE  H[t] \in ToSet(js)
    <3>1. PICK i \in 1..Len(waiters) : t = waiters[i]
      BY <1>2, <2>2
    <3>2. CASE i <= h
      <4>1. i \in 1..h
        BY <1>1, <3>2
      <4> QED BY <1>10, <3>1, <4>1
    <3>3. CASE i > h
      <4>1. i - h \in 1 .. Len(waiters) - h /\ h + (i - h) = i
        BY <1>1, <1>2, <3>3
      <4> QED BY <1>4, <1>8, <2>2, <3>1, <4>1
    <3> QED BY <1>1, <1>2, <3>2, <3>3
  <2>3. ASSUME t \notin ToSet(waiters)
        PROVE  H[t] = hands[t]
    <3>1. ~\E n \in 1..h : waiters[n] = t
      BY <1>1, <1>2, <2>3
    <3> QED BY <1>5, <3>1
  <2> QED BY <2>1, <2>2, <2>3
<1> QED BY <1>3, <1>9, <1>10, <1>11 DEF h, W, H

\* cancelWaiter takes one taker off the list.
LEMMA WaitersWithoutElems ==
    ASSUME TypeOK, IsInjective(waiters), NEW t \in Takers
    PROVE  /\ IsInjective(WaitersWithout(t))
           /\ ToSet(WaitersWithout(t)) = ToSet(waiters) \ {t}
<1> DEFINE W == WaitersWithout(t)
<1>1. /\ waiters \in Seq(Takers) /\ Len(waiters) \in Nat /\ DOMAIN waiters = 1..Len(waiters)
      /\ ToSet(waiters) = {waiters[i] : i \in 1..Len(waiters)}
      /\ \A i, k \in 1..Len(waiters) : waiters[i] = waiters[k] => i = k
  BY SeqElems DEF TypeOK
<1>2. CASE t \notin ToSet(waiters)
  BY <1>2 DEF WaitersWithout
<1>3. CASE t \in ToSet(waiters)
  <2> DEFINE p == CHOOSE i \in DOMAIN waiters : waiters[i] = t
             A == SubSeq(waiters, 1, p - 1)
             B == SubSeq(waiters, p + 1, Len(waiters))
  <2>1. p \in 1..Len(waiters) /\ waiters[p] = t
    BY <1>1, <1>3
  <2>2. W = A \o B
    BY <1>3 DEF WaitersWithout, RemoveAt
  <2> HIDE DEF p
  <2>3. \A i \in 1..Len(waiters) : waiters[i] \in Takers
    BY <1>1, ElementOfSeq
  <2>4. /\ A \in Seq(Takers) /\ Len(A) = p - 1
        /\ \A i \in 1 .. p - 1 : A[i] = waiters[i]
    BY <1>1, <2>1, <2>3, SubSeqProperties
  <2>5. /\ B \in Seq(Takers) /\ Len(B) = Len(waiters) - p
        /\ \A i \in 1 .. Len(waiters) - p : B[i] = waiters[p + i]
    <3>1. \A i \in p + 1 .. Len(waiters) : waiters[i] \in Takers
      BY <1>1, <2>1, <2>3
    <3>2. /\ B \in Seq(Takers)
          /\ Len(B) = IF p + 1 <= Len(waiters) THEN Len(waiters) - (p + 1) + 1 ELSE 0
          /\ \A i \in 1 .. Len(waiters) - (p + 1) + 1 : B[i] = waiters[(p + 1) + i - 1]
      BY <1>1, <2>1, <3>1, SubSeqProperties
    <3> HIDE DEF B
    <3>3. Len(B) = Len(waiters) - p
      <4>1. p \in Int /\ Len(waiters) \in Int /\ p <= Len(waiters)
        BY <1>1, <2>1
      <4>2. CASE p + 1 <= Len(waiters)
        BY <3>2, <4>1, <4>2
      <4>3. CASE p = Len(waiters)
        BY <3>2, <4>1, <4>3
      <4> QED BY <4>1, <4>2, <4>3
    <3>4. ASSUME NEW i \in 1 .. Len(waiters) - p PROVE B[i] = waiters[p + i]
      <4>1. i \in 1 .. Len(waiters) - (p + 1) + 1 /\ (p + 1) + i - 1 = p + i
        BY <1>1, <2>1
      <4> QED BY <3>2, <4>1
    <3> QED BY <3>2, <3>3, <3>4
  <2> HIDE DEF A, B, W
  <2>6. /\ W \in Seq(Takers) /\ Len(W) = Len(waiters) - 1
        /\ \A i \in 1 .. Len(waiters) - 1 : W[i] = IF i < p THEN waiters[i] ELSE waiters[i + 1]
    <3>1. /\ W \in Seq(Takers) /\ Len(W) = Len(A) + Len(B)
          /\ \A i \in 1 .. Len(A) + Len(B) : W[i] = IF i <= Len(A) THEN A[i] ELSE B[i - Len(A)]
      BY <2>2, <2>4, <2>5, ConcatProperties
    <3>2. ASSUME NEW i \in 1 .. Len(waiters) - 1
          PROVE  W[i] = IF i < p THEN waiters[i] ELSE waiters[i + 1]
      <4>0. Len(A) = p - 1 /\ i \in 1 .. Len(A) + Len(B) /\ i \in Int /\ p \in Int
        BY <1>1, <2>1, <2>4, <2>5
      <4>1. CASE i < p
        <5>1. i <= Len(A) /\ i \in 1 .. p - 1
          BY <4>0, <4>1
        <5> QED BY <2>4, <3>1, <4>0, <4>1, <5>1
      <4>2. CASE i >= p
        <5>1. i - (p - 1) \in 1 .. Len(waiters) - p /\ p + (i - (p - 1)) = i + 1
          BY <1>1, <2>1, <4>2
        <5>2. W[i] = B[i - (p - 1)]
          <6>1. ~(i <= Len(A))
            BY <4>0, <4>2
          <6> QED BY <3>1, <4>0, <6>1
        <5>3. B[i - (p - 1)] = waiters[i + 1]
          BY <2>5, <5>1
        <5> QED BY <2>1, <4>2, <5>2, <5>3
      <4> QED BY <1>1, <2>1, <4>1, <4>2
    <3> QED BY <1>1, <2>1, <2>4, <2>5, <3>1, <3>2
  <2>7. ToSet(W) = {W[i] : i \in 1 .. Len(waiters) - 1}
        /\ (IsInjective(W) <=> \A i, k \in 1 .. Len(waiters) - 1 : W[i] = W[k] => i = k)
    BY <2>6, SeqElems
  <2>8. ASSUME NEW i \in 1 .. Len(waiters) - 1
        PROVE  /\ i \in 1..Len(waiters) /\ i + 1 \in 1..Len(waiters)
               /\ W[i] # t /\ W[i] \in ToSet(waiters)
    BY <1>1, <2>1, <2>6
  <2>9. ASSUME NEW i \in 1 .. Len(waiters) - 1, NEW k \in 1 .. Len(waiters) - 1, W[i] = W[k]
        PROVE  i = k
    <3>1. CASE i < p /\ k < p
      BY <1>1, <2>6, <2>8, <2>9, <3>1
    <3>2. CASE i < p /\ k >= p
      <4>1. i = k + 1
        BY <1>1, <2>1, <2>6, <2>8, <2>9, <3>2
      <4> QED BY <2>1, <3>2, <4>1
    <3>3. CASE i >= p /\ k < p
      <4>1. i + 1 = k
        BY <1>1, <2>1, <2>6, <2>8, <2>9, <3>3
      <4> QED BY <2>1, <3>3, <4>1
    <3>4. CASE i >= p /\ k >= p
      <4>1. i + 1 = k + 1
        BY <1>1, <2>1, <2>6, <2>8, <2>9, <3>4
      <4> QED BY <4>1
    <3> QED BY <2>1, <3>1, <3>2, <3>3, <3>4
  <2>10. ASSUME NEW u \in ToSet(waiters), u # t
         PROVE  u \in ToSet(W)
    <3>1. PICK i \in 1..Len(waiters) : u = waiters[i]
      BY <1>1, <2>10
    <3>2. i # p
      BY <2>1, <2>10, <3>1
    <3>3. CASE i < p
      BY <1>1, <2>1, <2>6, <2>7, <3>1, <3>3
    <3>4. CASE i > p
      <4> DEFINE k == i - 1
      <4>1. k \in 1 .. Len(waiters) - 1 /\ ~(k < p) /\ k + 1 = i
        BY <1>1, <2>1, <3>4
      <4> HIDE DEF k
      <4>3. W[k] = u
        BY <2>6, <3>1, <4>1
      <4> QED BY <2>7, <4>1, <4>3
    <3> QED BY <2>1, <3>2, <3>3, <3>4
  <2>11. IsInjective(W) /\ ToSet(W) \subseteq ToSet(waiters) \ {t}
    BY <2>7, <2>8, <2>9
  <2>12. ToSet(waiters) \ {t} \subseteq ToSet(W)
    BY <2>10
  <2> QED BY <2>11, <2>12 DEF W
<1> QED BY <1>2, <1>3

\* Who is at the head of a list without repetitions is not in its tail.
LEMMA HeadApart ==
    ASSUME NEW S, NEW s \in Seq(S), s # <<>>, IsInjective(s)
    PROVE  /\ Head(s) \in ToSet(s) /\ IsInjective(Tail(s)) /\ Tail(s) \in Seq(S)
           /\ ToSet(Tail(s)) = ToSet(s) \ {Head(s)}
<1> DEFINE r == Tail(s)
<1>1. /\ r \in Seq(S) /\ Len(s) \in Nat /\ Len(s) >= 1 /\ Len(r) = Len(s) - 1
      /\ \A i \in 1 .. Len(s) - 1 : r[i] = s[i + 1]
      /\ Head(s) = s[1]
  BY HeadTailProperties, LenProperties, EmptySeq
<1> HIDE DEF r
<1>2. /\ ToSet(s) = {s[i] : i \in 1..Len(s)} /\ ToSet(r) = {r[i] : i \in 1 .. Len(s) - 1}
      /\ \A i, k \in 1..Len(s) : s[i] = s[k] => i = k
      /\ IsInjective(r) <=> \A i, k \in 1 .. Len(s) - 1 : r[i] = r[k] => i = k
  <2>1. /\ ToSet(r) = {r[i] : i \in 1..Len(r)}
        /\ IsInjective(r) <=> \A i, k \in 1..Len(r) : r[i] = r[k] => i = k
    BY <1>1, SeqElems
  <2>2. /\ ToSet(s) = {s[i] : i \in 1..Len(s)}
        /\ \A i, k \in 1..Len(s) : s[i] = s[k] => i = k
    BY SeqElems
  <2> QED BY <1>1, <2>1, <2>2
<1>3. \A i \in 1 .. Len(s) - 1 : i + 1 \in 1..Len(s) /\ i + 1 # 1
  BY <1>1
<1>4. 1 \in 1..Len(s)
  BY <1>1
<1>5. IsInjective(r)
  <2>1. ASSUME NEW i \in 1 .. Len(s) - 1, NEW k \in 1 .. Len(s) - 1, r[i] = r[k]
        PROVE  i = k
    <3>1. i + 1 = k + 1
      BY <1>1, <1>2, <1>3, <2>1
    <3> QED BY <3>1
  <2> QED BY <1>2, <2>1
<1>6. ToSet(r) \subseteq ToSet(s) \ {Head(s)}
  BY <1>1, <1>2, <1>3, <1>4
<1>7. ASSUME NEW i \in 1..Len(s), s[i] # Head(s) PROVE s[i] \in ToSet(r)
  <2>1. i - 1 \in 1 .. Len(s) - 1 /\ (i - 1) + 1 = i
    BY <1>1, <1>7
  <2>2. r[i - 1] = s[i]
    BY <1>1, <2>1
  <2> QED BY <1>2, <2>1, <2>2
<1>8. ToSet(s) \ {Head(s)} \subseteq ToSet(r)
  BY <1>2, <1>7
<1> QED BY <1>1, <1>2, <1>4, <1>5, <1>6, <1>8 DEF r

\* WaitersWait, of any wait list, steps and hands.
Agree(open, ws, steps, hands) ==
    /\ IsInjective(ws)
    /\ \A t \in ToSet(ws) : steps[t] = "wait" /\ hands[t] = NoJob
    /\ \A t \in Takers :
          /\ steps[t] \in {"got", "requeue"} => hands[t] # NoJob
          /\ steps[t] = "idle" => hands[t] = NoJob
          /\ open /\ steps[t] = "wait" /\ hands[t] = NoJob => t \in ToSet(ws)

\* WaitersWait is Agree of the present state, and its next value of the next one.
LEMMA WaitersWaitAgree ==
    /\ WaitersWait <=> Agree(~closed, waiters, pc, hand)
    /\ WaitersWait' <=> Agree(~closed', waiters', pc', hand')
BY DEF WaitersWait, Agree, HandsFull

\* deliverLocked keeps the lists in agreement: whoever leaves the list has a job.
LEMMA DeliverAgrees ==
    ASSUME TypeOK, NEW open, NEW steps, NEW hands, NEW js \in Seq(Jobs),
           Agree(open, waiters, steps, hands)
    PROVE  Agree(open, WaitersAfter(js), steps, HandsWith(hands, js))
<1> DEFINE W == WaitersAfter(js)
           H == HandsWith(hands, js)
<1>1. /\ W \in Seq(Takers) /\ IsInjective(W)
      /\ \A t \in Takers : /\ t \in ToSet(W) => t \in ToSet(waiters) /\ H[t] = hands[t]
                           /\ t \in ToSet(waiters) \ ToSet(W) => H[t] \in ToSet(js)
                           /\ t \notin ToSet(waiters) => H[t] = hands[t]
  BY DeliverWakes DEF Agree
<1>2. ToSet(W) \subseteq Takers /\ ToSet(js) \subseteq Jobs
  BY <1>1, SeqElems
<1>3. NoJob \notin Jobs
  BY JobsAssumption
<1> HIDE DEF W, H
<1>4. ASSUME NEW t \in ToSet(W) PROVE steps[t] = "wait" /\ H[t] = NoJob
  BY <1>1, <1>2 DEF Agree
<1>5. ASSUME NEW t \in Takers
      PROVE  /\ steps[t] \in {"got", "requeue"} => H[t] # NoJob
             /\ steps[t] = "idle" => H[t] = NoJob
             /\ open /\ steps[t] = "wait" /\ H[t] = NoJob => t \in ToSet(W)
  <2>1. CASE t \in ToSet(waiters) /\ t \notin ToSet(W)
    <3>1. H[t] # NoJob /\ steps[t] = "wait"
      BY <1>1, <1>2, <1>3, <2>1 DEF Agree
    <3> QED BY <3>1
  <2>2. CASE t \in ToSet(W)
    BY <1>4, <2>2
  <2>3. CASE t \notin ToSet(waiters)
    BY <1>1, <2>3 DEF Agree
  <2> QED BY <2>1, <2>2, <2>3
<1> QED BY <1>1, <1>4, <1>5 DEF Agree, W, H

\* A taker that is not listed gets a job, or an idle one joins the list.
LEMMA JoinAgrees ==
    ASSUME NEW open, NEW ws \in Seq(Takers), NEW steps \in [Takers -> PCs],
           NEW hands \in [Takers -> Maybe], Agree(open, ws, steps, hands),
           NEW t \in Takers, steps[t] = "idle"
    PROVE  /\ \A j \in Jobs, next \in {"wait", "got"} :
                 Agree(open, ws, [steps EXCEPT ![t] = next], [hands EXCEPT ![t] = j])
           /\ Agree(open, Append(ws, t), [steps EXCEPT ![t] = "wait"], hands)
<1>1. t \notin ToSet(ws) /\ hands[t] = NoJob
  BY DEF Agree
<1>2. ToSet(ws) \subseteq Takers /\ NoJob \notin Jobs
  BY SeqElems, JobsAssumption
<1>3. ASSUME NEW j \in Jobs, NEW next \in {"wait", "got"}
      PROVE  Agree(open, ws, [steps EXCEPT ![t] = next], [hands EXCEPT ![t] = j])
  BY <1>1, <1>2 DEF Agree
<1>4. IsInjective(Append(ws, t)) /\ ToSet(Append(ws, t)) = ToSet(ws) \cup {t}
  <2> DEFINE f == Append(ws, t)
  <2>1. /\ f \in Seq(Takers) /\ Len(f) = Len(ws) + 1 /\ f[Len(ws) + 1] = t
        /\ \A i \in 1..Len(ws) : f[i] = ws[i]
        /\ Len(ws) \in Nat
    BY AppendProperties, LenProperties
  <2> HIDE DEF f
  <2>2. /\ ToSet(f) = {f[i] : i \in 1 .. Len(ws) + 1}
        /\ IsInjective(f) <=> \A i, k \in 1 .. Len(ws) + 1 : f[i] = f[k] => i = k
        /\ ToSet(ws) = {ws[i] : i \in 1..Len(ws)}
        /\ \A i, k \in 1..Len(ws) : ws[i] = ws[k] => i = k
    <3>1. /\ ToSet(f) = {f[i] : i \in 1..Len(f)}
          /\ IsInjective(f) <=> \A i, k \in 1..Len(f) : f[i] = f[k] => i = k
      BY <2>1, SeqElems
    <3>2. /\ ToSet(ws) = {ws[i] : i \in 1..Len(ws)}
          /\ \A i, k \in 1..Len(ws) : ws[i] = ws[k] => i = k
      BY SeqElems DEF Agree
    <3> QED BY <2>1, <3>1, <3>2
  <2>3. \A i \in 1 .. Len(ws) + 1 : i = Len(ws) + 1 \/ i \in 1..Len(ws)
    BY <2>1
  <2>4. 1..Len(ws) \subseteq 1 .. Len(ws) + 1 /\ Len(ws) + 1 \in 1 .. Len(ws) + 1
    BY <2>1
  <2>5. IsInjective(f)
    BY <1>1, <2>1, <2>2, <2>3
  <2>6. ToSet(f) = ToSet(ws) \cup {t}
    BY <2>1, <2>2, <2>3, <2>4
  <2> QED BY <2>5, <2>6 DEF f
<1>5. Agree(open, Append(ws, t), [steps EXCEPT ![t] = "wait"], hands)
  BY <1>1, <1>2, <1>4 DEF Agree
<1> QED BY <1>3, <1>5

\* No step makes the wait lists disagree with the goroutines.
LEMMA WaitersStep == TypeOK /\ WaitersWait /\ [Next]_vars => WaitersWait'
<1> SUFFICES ASSUME TypeOK, WaitersWait, [Next]_vars PROVE WaitersWait'
  OBVIOUS
<1>1. /\ waiters \in Seq(Takers) /\ ToSet(waiters) \subseteq Takers
      /\ hand \in [Takers -> Maybe] /\ pc \in [Takers -> PCs]
      /\ NoJob \notin Jobs
      /\ Agree(~closed, waiters, pc, hand)
  BY SeqElems, JobsAssumption, WaitersWaitAgree DEF TypeOK
<1>2. ASSUME NEW j \in Jobs, Put(j) PROVE WaitersWait'
  <2>1. CASE PutHandsOff(j)
    <3> DEFINE w == Head(waiters)
    <3>1. /\ waiters # <<>> /\ waiters' = Tail(waiters) /\ pc' = pc /\ closed' = closed
          /\ hand' = [hand EXCEPT ![w] = j]
      BY <2>1 DEF PutHandsOff
    <3>2. /\ w \in ToSet(waiters) /\ IsInjective(Tail(waiters))
          /\ ToSet(Tail(waiters)) = ToSet(waiters) \ {w}
      BY <1>1, <3>1, HeadApart DEF Agree
    <3> HIDE DEF w
    <3>3. Agree(~closed, Tail(waiters), pc, [hand EXCEPT ![w] = j])
      BY <1>1, <3>2 DEF Agree
    <3> QED BY <3>1, <3>3, WaitersWaitAgree
  <2>2. CASE PutMerges(j) \/ PutQueues(j) \/ PutRefused(j)
    <3>1. UNCHANGED <<closed, waiters, pc, hand>>
      BY <2>2 DEF PutMerges, PutQueues, PutRefused, memory, vars
    <3> QED BY <1>1, <3>1, WaitersWaitAgree
  <2> QED BY <1>2, <2>1, <2>2 DEF Put
<1>3. ASSUME NEW t \in Takers, TakerStep(t) PROVE WaitersWait'
  <2>1. ASSUME NEW js \in ExpiredJobs, NEW next \in {"wait", "got"}, Pop(t, js, next),
               pc[t] = "idle", closed' = closed
        PROVE  WaitersWait'
    <3>1. js \in Seq(Jobs)
      BY ExpiredJobsSeq
    <3>2. /\ WaitersAfter(js) \in Seq(Takers) /\ HandAfter(js) \in [Takers -> Maybe]
          /\ QueueAfter(js) \in Seq(Jobs)
      BY <3>1, AfterTypes
    <3>3. Agree(~closed, WaitersAfter(js), pc, HandAfter(js))
      BY <1>1, <3>1, DeliverAgrees DEF HandAfter
    <3>4. /\ QueueAfter(js) # <<>>
          /\ waiters' = WaitersAfter(js)
          /\ \/ /\ hand' = [HandAfter(js) EXCEPT ![t] = Head(QueueAfter(js))]
                /\ pc' = [pc EXCEPT ![t] = next]
             \/ hand' = HandAfter(js) /\ pc' = pc
      BY <2>1 DEF Pop
    <3>5. Head(QueueAfter(js)) \in Jobs
      BY <3>2, <3>4, HeadTailProperties
    <3>6. Agree(~closed, WaitersAfter(js), [pc EXCEPT ![t] = next],
                [HandAfter(js) EXCEPT ![t] = Head(QueueAfter(js))])
      BY <1>1, <2>1, <3>2, <3>3, <3>5, JoinAgrees
    <3> QED BY <2>1, <3>3, <3>4, <3>6, WaitersWaitAgree
  <2>2. CASE TakeChan(t)
    <3>1. closed' = closed /\ pc[t] = "idle"
      BY <2>2 DEF TakeChan
    <3>2. PICK js \in ExpiredJobs :
             \/ Pop(t, js, "wait")
             \/ /\ waiters' = Append(WaitersAfter(js), t)
                /\ hand' = HandAfter(js)
                /\ pc' = [pc EXCEPT ![t] = "wait"]
      BY <2>2 DEF TakeChan
    <3>3. js \in Seq(Jobs)
      BY ExpiredJobsSeq
    <3>4. WaitersAfter(js) \in Seq(Takers) /\ HandAfter(js) \in [Takers -> Maybe]
      BY <3>3, AfterTypes
    <3>5. Agree(~closed, WaitersAfter(js), pc, HandAfter(js))
      BY <1>1, <3>3, DeliverAgrees DEF HandAfter
    <3>6. Agree(~closed, Append(WaitersAfter(js), t), [pc EXCEPT ![t] = "wait"], HandAfter(js))
      BY <1>1, <3>1, <3>4, <3>5, JoinAgrees
    <3> QED BY <2>1, <3>1, <3>2, <3>6, WaitersWaitAgree
  <2>3. CASE TryTake(t)
    <3>1. closed' = closed /\ pc[t] = "idle"
      BY <2>3 DEF TryTake
    <3>2. PICK js \in ExpiredJobs :
             \/ Pop(t, js, "got")
             \/ waiters' = WaitersAfter(js) /\ hand' = HandAfter(js) /\ pc' = pc
      BY <2>3 DEF TryTake
    <3>3. js \in Seq(Jobs)
      BY ExpiredJobsSeq
    <3>4. Agree(~closed, WaitersAfter(js), pc, HandAfter(js))
      BY <1>1, <3>3, DeliverAgrees DEF HandAfter
    <3> QED BY <2>1, <3>1, <3>2, <3>4, WaitersWaitAgree
  <2>4. CASE Receive(t)
    <3>1. /\ hand[t] # NoJob /\ pc' = [pc EXCEPT ![t] = "got"]
          /\ UNCHANGED <<closed, waiters, hand>>
      BY <2>4 DEF Receive
    <3>2. Agree(~closed, waiters, [pc EXCEPT ![t] = "got"], hand)
      BY <1>1, <3>1 DEF Agree
    <3> QED BY <3>1, <3>2, WaitersWaitAgree
  <2>5. CASE TakeFails(t)
    <3>1. /\ hand[t] = NoJob /\ t \notin ToSet(waiters) /\ pc' = [pc EXCEPT ![t] = "idle"]
          /\ UNCHANGED <<closed, waiters, hand>>
      BY <2>5 DEF TakeFails
    <3>2. Agree(~closed, waiters, [pc EXCEPT ![t] = "idle"], hand)
      BY <1>1, <3>1 DEF Agree
    <3> QED BY <3>1, <3>2, WaitersWaitAgree
  <2>6. CASE Cancel(t)
    <3>1. /\ pc' = [pc EXCEPT ![t] = "idle"] /\ hand' = [hand EXCEPT ![t] = NoJob]
          /\ waiters' = WaitersWithout(t) /\ closed' = closed
      BY <2>6 DEF Cancel
    <3>2. /\ IsInjective(WaitersWithout(t))
          /\ ToSet(WaitersWithout(t)) = ToSet(waiters) \ {t}
      BY <1>1, WaitersWithoutElems DEF Agree
    <3>3. Agree(~closed, WaitersWithout(t), [pc EXCEPT ![t] = "idle"],
                [hand EXCEPT ![t] = NoJob])
      BY <1>1, <3>2 DEF Agree
    <3> QED BY <3>1, <3>3, WaitersWaitAgree
  <2>7. ASSUME NEW d \in Deliveries, Hold(t, d) PROVE WaitersWait'
    <3>1. /\ pc[t] = "got" /\ pc' = [pc EXCEPT ![t] = "idle"]
          /\ hand' = [hand EXCEPT ![t] = NoJob] /\ UNCHANGED <<closed, waiters>>
      BY <2>7 DEF Hold
    <3>2. Agree(~closed, waiters, [pc EXCEPT ![t] = "idle"], [hand EXCEPT ![t] = NoJob])
      BY <1>1, <3>1 DEF Agree
    <3> QED BY <3>1, <3>2, WaitersWaitAgree
  <2>8. CASE HoldFails(t)
    <3>1. /\ pc[t] = "got" /\ pc' = [pc EXCEPT ![t] = "requeue"]
          /\ UNCHANGED <<closed, waiters, hand>>
      BY <2>8 DEF HoldFails
    <3>2. Agree(~closed, waiters, [pc EXCEPT ![t] = "requeue"], hand)
      BY <1>1, <3>1 DEF Agree
    <3> QED BY <3>1, <3>2, WaitersWaitAgree
  <2>9. CASE Requeue(t)
    <3> DEFINE steps == [pc EXCEPT ![t] = "idle"]
               hands == [hand EXCEPT ![t] = NoJob]
               js == <<hand[t]>>
    <3>1. pc[t] = "requeue" /\ pc' = steps /\ closed' = closed
      BY <2>9 DEF Requeue
    <3>2. Agree(~closed, waiters, steps, hands)
      BY <1>1, <3>1 DEF Agree
    <3>3. js \in Seq(Jobs)
      BY <1>1, <3>1 DEF Agree, Maybe
    <3> HIDE DEF steps, hands
    <3>4. Agree(~closed, WaitersAfter(js), steps, HandsWith(hands, js))
      BY <3>2, <3>3, DeliverAgrees
    <3>5. \/ hand' = hands /\ waiters' = waiters
          \/ hand' = HandsWith(hands, js) /\ waiters' = WaitersAfter(js)
      BY <2>9 DEF Requeue, hands
    <3> QED BY <3>1, <3>2, <3>4, <3>5, WaitersWaitAgree
  <2> QED BY <1>3, <2>2, <2>3, <2>4, <2>5, <2>6, <2>7, <2>8, <2>9 DEF TakerStep
<1>4. ASSUME NEW d \in Deliveries, DeliveryStep(d) PROVE WaitersWait'
  <2>1. CASE Nack(d)
    <3> DEFINE js == <<inflight[d]>>
    <3>1. js \in Seq(Jobs)
      BY <2>1 DEF Nack, TypeOK, Maybe
    <3>2. Agree(~closed, WaitersAfter(js), pc, HandAfter(js))
      BY <1>1, <3>1, DeliverAgrees DEF HandAfter
    <3> QED BY <2>1, <3>2, WaitersWaitAgree DEF Nack
  <2>2. CASE Ack(d) \/ LeaseElapses(d)
    <3>1. UNCHANGED <<closed, waiters, pc, hand>>
      BY <2>2 DEF Ack, LeaseElapses, memory
    <3> QED BY <1>1, <3>1, WaitersWaitAgree
  <2> QED BY <1>4, <2>1, <2>2 DEF DeliveryStep
<1>5. CASE ExpireLeases
  <2>1. PICK js \in ExpiredJobs : waiters' = WaitersAfter(js) /\ hand' = HandAfter(js)
    BY <1>5 DEF ExpireLeases
  <2>2. Agree(~closed, WaitersAfter(js), pc, HandAfter(js))
    BY <1>1, ExpiredJobsSeq, DeliverAgrees DEF HandAfter
  <2>3. UNCHANGED <<closed, pc>>
    BY <1>5 DEF ExpireLeases
  <2> QED BY <2>1, <2>2, <2>3, WaitersWaitAgree
<1>6. CASE Close
  <2>1. closed' = TRUE /\ waiters' = <<>> /\ UNCHANGED <<pc, hand>>
    BY <1>6 DEF Close
  <2>2. ToSet(waiters') = {} /\ IsInjective(waiters')
    BY <2>1 DEF ToSet, IsInjective
  <2>3. Agree(~closed', waiters', pc', hand')
    BY <1>1, <2>1, <2>2 DEF Agree
  <2> QED BY <2>3, WaitersWaitAgree
<1>7. CASE Restart
  <2>1. /\ waiters' = <<>> /\ pc' = [t \in Takers |-> "idle"]
        /\ hand' = [t \in Takers |-> NoJob]
    BY <1>7 DEF Restart
  <2>2. ToSet(waiters') = {} /\ IsInjective(waiters')
    BY <2>1 DEF ToSet, IsInjective
  <2>3. Agree(~closed', waiters', pc', hand')
    BY <2>1, <2>2 DEF Agree
  <2> QED BY <2>3, WaitersWaitAgree
<1>8. CASE UNCHANGED vars
  <2>1. UNCHANGED <<closed, waiters, pc, hand>>
    BY <1>8 DEF vars
  <2> QED BY <1>1, <2>1, WaitersWaitAgree
<1> QED BY <1>2, <1>3, <1>4, <1>5, <1>6, <1>7, <1>8 DEF Next

\* The wait lists agree with the goroutines: WaitersWait is an invariant, and
\* with the types it is inductive as it stands.
THEOREM WaitersAgree == Spec => []WaitersWait
<1>1. Init => WaitersWait
  <2> SUFFICES ASSUME Init PROVE WaitersWait
    OBVIOUS
  <2>1. /\ waiters = <<>> /\ pc = [t \in Takers |-> "idle"]
        /\ hand = [t \in Takers |-> NoJob]
    BY DEF Init
  <2>2. ToSet(waiters) = {} /\ IsInjective(waiters)
    BY <2>1 DEF ToSet, IsInjective
  <2> QED BY <2>1, <2>2 DEF WaitersWait, HandsFull
<1>2. TypeOK /\ WaitersWait /\ [Next]_vars => WaitersWait'
  BY WaitersStep
<1> QED BY <1>1, <1>2, TypeCorrect, PTL DEF Spec
-----------------------------------------------------------------------------
(* The order of the waiters.                                               *)

\* Of the waiters those with a job are the first ones.
FirstServed(hands) ==
    \A i, k \in 1..Len(waiters) :
        i < k /\ hands[waiters[k]] # NoJob => hands[waiters[i]] # NoJob

\* deliverLocked serves the first waiters, if none of them was served before.
LEMMA DeliverFirst ==
    ASSUME TypeOK, WaitersWait, NEW js \in Seq(Jobs), NEW hands,
           \A t \in ToSet(waiters) : hands[t] = NoJob
    PROVE  FirstServed(HandsWith(hands, js))
<1> DEFINE h == HandOffs(js)
           H == HandsWith(hands, js)
<1>1. /\ waiters \in Seq(Takers) /\ IsInjective(waiters) /\ Len(waiters) \in Nat
      /\ Len(js) \in Nat /\ h \in Nat /\ h <= Len(js) /\ h <= Len(waiters)
  BY HandOffsBound, LenProperties DEF TypeOK, WaitersWait
<1>2. ToSet(waiters) = {waiters[i] : i \in 1..Len(waiters)} /\ ToSet(waiters) \subseteq Takers
  BY <1>1, SeqElems
<1>3. \A i \in 1..h : H[waiters[i]] = js[i]
  BY <1>1, DeliverWakes
<1>4. \A i \in 1..h : H[waiters[i]] # NoJob
  <2>1. \A i \in 1..h : js[i] \in Jobs
    BY <1>1, ElementOfSeq
  <2> QED BY <1>3, <2>1, JobsAssumption
<1>5. \A t \in ToSet(WaitersAfter(js)) : t \in Takers => H[t] = hands[t]
  BY <1>1, DeliverWakes
<1>6. ASSUME NEW k \in 1..Len(waiters), k > h PROVE H[waiters[k]] = NoJob
  <2>1. /\ Len(WaitersAfter(js)) = Len(waiters) - h
        /\ \A i \in 1 .. Len(waiters) - h : WaitersAfter(js)[i] = waiters[h + i]
    BY WaitersAfterElems
  <2>2. k - h \in 1 .. Len(waiters) - h /\ h + (k - h) = k
    BY <1>1, <1>6
  <2>3. WaitersAfter(js)[k - h] = waiters[k]
    BY <2>1, <2>2
  <2>4. WaitersAfter(js) \in Seq(Takers)
    BY <1>1, DeliverWakes
  <2>5. waiters[k] \in ToSet(WaitersAfter(js))
    BY <2>1, <2>2, <2>3, <2>4, SeqElems
  <2>6. waiters[k] \in ToSet(waiters) /\ waiters[k] \in Takers
    BY <1>2
  <2> QED BY <1>5, <2>5, <2>6
<1> HIDE DEF h, H
<1> QED BY <1>1, <1>4, <1>6 DEF FirstServed, H

\* A step that gives no waiter a job, but perhaps one that is not listed.
LEMMA NoneServed ==
    ASSUME TypeOK, WaitersWait, NEW hands,
           \A t \in ToSet(waiters) : hands[t] = NoJob
    PROVE  FirstServed(hands)
<1>1. \A i \in 1..Len(waiters) : waiters[i] \in ToSet(waiters)
  BY SeqElems DEF TypeOK
<1> QED BY <1>1 DEF FirstServed

\* Jobs reach the waiting takers in the order in which these began to wait, in
\* every hand-off: of Put, Requeue, Nack, and of expired leases in any order.
THEOREM OldestServed == Spec => OldestWaiterFirst
<1>1. TypeOK /\ WaitersWait /\ [Next]_vars
        => [\A i, k \in DOMAIN waiters :
               i < k /\ hand'[waiters[k]] # NoJob => hand'[waiters[i]] # NoJob]_vars
  <2> SUFFICES ASSUME TypeOK, WaitersWait, Next PROVE FirstServed(hand')
    BY SeqElems DEF TypeOK, FirstServed
  <2>1. /\ \A t \in ToSet(waiters) : pc[t] = "wait" /\ hand[t] = NoJob
        /\ hand \in [Takers -> Maybe] /\ ToSet(waiters) \subseteq Takers
    BY SeqElems DEF WaitersWait, TypeOK
  <2>2. ASSUME NEW js \in Seq(Jobs) PROVE FirstServed(HandAfter(js))
    BY <2>1, DeliverFirst DEF HandAfter
  <2>3. ASSUME NEW js \in Seq(Jobs), NEW t \in Takers, pc[t] = "idle", NEW j,
               hand' = [HandAfter(js) EXCEPT ![t] = j]
        PROVE  FirstServed(hand')
    <3>1. \A u \in ToSet(waiters) : u # t
      BY <2>1, <2>3
    <3>2. \A i \in 1..Len(waiters) : waiters[i] \in ToSet(waiters) /\ waiters[i] \in Takers
      BY SeqElems DEF TypeOK
    <3>3. \A i \in 1..Len(waiters) : hand'[waiters[i]] = HandAfter(js)[waiters[i]]
      BY <2>3, <3>1, <3>2, AfterTypes
    <3> QED BY <2>2, <3>3 DEF FirstServed
  <2>4. CASE UNCHANGED hand
    BY <2>1, <2>4, NoneServed
  <2>5. ASSUME NEW t \in Takers, hand' = [hand EXCEPT ![t] = NoJob] PROVE FirstServed(hand')
    BY <2>1, <2>5, NoneServed
  <2>6. ASSUME NEW j \in Jobs, Put(j) PROVE FirstServed(hand')
    <3>1. CASE PutHandsOff(j)
      <4>1. waiters # <<>> /\ hand' = [hand EXCEPT ![waiters[1]] = j]
        BY <3>1 DEF PutHandsOff, TypeOK
      <4>2. /\ Len(waiters) \in Nat /\ Len(waiters) >= 1
            /\ \A i \in 1..Len(waiters) : waiters[i] \in ToSet(waiters)
            /\ \A i, k \in 1..Len(waiters) : waiters[i] = waiters[k] => i = k
        BY <4>1, SeqElems, EmptySeq DEF TypeOK, WaitersWait
      <4>3. hand'[waiters[1]] = j /\ j # NoJob
        BY <2>1, <4>1, <4>2, JobsAssumption
      <4>4. \A k \in 2..Len(waiters) : hand'[waiters[k]] = NoJob
        BY <2>1, <4>1, <4>2
      <4> QED BY <4>2, <4>3, <4>4 DEF FirstServed
    <3>2. CASE PutMerges(j) \/ PutQueues(j) \/ PutRefused(j)
      BY <2>4, <3>2 DEF PutMerges, PutQueues, PutRefused, memory, vars
    <3> QED BY <2>6, <3>1, <3>2 DEF Put
  <2>7. ASSUME NEW t \in Takers, TakerStep(t) PROVE FirstServed(hand')
    <3>1. CASE TakeChan(t) \/ TryTake(t)
      <4>1. pc[t] = "idle"
        BY <3>1 DEF TakeChan, TryTake
      <4>2. PICK js \in ExpiredJobs :
               \/ hand' = HandAfter(js)
               \/ \E j : hand' = [HandAfter(js) EXCEPT ![t] = j]
        BY <3>1 DEF TakeChan, TryTake, Pop
      <4>3. js \in Seq(Jobs)
        BY ExpiredJobsSeq
      <4> QED BY <2>2, <2>3, <4>1, <4>2, <4>3
    <3>2. CASE Receive(t) \/ TakeFails(t) \/ HoldFails(t)
      BY <2>4, <3>2 DEF Receive, TakeFails, HoldFails
    <3>3. CASE Cancel(t) \/ \E d \in Deliveries : Hold(t, d)
      BY <2>5, <3>3 DEF Cancel, Hold
    <3>4. CASE Requeue(t)
      <4>1. CASE hand' = [hand EXCEPT ![t] = NoJob]
        BY <2>5, <4>1
      <4>2. CASE hand' = HandsWith([hand EXCEPT ![t] = NoJob], <<hand[t]>>)
        <5>1. <<hand[t]>> \in Seq(Jobs)
          BY <3>4, <2>1 DEF Requeue, WaitersWait, HandsFull, Maybe
        <5>2. \A u \in ToSet(waiters) : [hand EXCEPT ![t] = NoJob][u] = NoJob
          BY <2>1
        <5> QED BY <4>2, <5>1, <5>2, DeliverFirst
      <4> QED BY <3>4, <4>1, <4>2 DEF Requeue
    <3> QED BY <2>7, <3>1, <3>2, <3>3, <3>4 DEF TakerStep
  <2>8. ASSUME NEW d \in Deliveries, DeliveryStep(d) PROVE FirstServed(hand')
    <3>1. CASE Nack(d)
      <4>1. <<inflight[d]>> \in Seq(Jobs)
        BY <3>1 DEF Nack, TypeOK, Maybe
      <4> QED BY <2>2, <3>1, <4>1 DEF Nack
    <3>2. CASE Ack(d) \/ LeaseElapses(d)
      BY <2>4, <3>2 DEF Ack, LeaseElapses, memory
    <3> QED BY <2>8, <3>1, <3>2 DEF DeliveryStep
  <2>9. CASE ExpireLeases
    BY <2>2, <2>9, ExpiredJobsSeq DEF ExpireLeases
  <2>10. CASE Close
    BY <2>4, <2>10 DEF Close
  <2>11. CASE Restart
    BY <2>1, <2>11, NoneServed DEF Restart
  <2> QED BY <2>6, <2>7, <2>8, <2>9, <2>10, <2>11 DEF Next
<1> QED BY <1>1, TypeCorrect, WaitersAgree, PTL DEF Spec, OldestWaiterFirst

-----------------------------------------------------------------------------
(* What one step does to the queue, the hands and the leases.              *)

\* An element of a sequence of jobs, by its position.
LEMMA ToSetElems ==
    ASSUME NEW s \in Seq(Jobs)
    PROVE  /\ ToSet(s) = {s[i] : i \in 1..Len(s)}
           /\ ToSet(s) \subseteq Jobs
           /\ Len(s) \in Nat
           /\ DOMAIN s = 1..Len(s)
<1>1. Len(s) \in Nat /\ DOMAIN s = 1..Len(s)
  BY LenProperties
<1>2. \A i \in 1..Len(s) : s[i] \in Jobs
  BY <1>1, ElementOfSeq
<1> QED BY <1>1, <1>2 DEF ToSet

\* The queue after deliverLocked, by position: the jobs not handed out, the
\* last of them first, then the queue of before.
LEMMA QueueAfterElems ==
    ASSUME TypeOK, NEW js \in Seq(Jobs)
    PROVE  LET n == Len(js) - HandOffs(js)
           IN  /\ n \in Nat
               /\ Len(QueueAfter(js)) = n + Len(q)
               /\ \A i \in 1 .. n + Len(q) :
                     QueueAfter(js)[i] =
                        IF i <= n THEN js[Len(js) + 1 - i] ELSE q[i - n]
<1> DEFINE h == HandOffs(js)
           u == Unhanded(js)
           n == Len(js) - h
<1>1. /\ Len(js) \in Nat /\ Len(q) \in Nat /\ q \in Seq(Jobs)
      /\ h \in Nat /\ h <= Len(js)
  BY HandOffsBound, LenProperties DEF TypeOK
<1>2. /\ u \in Seq(Jobs) /\ Len(u) = n
      /\ \A i \in 1..n : u[i] = js[h + i]
  <2>1. \A i \in h+1 .. Len(js) : js[i] \in Jobs
    BY <1>1, ElementOfSeq
  <2> QED BY <1>1, <2>1, SubSeqProperties DEF Unhanded
<1> HIDE DEF u
<1>3. /\ Reverse(u) \in Seq(Jobs) /\ Len(Reverse(u)) = n
      /\ \A i \in 1..n : Reverse(u)[i] = js[Len(js) + 1 - i]
  <2>1. n \in Nat
    BY <1>1
  <2>2. \A i \in 1..n : u[(n - i) + 1] \in Jobs
    BY <1>2, <2>1, ElementOfSeq
  <2>3. Reverse(u) = [i \in 1..n |-> u[(n - i) + 1]]
    BY <1>2 DEF Reverse
  <2>4. Reverse(u) \in Seq(Jobs) /\ Len(Reverse(u)) = n
    BY <2>1, <2>2, <2>3
  <2>5. ASSUME NEW i \in 1..n
        PROVE  Reverse(u)[i] = js[Len(js) + 1 - i]
    BY <1>1, <1>2, <2>1, <2>3
  <2> QED BY <2>4, <2>5
<1>4. QueueAfter(js) = Reverse(u) \o q
  BY DEF QueueAfter, u
<1>5. /\ Len(QueueAfter(js)) = n + Len(q)
      /\ \A i \in 1 .. n + Len(q) :
            QueueAfter(js)[i] = IF i <= n THEN Reverse(u)[i] ELSE q[i - n]
  BY <1>1, <1>3, <1>4, ConcatProperties
<1>6. n \in Nat
  BY <1>1
<1>7. ASSUME NEW i \in 1 .. n + Len(q)
      PROVE  QueueAfter(js)[i] = IF i <= n THEN js[Len(js) + 1 - i] ELSE q[i - n]
  <2>1. QueueAfter(js)[i] = IF i <= n THEN Reverse(u)[i] ELSE q[i - n]
    BY <1>5
  <2>2. i <= n => i \in 1..n
    BY <1>1, <1>6
  <2> QED BY <1>3, <2>1, <2>2
<1> QED BY <1>5, <1>6, <1>7

\* No job enters the queue but those that came back.
LEMMA QueueAfterSet ==
    ASSUME TypeOK, NEW js \in Seq(Jobs)
    PROVE  ToSet(QueueAfter(js)) \subseteq ToSet(q) \cup ToSet(js)
<1> DEFINE n == Len(js) - HandOffs(js)
           Q == QueueAfter(js)
<1>1. /\ q \in Seq(Jobs) /\ Q \in Seq(Jobs)
      /\ HandOffs(js) \in Nat /\ HandOffs(js) <= Len(js)
  BY AfterTypes, HandOffsBound DEF TypeOK
<1>2. /\ Len(Q) = n + Len(q) /\ n \in Nat
      /\ \A i \in 1 .. n + Len(q) : Q[i] = IF i <= n THEN js[Len(js) + 1 - i] ELSE q[i - n]
  BY QueueAfterElems
<1> HIDE DEF Q
<1>3. ASSUME NEW i \in 1 .. n + Len(q)
      PROVE  Q[i] \in ToSet(q) \cup ToSet(js)
  <2>1. Len(js) \in Nat /\ Len(q) \in Nat
    BY LenProperties, <1>1
  <2>2. CASE i <= n
    <3>1. Len(js) + 1 - i \in 1..Len(js)
      BY <1>1, <2>1, <2>2
    <3> QED BY <1>2, <2>2, <3>1, ToSetElems
  <2>3. CASE i > n
    <3>1. i - n \in 1..Len(q)
      BY <1>2, <2>1, <2>3
    <3>2. Q[i] = q[i - n]
      BY <1>2, <2>1, <2>3
    <3>3. q[i - n] \in ToSet(q)
      BY <1>1, <3>1, ToSetElems
    <3> QED BY <3>2, <3>3
  <2> QED BY <1>2, <2>1, <2>2, <2>3
<1>4. ToSet(Q) = {Q[i] : i \in 1 .. n + Len(q)}
  BY <1>1, <1>2, ToSetElems
<1> QED BY <1>3, <1>4 DEF Q

\* The queue has no repetition if it had none and what came back has none and
\* was not in it.
LEMMA QueueAfterInjective ==
    ASSUME TypeOK, NEW js \in Seq(Jobs), IsInjective(js), IsInjective(q),
           ToSet(js) \cap ToSet(q) = {}
    PROVE  IsInjective(QueueAfter(js))
<1> DEFINE n == Len(js) - HandOffs(js)
           Q == QueueAfter(js)
<1>1. /\ q \in Seq(Jobs) /\ Q \in Seq(Jobs) /\ Len(q) \in Nat /\ Len(js) \in Nat
      /\ HandOffs(js) \in Nat /\ HandOffs(js) <= Len(js)
  BY AfterTypes, HandOffsBound, LenProperties DEF TypeOK
<1>2. /\ Len(Q) = n + Len(q) /\ n \in Nat /\ n <= Len(js)
      /\ \A i \in 1 .. n + Len(q) : Q[i] = IF i <= n THEN js[Len(js) + 1 - i] ELSE q[i - n]
  BY <1>1, QueueAfterElems
<1> HIDE DEF Q, n
<1>3. \A a, b \in 1..Len(js) : js[a] = js[b] => a = b
  BY ToSetElems DEF IsInjective
<1>4. \A a, b \in 1..Len(q) : q[a] = q[b] => a = b
  BY <1>1, ToSetElems DEF IsInjective
<1>5. \A a \in 1..Len(js), b \in 1..Len(q) : js[a] # q[b]
  <2>1. \A a \in 1..Len(js) : js[a] \in ToSet(js)
    BY ToSetElems
  <2>2. \A b \in 1..Len(q) : q[b] \in ToSet(q)
    BY <1>1, ToSetElems
  <2> QED BY <2>1, <2>2
<1>6. ASSUME NEW i \in 1 .. n + Len(q), NEW k \in 1 .. n + Len(q), Q[i] = Q[k]
      PROVE  i = k
  <2>1. CASE i <= n /\ k <= n
    <3>1. Len(js) + 1 - i \in 1..Len(js) /\ Len(js) + 1 - k \in 1..Len(js)
      BY <1>1, <1>2, <2>1
    <3>2. js[Len(js) + 1 - i] = js[Len(js) + 1 - k]
      BY <1>2, <1>6, <2>1
    <3>3. Len(js) + 1 - i = Len(js) + 1 - k
      BY <1>3, <3>1, <3>2
    <3> QED BY <1>1, <1>2, <3>3
  <2>2. CASE i <= n /\ k > n
    <3>1. Len(js) + 1 - i \in 1..Len(js) /\ k - n \in 1..Len(q)
      BY <1>1, <1>2, <2>2
    <3>2. js[Len(js) + 1 - i] = q[k - n]
      BY <1>1, <1>2, <1>6, <2>2
    <3> QED BY <1>5, <3>1, <3>2
  <2>3. CASE i > n /\ k <= n
    <3>1. Len(js) + 1 - k \in 1..Len(js) /\ i - n \in 1..Len(q)
      BY <1>1, <1>2, <2>3
    <3>2. js[Len(js) + 1 - k] = q[i - n]
      BY <1>1, <1>2, <1>6, <2>3
    <3> QED BY <1>5, <3>1, <3>2
  <2>4. CASE i > n /\ k > n
    <3>1. i - n \in 1..Len(q) /\ k - n \in 1..Len(q)
      BY <1>1, <1>2, <2>4
    <3>2. q[i - n] = q[k - n]
      BY <1>1, <1>2, <1>6, <2>4
    <3>3. i - n = k - n
      BY <1>4, <3>1, <3>2
    <3> QED BY <1>1, <1>2, <3>3
  <2> QED BY <1>1, <1>2, <2>1, <2>2, <2>3, <2>4
<1>7. DOMAIN Q = 1 .. n + Len(q)
  BY <1>1, <1>2, ToSetElems
<1> QED BY <1>6, <1>7 DEF IsInjective, Q

\* A taker's hand after deliverLocked has what it had, or a job that was handed
\* out and is not in the queue.
LEMMA HandsWithElems ==
    ASSUME TypeOK, NEW js \in Seq(Jobs), NEW hands, NEW t \in Takers
    PROVE  \/ HandsWith(hands, js)[t] = hands[t]
           \/ \E i \in 1..HandOffs(js) : waiters[i] = t /\ HandsWith(hands, js)[t] = js[i]
<1> DEFINE h == HandOffs(js)
<1> HIDE DEF h
<1>1. CASE \E i \in 1..h : waiters[i] = t
  <2> DEFINE k == CHOOSE i \in 1..h : waiters[i] = t
  <2>1. k \in 1..h /\ waiters[k] = t
    BY <1>1
  <2>2. HandsWith(hands, js)[t] = js[k]
    BY <1>1 DEF HandsWith, h
  <2> QED BY <2>1, <2>2 DEF h
<1>2. CASE ~\E i \in 1..h : waiters[i] = t
  BY <1>2 DEF HandsWith, h
<1> QED BY <1>1, <1>2

\* A job that was handed out is not queued too.
LEMMA HandedNotQueued ==
    ASSUME TypeOK, NEW js \in Seq(Jobs), IsInjective(js),
           ToSet(js) \cap ToSet(q) = {}, NEW i \in 1..HandOffs(js)
    PROVE  js[i] \in ToSet(js) /\ js[i] \notin ToSet(QueueAfter(js))
<1> DEFINE n == Len(js) - HandOffs(js)
           Q == QueueAfter(js)
<1>1. /\ q \in Seq(Jobs) /\ Q \in Seq(Jobs) /\ Len(q) \in Nat /\ Len(js) \in Nat
      /\ HandOffs(js) \in Nat /\ HandOffs(js) <= Len(js)
  BY AfterTypes, HandOffsBound, LenProperties DEF TypeOK
<1>2. /\ Len(Q) = n + Len(q) /\ n \in Nat /\ n <= Len(js)
      /\ \A k \in 1 .. n + Len(q) : Q[k] = IF k <= n THEN js[Len(js) + 1 - k] ELSE q[k - n]
  BY <1>1, QueueAfterElems
<1>3. i \in 1..Len(js) /\ i <= Len(js) - n
  BY <1>1
<1> HIDE DEF Q, n
<1>4. js[i] \in ToSet(js)
  BY <1>3, ToSetElems
<1>5. \A a, b \in 1..Len(js) : js[a] = js[b] => a = b
  BY ToSetElems DEF IsInjective
<1>6. ASSUME NEW k \in 1 .. n + Len(q), Q[k] = js[i]
      PROVE  FALSE
  <2>1. CASE k <= n
    <3>1. Len(js) + 1 - k \in 1..Len(js) /\ Len(js) + 1 - k # i
      BY <1>1, <1>2, <1>3, <2>1
    <3>2. js[Len(js) + 1 - k] = js[i]
      BY <1>2, <1>6, <2>1
    <3> QED BY <1>3, <1>5, <3>1, <3>2
  <2>2. CASE k > n
    <3>1. k - n \in 1..Len(q)
      BY <1>1, <1>2, <2>2
    <3>2. q[k - n] = js[i]
      BY <1>1, <1>2, <1>6, <2>2
    <3> QED BY <1>1, <1>4, <3>1, <3>2, ToSetElems
  <2> QED BY <1>1, <1>2, <2>1, <2>2
<1>7. ToSet(Q) = {Q[k] : k \in 1 .. n + Len(q)}
  BY <1>1, <1>2, ToSetElems
<1> QED BY <1>4, <1>6, <1>7 DEF Q

\* deliverLocked puts jobs that are nowhere else in one place each.
LEMMA DeliverOnce ==
    ASSUME TypeOK, NEW js \in Seq(Jobs), IsInjective(js), NEW hands, NEW leases,
           OncePlaced(q, hands, leases),
           ToSet(js) \cap ToSet(q) = {}, ToSet(js) \cap Leased(leases) = {},
           \A t \in Takers : hands[t] \notin ToSet(js)
    PROVE  /\ OncePlaced(QueueAfter(js), HandsWith(hands, js), leases)
           /\ \A t \in Takers : HandsWith(hands, js)[t] \in {hands[t]} \cup ToSet(js)
<1> DEFINE Q == QueueAfter(js)
           H == HandsWith(hands, js)
<1>1. /\ ToSet(Q) \subseteq ToSet(q) \cup ToSet(js)
      /\ IsInjective(Q)
  BY QueueAfterSet, QueueAfterInjective DEF OncePlaced, NoRepetition
<1>2. NoRepetition(Q, leases)
  BY <1>1 DEF OncePlaced, NoRepetition
<1>3. ASSUME NEW t \in Takers
      PROVE  \/ H[t] = hands[t]
             \/ \E i \in 1..HandOffs(js) : waiters[i] = t /\ H[t] = js[i]
  BY HandsWithElems
<1>4. \A i \in 1..HandOffs(js) : js[i] \in ToSet(js) /\ js[i] \notin ToSet(Q)
  BY HandedNotQueued
<1>5. \A i, k \in 1..HandOffs(js) : js[i] = js[k] => i = k
  <2>1. \A i \in 1..HandOffs(js) : i \in DOMAIN js
    BY HandOffsBound, ToSetElems
  <2> QED BY <2>1 DEF IsInjective
<1> HIDE DEF Q, H
<1>6. ASSUME NEW t \in Takers, NEW u \in Takers, H[t] # NoJob, H[t] = H[u]
      PROVE  t = u
  <2>1. CASE H[t] = hands[t] /\ H[u] = hands[u]
    BY <1>6, <2>1 DEF OncePlaced
  <2>2. CASE H[t] = hands[t] /\ H[u] # hands[u]
    <3>1. H[u] \in ToSet(js)
      BY <1>3, <1>4, <2>2
    <3>2. H[t] \notin ToSet(js)
      BY <2>2
    <3> QED BY <1>6, <3>1, <3>2
  <2>3. CASE H[t] # hands[t] /\ H[u] = hands[u]
    BY <1>3, <1>4, <1>6, <2>3
  <2>4. CASE H[t] # hands[t] /\ H[u] # hands[u]
    BY <1>3, <1>5, <1>6, <2>4
  <2> QED BY <2>1, <2>2, <2>3, <2>4
<1>7. ASSUME NEW t \in Takers
      PROVE  H[t] \notin ToSet(Q) \cup Leased(leases) /\ H[t] \in {hands[t]} \cup ToSet(js)
  <2>1. CASE H[t] = hands[t]
    BY <1>1, <2>1 DEF OncePlaced
  <2>2. CASE H[t] # hands[t]
    BY <1>3, <1>4, <2>2
  <2> QED BY <2>1, <2>2
<1> QED BY <1>2, <1>6, <1>7 DEF OncePlaced, Q, H

\* The jobs of expired leases are jobs of different leases, and of no other.
LEMMA ExpiredOnce ==
    ASSUME TypeOK, SinglePlace, NEW js \in ExpiredJobs
    PROVE  /\ js \in Seq(Jobs) /\ IsInjective(js)
           /\ ToSet(js) \subseteq Leased(inflight)
           /\ ToSet(js) \cap Leased(Without(Expired)) = {}
<1>1. js \in Seq(Jobs)
  BY ExpiredJobsSeq
<1>2. PICK s \in Orders(Expired) : js = LeasedBy(s)
  BY DEF ExpiredJobs
<1> DEFINE n == Cardinality(Expired)
<1>3. s \in [1..n -> Expired] /\ IsInjective(s)
  BY <1>2 DEF Orders
<1> HIDE DEF n
<1>4. DOMAIN js = 1..n /\ \A i \in 1..n : js[i] = inflight[s[i]]
  BY <1>2, <1>3 DEF LeasedBy
<1>5. \A i \in 1..n : s[i] \in Expired /\ s[i] \in Deliveries /\ inflight[s[i]] # NoJob
  BY <1>3 DEF Expired
<1>6. \A d, e \in Deliveries : inflight[d] # NoJob /\ inflight[d] = inflight[e] => d = e
  BY DEF SinglePlace, OncePlaced, NoRepetition
<1>7. IsInjective(js)
  BY <1>3, <1>4, <1>5, <1>6 DEF IsInjective
<1>8. ToSet(js) = {inflight[s[i]] : i \in 1..n}
  BY <1>4 DEF ToSet
<1>9. ToSet(js) \subseteq Leased(inflight)
  BY <1>5, <1>8 DEF Leased
<1>10. ASSUME NEW i \in 1..n, NEW e \in Deliveries, Without(Expired)[e] = inflight[s[i]]
       PROVE  FALSE
  <2>1. e \notin Expired /\ inflight[e] = inflight[s[i]]
    BY <1>5, <1>10 DEF Without
  <2> QED BY <1>5, <1>6, <2>1
<1> QED BY <1>1, <1>7, <1>8, <1>9, <1>10 DEF Leased

\* Ending leases puts nothing anywhere.
LEMMA WithoutOnce ==
    ASSUME SinglePlace, NEW ds
    PROVE  /\ Leased(Without(ds)) \subseteq Leased(inflight)
           /\ OncePlaced(q, hand, Without(ds))
<1>1. \A d \in Deliveries : Without(ds)[d] = NoJob \/ Without(ds)[d] = inflight[d]
  BY DEF Without
<1>2. Leased(Without(ds)) \subseteq Leased(inflight)
  BY <1>1 DEF Leased
<1> QED BY <1>1, <1>2 DEF SinglePlace, OncePlaced, NoRepetition

\* A requeue of expired jobs keeps each job in one place.
LEMMA ExpiredDelivered ==
    ASSUME TypeOK, SinglePlace, NEW js \in ExpiredJobs
    PROVE  /\ OncePlaced(QueueAfter(js), HandAfter(js), Without(Expired))
           /\ ToSet(QueueAfter(js)) \subseteq Located
           /\ \A t \in Takers : HandAfter(js)[t] \in Located \cup {NoJob}
           /\ Leased(Without(Expired)) \subseteq Located
<1>1. /\ js \in Seq(Jobs) /\ IsInjective(js)
      /\ ToSet(js) \subseteq Leased(inflight)
      /\ ToSet(js) \cap Leased(Without(Expired)) = {}
  BY ExpiredOnce
<1>2. /\ Leased(Without(Expired)) \subseteq Leased(inflight)
      /\ OncePlaced(q, hand, Without(Expired))
  BY WithoutOnce
<1>3. /\ ToSet(js) \cap ToSet(q) = {}
      /\ \A t \in Takers : hand[t] \notin ToSet(js)
  BY <1>1 DEF SinglePlace, OncePlaced, NoRepetition
<1>4. /\ OncePlaced(QueueAfter(js), HandAfter(js), Without(Expired))
      /\ \A t \in Takers : HandAfter(js)[t] \in {hand[t]} \cup ToSet(js)
  BY <1>1, <1>2, <1>3, DeliverOnce DEF HandAfter
<1>5. ToSet(QueueAfter(js)) \subseteq ToSet(q) \cup ToSet(js)
  BY <1>1, QueueAfterSet
<1> QED BY <1>1, <1>2, <1>4, <1>5 DEF Located, InHand

\* A sequence without repetition, its head and its tail.
LEMMA HeadOnce ==
    ASSUME NEW s \in Seq(Jobs), s # <<>>, IsInjective(s)
    PROVE  /\ Tail(s) \in Seq(Jobs) /\ IsInjective(Tail(s))
           /\ Head(s) \in ToSet(s) /\ Head(s) \notin ToSet(Tail(s))
           /\ ToSet(Tail(s)) \subseteq ToSet(s)
<1>1. /\ Tail(s) \in Seq(Jobs) /\ Len(s) \in Nat /\ Len(s) >= 1
      /\ Len(Tail(s)) = Len(s) - 1
      /\ \A i \in 1 .. Len(s) - 1 : Tail(s)[i] = s[i + 1]
      /\ Head(s) = s[1]
  BY HeadTailProperties, LenProperties, EmptySeq
<1>2. /\ ToSet(s) = {s[i] : i \in 1..Len(s)} /\ DOMAIN s = 1..Len(s)
      /\ ToSet(Tail(s)) = {Tail(s)[i] : i \in 1 .. Len(s) - 1}
      /\ DOMAIN Tail(s) = 1 .. Len(s) - 1
  BY <1>1, ToSetElems
<1>3. \A a, b \in 1..Len(s) : s[a] = s[b] => a = b
  BY <1>2 DEF IsInjective
<1>4. \A i \in 1 .. Len(s) - 1 : i + 1 \in 1..Len(s) /\ i + 1 # 1
  BY <1>1
<1>5. 1 \in 1..Len(s)
  BY <1>1
<1>6. Head(s) \in ToSet(s) /\ ToSet(Tail(s)) \subseteq ToSet(s)
  BY <1>1, <1>2, <1>4, <1>5
<1>7. Head(s) \notin ToSet(Tail(s))
  BY <1>1, <1>2, <1>3, <1>4, <1>5
<1>8. IsInjective(Tail(s))
  <2>1. ASSUME NEW a \in 1 .. Len(s) - 1, NEW b \in 1 .. Len(s) - 1, Tail(s)[a] = Tail(s)[b]
        PROVE  a = b
    <3>1. a + 1 = b + 1
      BY <1>1, <1>3, <1>4, <2>1
    <3> QED BY <1>1, <3>1
  <2> QED BY <1>2, <2>1 DEF IsInjective
<1> QED BY <1>1, <1>6, <1>7, <1>8

\* A pop moves the head of the queue into the hands of a taker.
LEMMA PopOnce ==
    ASSUME NEW queue \in Seq(Jobs), queue # <<>>, NEW hands \in [Takers -> Maybe], NEW leases,
           OncePlaced(queue, hands, leases), NEW t \in Takers
    PROVE  OncePlaced(Tail(queue), [hands EXCEPT ![t] = Head(queue)], leases)
<1> DEFINE H == [hands EXCEPT ![t] = Head(queue)]
<1>1. /\ IsInjective(Tail(queue))
      /\ Head(queue) \in ToSet(queue) /\ Head(queue) \notin ToSet(Tail(queue))
      /\ ToSet(Tail(queue)) \subseteq ToSet(queue)
  BY HeadOnce DEF OncePlaced, NoRepetition
<1>2. NoRepetition(Tail(queue), leases)
  BY <1>1 DEF OncePlaced, NoRepetition
<1>3. H[t] = Head(queue) /\ \A u \in Takers : u # t => H[u] = hands[u]
  OBVIOUS
<1> HIDE DEF H
<1>4. ASSUME NEW u \in Takers
      PROVE  H[u] \notin ToSet(Tail(queue)) \cup Leased(leases)
  BY <1>1, <1>3 DEF OncePlaced, NoRepetition
<1>5. ASSUME NEW u \in Takers, NEW v \in Takers, H[u] # NoJob, H[u] = H[v]
      PROVE  u = v
  BY <1>1, <1>3, <1>5 DEF OncePlaced
<1> QED BY <1>2, <1>4, <1>5 DEF OncePlaced, H

-----------------------------------------------------------------------------
(* The inductive invariant.                                                *)

\* A bus without a file writes none.
FileIfDurable == ~Durable => InFile = {}

PlacementInv == TypeOK /\ HandsFull /\ SinglePlace /\ OnlyUnackedInside /\ FileIfDurable

\* After a save or none, the file holds what it held or what the memory does.
LEMMA FileAfter ==
    ASSUME SinglePlace, FileIfDurable, SavedOrNot \/ UNCHANGED disk,
           OncePlaced(q, hand, inflight)'
    PROVE  /\ SinglePlace' /\ FileIfDurable'
           /\ InFile' \subseteq InFile \cup Located'
<1>1. CASE UNCHANGED disk
  BY <1>1 DEF SinglePlace, FileIfDurable, InFile
<1>2. CASE Durable /\ disk' = [q |-> q', inflight |-> inflight']
  <2>1. disk'.q = q' /\ disk'.inflight = inflight'
    BY <1>2
  <2> QED BY <1>2, <2>1 DEF SinglePlace, OncePlaced, FileIfDurable, InFile, Located
<1> QED BY <1>1, <1>2 DEF SavedOrNot, Saved, SaveFails

\* A step that only moves jobs keeps the invariant.
LEMMA MoveStep ==
    ASSUME PlacementInv, SavedOrNot \/ UNCHANGED disk, UNCHANGED fate,
           OncePlaced(q, hand, inflight)', Located' \subseteq Located
    PROVE  (SinglePlace /\ OnlyUnackedInside /\ FileIfDurable)' /\ Located' \subseteq Located
<1>1. SinglePlace' /\ FileIfDurable' /\ InFile' \subseteq InFile \cup Located'
  BY FileAfter DEF PlacementInv
<1>2. OnlyUnackedInside'
  BY <1>1 DEF PlacementInv, OnlyUnackedInside
<1> QED BY <1>1, <1>2

\* The takes: expired jobs come back, then a pop if anything is queued.
LEMMA PopMoves ==
    ASSUME PlacementInv, NEW js \in ExpiredJobs, NEW t \in Takers, NEW next,
           Pop(t, js, next), inflight' = Without(Expired), UNCHANGED fate
    PROVE  (SinglePlace /\ OnlyUnackedInside /\ FileIfDurable)' /\ Located' \subseteq Located
<1> DEFINE Q == QueueAfter(js)
           H == HandAfter(js)
<1>1. /\ OncePlaced(Q, H, Without(Expired))
      /\ ToSet(Q) \subseteq Located
      /\ \A u \in Takers : H[u] \in Located \cup {NoJob}
      /\ Leased(Without(Expired)) \subseteq Located
  BY ExpiredDelivered DEF PlacementInv
<1>2. Q \in Seq(Jobs) /\ H \in [Takers -> Maybe]
  BY AfterTypes, ExpiredJobsSeq DEF PlacementInv
<1>3. Q # <<>>
  BY DEF Pop
<1>4. \/ q' = Tail(Q) /\ hand' = [H EXCEPT ![t] = Head(Q)] /\ Saved
      \/ q' = Q /\ hand' = H /\ SaveFails
  BY DEF Pop
<1> HIDE DEF Q, H
<1>5. CASE q' = Tail(Q) /\ hand' = [H EXCEPT ![t] = Head(Q)] /\ Saved
  <2>1. OncePlaced(Tail(Q), [H EXCEPT ![t] = Head(Q)], Without(Expired))
    BY <1>1, <1>2, <1>3, PopOnce
  <2>2. OncePlaced(q, hand, inflight)'
    BY <1>5, <2>1 DEF OncePlaced, NoRepetition, Leased
  <2>3. /\ Head(Q) \in ToSet(Q) /\ ToSet(Tail(Q)) \subseteq ToSet(Q)
    BY <1>1, <1>2, <1>3, HeadOnce DEF OncePlaced, NoRepetition
  <2>4. \A u \in Takers : hand'[u] \in Located \cup {NoJob}
    BY <1>1, <1>2, <1>5, <2>3
  <2>5. Located' \subseteq Located
    BY <1>1, <1>5, <2>3, <2>4 DEF Located, InHand, Leased
  <2> QED BY <1>5, <2>2, <2>5, MoveStep DEF SavedOrNot
<1>6. CASE q' = Q /\ hand' = H /\ SaveFails
  <2>1. OncePlaced(q, hand, inflight)'
    BY <1>1, <1>6 DEF OncePlaced, NoRepetition, Leased
  <2>2. Located' \subseteq Located
    BY <1>1, <1>6 DEF Located, InHand, Leased
  <2> QED BY <1>6, <2>1, <2>2, MoveStep DEF SavedOrNot
<1> QED BY <1>4, <1>5, <1>6

\* Expired jobs come back and nothing else moves: an empty queue for a take, and
\* the sweeper.
LEMMA ExpiryMoves ==
    ASSUME PlacementInv, NEW js \in ExpiredJobs, q' = QueueAfter(js), hand' = HandAfter(js),
           inflight' = Without(Expired), SavedOrNot \/ UNCHANGED disk, UNCHANGED fate
    PROVE  (SinglePlace /\ OnlyUnackedInside /\ FileIfDurable)' /\ Located' \subseteq Located
<1>1. /\ OncePlaced(q', hand', inflight')
      /\ ToSet(q') \subseteq Located
      /\ \A u \in Takers : hand'[u] \in Located \cup {NoJob}
      /\ Leased(inflight') \subseteq Located
  BY ExpiredDelivered DEF PlacementInv
<1>2. OncePlaced(q, hand, inflight)'
  BY <1>1 DEF OncePlaced, NoRepetition, Leased
<1>3. Located' \subseteq Located
  BY <1>1 DEF Located, InHand, Leased
<1> QED BY <1>2, <1>3, MoveStep

\* One job goes through deliverLocked, from a lease or from a taker's hand.
LEMMA OneMoves ==
    ASSUME PlacementInv, NEW j \in Jobs, NEW hands, j \in Located,
           OncePlaced(q, hands, inflight'), j \notin ToSet(q) \cup Leased(inflight'),
           \A t \in Takers : hands[t] # j /\ hands[t] \in Located \cup {NoJob},
           Leased(inflight') \subseteq Located,
           q' = QueueAfter(<<j>>), hand' = HandsWith(hands, <<j>>),
           SavedOrNot, UNCHANGED fate
    PROVE  (SinglePlace /\ OnlyUnackedInside /\ FileIfDurable)' /\ Located' \subseteq Located
<1> DEFINE js == <<j>>
<1>1. js \in Seq(Jobs) /\ IsInjective(js) /\ ToSet(js) = {j}
  BY DEF IsInjective, ToSet
<1> HIDE DEF js
<1>2. TypeOK
  BY DEF PlacementInv
<1>3. /\ OncePlaced(QueueAfter(js), HandsWith(hands, js), inflight')
      /\ \A t \in Takers : HandsWith(hands, js)[t] \in {hands[t]} \cup ToSet(js)
  BY <1>1, <1>2, DeliverOnce
<1>4. ToSet(QueueAfter(js)) \subseteq ToSet(q) \cup {j}
  BY <1>1, <1>2, QueueAfterSet
<1>5. OncePlaced(q, hand, inflight)'
  BY <1>3 DEF OncePlaced, NoRepetition, Leased, js
<1>6. Located' \subseteq Located
  <2>1. ToSet(q') \subseteq Located
    BY <1>4 DEF js, Located
  <2>2. \A t \in Takers : hand'[t] \in Located \cup {NoJob}
    BY <1>1, <1>3 DEF js
  <2> QED BY <2>1, <2>2 DEF Located, InHand, Leased
<1> QED BY <1>5, <1>6, MoveStep

\* A job in front of the queue, and one behind it.
LEMMA EndsOnce ==
    ASSUME NEW s \in Seq(Jobs), NEW j \in Jobs, IsInjective(s), j \notin ToSet(s)
    PROVE  /\ IsInjective(<<j>> \o s) /\ ToSet(<<j>> \o s) = ToSet(s) \cup {j}
           /\ IsInjective(Append(s, j)) /\ ToSet(Append(s, j)) = ToSet(s) \cup {j}
<1>1. /\ Len(s) \in Nat /\ DOMAIN s = 1..Len(s) /\ ToSet(s) = {s[i] : i \in 1..Len(s)}
  BY ToSetElems
<1>2. \A a, b \in 1..Len(s) : s[a] = s[b] => a = b
  BY <1>1 DEF IsInjective
<1>3. \A a \in 1..Len(s) : s[a] # j
  BY <1>1
<1>4. IsInjective(<<j>> \o s) /\ ToSet(<<j>> \o s) = ToSet(s) \cup {j}
  <2> DEFINE f == <<j>> \o s
  <2>1. /\ f \in Seq(Jobs) /\ Len(f) = Len(s) + 1 /\ f[1] = j
        /\ \A i \in 1..Len(s) : f[i + 1] = s[i]
    BY <1>1, ConcatProperties
  <2> HIDE DEF f
  <2>2. DOMAIN f = 1 .. Len(s) + 1 /\ ToSet(f) = {f[i] : i \in 1 .. Len(s) + 1}
    BY <2>1, ToSetElems
  <2>3. \A i \in 1 .. Len(s) + 1 : i = 1 \/ (i - 1 \in 1..Len(s) /\ i = (i - 1) + 1)
    BY <1>1
  <2>4. \A i \in 1..Len(s) : i + 1 \in 1 .. Len(s) + 1
    BY <1>1
  <2>5. \A i \in 1 .. Len(s) + 1 : i = 1 \/ f[i] = s[i - 1]
    BY <2>1, <2>3
  <2>6. ASSUME NEW a \in 1 .. Len(s) + 1, NEW b \in 1 .. Len(s) + 1, f[a] = f[b]
        PROVE  a = b
    <3>1. CASE a = 1 /\ b = 1
      BY <3>1
    <3>2. CASE a = 1 /\ b # 1
      BY <1>3, <2>1, <2>3, <2>5, <2>6, <3>2
    <3>3. CASE a # 1 /\ b = 1
      BY <1>3, <2>1, <2>3, <2>5, <2>6, <3>3
    <3>4. CASE a # 1 /\ b # 1
      <4>1. a - 1 = b - 1
        BY <1>2, <2>3, <2>5, <2>6, <3>4
      <4> QED BY <1>1, <4>1
    <3> QED BY <3>1, <3>2, <3>3, <3>4
  <2>7. ToSet(f) \subseteq ToSet(s) \cup {j}
    BY <1>1, <2>1, <2>2, <2>3, <2>5
  <2>8. ToSet(s) \cup {j} \subseteq ToSet(f)
    <3>1. 1 \in 1 .. Len(s) + 1
      BY <1>1
    <3> QED BY <1>1, <2>1, <2>2, <2>4, <3>1
  <2> QED BY <2>2, <2>6, <2>7, <2>8 DEF IsInjective, f
<1>5. IsInjective(Append(s, j)) /\ ToSet(Append(s, j)) = ToSet(s) \cup {j}
  <2> DEFINE f == Append(s, j)
  <2>1. /\ f \in Seq(Jobs) /\ Len(f) = Len(s) + 1 /\ f[Len(s) + 1] = j
        /\ \A i \in 1..Len(s) : f[i] = s[i]
    BY <1>1, AppendProperties
  <2> HIDE DEF f
  <2>2. DOMAIN f = 1 .. Len(s) + 1 /\ ToSet(f) = {f[i] : i \in 1 .. Len(s) + 1}
    BY <2>1, ToSetElems
  <2>3. \A i \in 1 .. Len(s) + 1 : i = Len(s) + 1 \/ i \in 1..Len(s)
    BY <1>1
  <2>4. 1..Len(s) \subseteq 1 .. Len(s) + 1 /\ Len(s) + 1 \in 1 .. Len(s) + 1
    BY <1>1
  <2>5. IsInjective(f)
    BY <1>2, <1>3, <2>1, <2>2, <2>3 DEF IsInjective
  <2>6. ToSet(f) = ToSet(s) \cup {j}
    BY <1>1, <2>1, <2>2, <2>3, <2>4
  <2> QED BY <2>5, <2>6 DEF f
<1> QED BY <1>4, <1>5

-----------------------------------------------------------------------------
(* The steps.                                                              *)

\* The mailbox starts empty, and so does its file.
LEMMA PlacementInit == Init => PlacementInv
<1> SUFFICES ASSUME Init PROVE PlacementInv
  OBVIOUS
<1>1. TypeOK /\ HandsFull
  BY TypeInit DEF Init, HandsFull
<1>2. /\ q = <<>> /\ hand = [t \in Takers |-> NoJob] /\ inflight = [d \in Deliveries |-> NoJob]
      /\ disk.q = <<>> /\ disk.inflight = [d \in Deliveries |-> NoJob]
  BY DEF Init, NoLeases
<1>3. ToSet(q) = {} /\ ToSet(disk.q) = {} /\ IsInjective(q) /\ IsInjective(disk.q)
  BY <1>2 DEF ToSet, IsInjective
<1>4. Leased(inflight) = {} /\ Leased(disk.inflight) = {} /\ InHand = {}
  BY <1>2 DEF Leased, InHand
<1>5. SinglePlace
  BY <1>2, <1>3, <1>4 DEF SinglePlace, OncePlaced, NoRepetition
<1> QED BY <1>1, <1>3, <1>4, <1>5
        DEF PlacementInv, OnlyUnackedInside, FileIfDurable, Located, InFile

\* Put: a fresh job is nowhere, so wherever it goes is its only place.
LEMMA PutPlaces ==
    ASSUME PlacementInv, NEW j \in Jobs, Put(j)
    PROVE  /\ (SinglePlace /\ OnlyUnackedInside /\ FileIfDurable)'
           /\ Located' \subseteq Located \cup {j} /\ (Located' # Located => fate[j] = "fresh")
<1>1. TypeOK
  BY DEF PlacementInv
<1>2. CASE PutMerges(j)
  <2>1. UNCHANGED <<q, hand, inflight, disk>> /\ fate' = [fate EXCEPT ![j] = "merged"]
        /\ fate[j] = "fresh"
    BY <1>2 DEF PutMerges, memory
  <2>2. (SinglePlace /\ FileIfDurable)' /\ UNCHANGED <<Located, InFile>>
    BY <2>1 DEF PlacementInv, SinglePlace, FileIfDurable, InFile, Located, InHand
  <2>3. OnlyUnackedInside'
    BY <1>1, <2>1, <2>2 DEF PlacementInv, OnlyUnackedInside, TypeOK
  <2> QED BY <2>2, <2>3
<1>3. CASE PutHandsOff(j) \/ PutQueues(j)
  <2>1. fate[j] = "fresh" /\ fate' = [fate EXCEPT ![j] = "accepted"] /\ inflight' = inflight
    BY <1>3 DEF PutHandsOff, PutQueues
  <2>2. j \notin Located /\ j \notin InFile /\ j # NoJob
    BY <2>1, JobsAssumption DEF PlacementInv, OnlyUnackedInside
  <2>3. OncePlaced(q, hand, inflight)' /\ Located' \subseteq Located \cup {j}
    <3>1. CASE PutHandsOff(j)
      <4> DEFINE w == Head(waiters)
      <4>1. w \in Takers
        BY <1>1, <3>1, HeadTailProperties DEF PutHandsOff, TypeOK
      <4>2. q' = q /\ hand' = [hand EXCEPT ![w] = j]
        BY <3>1 DEF PutHandsOff
      <4> HIDE DEF w
      <4>3. hand'[w] = j /\ \A t \in Takers : t # w => hand'[t] = hand[t]
        BY <1>1, <4>1, <4>2 DEF TypeOK
      <4>4. \A t \in Takers : hand[t] # j
        BY <2>2 DEF Located, InHand
      <4>5. j \notin ToSet(q) \cup Leased(inflight)
        BY <2>2 DEF Located
      <4>6. OncePlaced(q, hand, inflight)
        BY DEF PlacementInv, SinglePlace
      <4>7. NoRepetition(q, inflight)'
        BY <2>1, <4>2, <4>6 DEF OncePlaced, NoRepetition, Leased
      <4>8. \A t, u \in Takers : hand'[t] # NoJob /\ hand'[t] = hand'[u] => t = u
        BY <4>3, <4>4, <4>6 DEF OncePlaced
      <4>9. \A t \in Takers : hand'[t] \notin ToSet(q) \cup Leased(inflight)
        BY <4>3, <4>5, <4>6 DEF OncePlaced
      <4>10. Leased(inflight)' = Leased(inflight)
        BY <2>1
      <4>11. InHand' \subseteq InHand \cup {j}
        BY <4>3 DEF InHand
      <4>12. OncePlaced(q, hand, inflight)'
        BY <4>2, <4>7, <4>8, <4>9, <4>10 DEF OncePlaced
      <4> QED BY <4>2, <4>10, <4>11, <4>12 DEF Located
    <3>2. CASE PutQueues(j)
      <4>1. q' = Append(q, j) /\ hand' = hand
        BY <3>2 DEF PutQueues
      <4>2. OncePlaced(q, hand, inflight) /\ q \in Seq(Jobs)
        BY <1>1 DEF PlacementInv, SinglePlace, TypeOK
      <4>3. j \notin ToSet(q) /\ j \notin Leased(inflight) /\ j \notin InHand
        BY <2>2 DEF Located
      <4>4. IsInjective(q') /\ ToSet(q') = ToSet(q) \cup {j}
        BY <4>1, <4>2, <4>3, EndsOnce DEF OncePlaced, NoRepetition
      <4>5. Leased(inflight)' = Leased(inflight) /\ InHand' = InHand
        BY <2>1, <4>1 DEF InHand
      <4>6. NoRepetition(q, inflight)'
        BY <2>1, <4>2, <4>3, <4>4, <4>5 DEF OncePlaced, NoRepetition
      <4>7. \A t \in Takers : hand[t] # j
        BY <2>2, <4>3 DEF InHand
      <4>8. OncePlaced(q, hand, inflight)'
        BY <4>1, <4>2, <4>4, <4>5, <4>6, <4>7 DEF OncePlaced
      <4> QED BY <4>4, <4>5, <4>8 DEF Located
    <3> QED BY <1>3, <3>1, <3>2
  <2>4. SinglePlace' /\ FileIfDurable' /\ InFile' \subseteq InFile \cup Located'
    <3>1. SavedOrNot \/ UNCHANGED disk
      BY <1>3 DEF PutHandsOff, PutQueues, SavedOrNot
    <3> QED BY <2>3, <3>1, FileAfter DEF PlacementInv
  <2>5. OnlyUnackedInside'
    BY <1>1, <2>1, <2>3, <2>4 DEF PlacementInv, OnlyUnackedInside, TypeOK
  <2> QED BY <2>1, <2>3, <2>4, <2>5
<1>4. CASE PutRefused(j)
  BY <1>4 DEF PutRefused, vars, PlacementInv, SinglePlace, OnlyUnackedInside,
              FileIfDurable, InFile, Located, InHand
<1> QED BY <1>2, <1>3, <1>4 DEF Put

\* A taker's step keeps each job in one place.
LEMMA TakerPlaces ==
    ASSUME PlacementInv, NEW t \in Takers, TakerStep(t)
    PROVE  (SinglePlace /\ OnlyUnackedInside /\ FileIfDurable)' /\ Located' \subseteq Located
<1>1. TypeOK /\ HandsFull /\ OncePlaced(q, hand, inflight)
  BY DEF PlacementInv, SinglePlace
<1>2. CASE TakeChan(t)
  <2>1. PICK js \in ExpiredJobs :
           \/ Pop(t, js, "wait")
           \/ /\ QueueAfter(js) = <<>>
              /\ q' = <<>>
              /\ hand' = HandAfter(js)
              /\ UNCHANGED disk
    BY <1>2 DEF TakeChan
  <2>2. inflight' = Without(Expired) /\ fate' = fate
    BY <1>2 DEF TakeChan
  <2> QED BY <2>1, <2>2, PopMoves, ExpiryMoves
<1>3. CASE TryTake(t)
  <2>1. PICK js \in ExpiredJobs :
           \/ Pop(t, js, "got")
           \/ /\ QueueAfter(js) = <<>>
              /\ q' = <<>>
              /\ hand' = HandAfter(js)
              /\ UNCHANGED disk
    BY <1>3 DEF TryTake
  <2>2. inflight' = Without(Expired) /\ fate' = fate
    BY <1>3 DEF TryTake
  <2> QED BY <2>1, <2>2, PopMoves, ExpiryMoves
<1>4. CASE Receive(t) \/ TakeFails(t) \/ HoldFails(t)
  BY <1>4 DEF Receive, TakeFails, HoldFails, PlacementInv, SinglePlace, OnlyUnackedInside,
              FileIfDurable, InFile, Located, InHand
<1>5. CASE Cancel(t)
  <2>1. hand' = [hand EXCEPT ![t] = NoJob] /\ inflight' = inflight /\ fate' = fate
    BY <1>5 DEF Cancel
  <2>2. hand'[t] = NoJob /\ \A u \in Takers : u # t => hand'[u] = hand[u]
    BY <1>1, <2>1 DEF TypeOK
  <2>3. Leased(inflight)' = Leased(inflight) /\ InHand' \subseteq InHand
    BY <2>1, <2>2 DEF InHand
  <2>4. NoJob \notin ToSet(q) \cup Leased(inflight)
    BY <1>1, ToSetElems, JobsAssumption DEF TypeOK, Leased
  <2>5. CASE q' = q /\ disk' = disk
    <3>1. OncePlaced(q, hand, inflight)'
      BY <1>1, <2>1, <2>2, <2>3, <2>4, <2>5 DEF OncePlaced, NoRepetition
    <3> QED BY <2>1, <2>3, <2>5, <3>1, MoveStep DEF Located
  <2>6. CASE hand[t] # NoJob /\ q' = <<hand[t]>> \o q /\ SavedOrNot
    <3> DEFINE j == hand[t]
    <3>1. j \in Jobs /\ q \in Seq(Jobs)
      BY <1>1, <2>6 DEF TypeOK, Maybe
    <3>2. j \notin ToSet(q) /\ j \notin Leased(inflight) /\ j \in InHand
      BY <1>1, <2>6 DEF OncePlaced, InHand
    <3>3. \A u \in Takers : u # t => hand[u] # j
      BY <1>1, <2>6 DEF OncePlaced
    <3>4. IsInjective(q') /\ ToSet(q') = ToSet(q) \cup {j}
      BY <1>1, <2>6, <3>1, <3>2, EndsOnce DEF OncePlaced, NoRepetition
    <3>5. j # NoJob
      BY <2>6
    <3> HIDE DEF j
    <3>6. NoRepetition(q, inflight)'
      BY <1>1, <2>1, <2>3, <3>2, <3>4 DEF OncePlaced, NoRepetition
    <3>7. OncePlaced(q, hand, inflight)'
      BY <1>1, <2>2, <2>3, <2>4, <3>3, <3>4, <3>5, <3>6 DEF OncePlaced
    <3>8. Located' \subseteq Located
      BY <2>3, <3>2, <3>4 DEF Located
    <3> QED BY <2>1, <2>6, <3>7, <3>8, MoveStep
  <2> QED BY <1>5, <2>5, <2>6 DEF Cancel
<1>6. ASSUME NEW d \in Deliveries, Hold(t, d)
      PROVE  (SinglePlace /\ OnlyUnackedInside /\ FileIfDurable)' /\ Located' \subseteq Located
  <2> DEFINE j == hand[t]
  <2>1. /\ q' = q /\ fate' = fate /\ Saved
        /\ hand' = [hand EXCEPT ![t] = NoJob] /\ inflight' = [inflight EXCEPT ![d] = j]
    BY <1>6 DEF Hold
  <2>2. j # NoJob /\ j \in Jobs
    BY <1>1, <1>6 DEF Hold, HandsFull, TypeOK, Maybe
  <2>3. j \notin ToSet(q) /\ j \notin Leased(inflight) /\ j \in InHand
    BY <1>1, <2>2 DEF OncePlaced, InHand
  <2>4. \A u \in Takers : u # t => hand[u] # j
    BY <1>1, <2>2 DEF OncePlaced
  <2>5. hand'[t] = NoJob /\ \A u \in Takers : u # t => hand'[u] = hand[u]
    BY <1>1, <2>1 DEF TypeOK
  <2>6. inflight'[d] = j /\ \A e \in Deliveries : e # d => inflight'[e] = inflight[e]
    BY <1>1, <2>1 DEF TypeOK
  <2>7. NoJob \notin ToSet(q)
    BY <1>1, ToSetElems, JobsAssumption DEF TypeOK
  <2> HIDE DEF j
  <2>8. \A e \in Deliveries : inflight[e] # j
    BY <2>2, <2>3 DEF Leased
  <2>9. Leased(inflight') \subseteq Leased(inflight) \cup {j} /\ NoJob \notin Leased(inflight')
    BY <2>6 DEF Leased
  <2>10. InHand' \subseteq InHand
    BY <2>5 DEF InHand
  <2>11. NoRepetition(q, inflight)'
    <3>1. \A e, f \in Deliveries : inflight'[e] # NoJob /\ inflight'[e] = inflight'[f] => e = f
      BY <1>1, <2>6, <2>8 DEF OncePlaced, NoRepetition
    <3>2. ToSet(q) \cap Leased(inflight') = {}
      BY <1>1, <2>3, <2>9 DEF OncePlaced, NoRepetition
    <3> QED BY <1>1, <2>1, <3>1, <3>2 DEF OncePlaced, NoRepetition, Leased
  <2>12. OncePlaced(q, hand, inflight)'
    <3>1. \A u \in Takers : hand'[u] \notin ToSet(q) \cup Leased(inflight')
      BY <1>1, <2>4, <2>5, <2>7, <2>9 DEF OncePlaced
    <3>2. \A u, v \in Takers : hand'[u] # NoJob /\ hand'[u] = hand'[v] => u = v
      BY <1>1, <2>5 DEF OncePlaced
    <3> QED BY <2>1, <2>11, <3>1, <3>2 DEF OncePlaced, Leased
  <2>13. Located' \subseteq Located
    BY <2>1, <2>3, <2>9, <2>10 DEF Located, Leased
  <2> QED BY <2>1, <2>12, <2>13, MoveStep DEF SavedOrNot
<1>7. CASE Requeue(t)
  <2> DEFINE j == hand[t]
             hands == [hand EXCEPT ![t] = NoJob]
  <2>1. inflight' = inflight /\ fate' = fate
    BY <1>7 DEF Requeue
  <2>2. j # NoJob /\ j \in Jobs
    BY <1>1, <1>7 DEF Requeue, HandsFull, TypeOK, Maybe
  <2>3. j \notin ToSet(q) /\ j \notin Leased(inflight) /\ j \in InHand
    BY <1>1, <2>2 DEF OncePlaced, InHand
  <2>4. \A u \in Takers : u # t => hand[u] # j
    BY <1>1, <2>2 DEF OncePlaced
  <2>5. hands[t] = NoJob /\ \A u \in Takers : u # t => hands[u] = hand[u]
    BY <1>1 DEF TypeOK
  <2>6. NoJob \notin ToSet(q) \cup Leased(inflight)
    BY <1>1, ToSetElems, JobsAssumption DEF TypeOK, Leased
  <2>7. \/ q' = q /\ hand' = hands /\ disk' = disk
        \/ q' = QueueAfter(<<j>>) /\ hand' = HandsWith(hands, <<j>>) /\ SavedOrNot
    BY <1>7 DEF Requeue
  <2> HIDE DEF j, hands
  <2>8. OncePlaced(q, hands, inflight)
    BY <1>1, <2>5, <2>6 DEF OncePlaced
  <2>9. \A u \in Takers : hands[u] # j /\ hands[u] \in Located \cup {NoJob}
    BY <2>2, <2>4, <2>5 DEF Located, InHand
  <2>10. CASE q' = q /\ hand' = hands /\ disk' = disk
    <3>1. OncePlaced(q, hand, inflight)'
      BY <2>1, <2>8, <2>10 DEF OncePlaced, NoRepetition, Leased
    <3>2. Located' \subseteq Located
      BY <2>1, <2>9, <2>10 DEF Located, InHand, Leased
    <3> QED BY <2>1, <2>10, <3>1, <3>2, MoveStep
  <2>11. CASE q' = QueueAfter(<<j>>) /\ hand' = HandsWith(hands, <<j>>) /\ SavedOrNot
    <3>1. j \in Located /\ Leased(inflight') \subseteq Located
      BY <2>1, <2>3 DEF Located
    <3>2. OncePlaced(q, hands, inflight') /\ j \notin ToSet(q) \cup Leased(inflight')
      BY <2>1, <2>3, <2>8
    <3> QED BY <2>1, <2>2, <2>9, <2>11, <3>1, <3>2, OneMoves
  <2> QED BY <2>7, <2>10, <2>11
<1> QED BY <1>2, <1>3, <1>4, <1>5, <1>6, <1>7 DEF TakerStep

\* So does an Ack, a Nack, or the end of a lease's time.
LEMMA DeliveryPlaces ==
    ASSUME PlacementInv, NEW d \in Deliveries, DeliveryStep(d)
    PROVE  (SinglePlace /\ OnlyUnackedInside /\ FileIfDurable)' /\ Located' \subseteq Located
<1> DEFINE j == inflight[d]
<1>1. TypeOK /\ OncePlaced(q, hand, inflight)
  BY DEF PlacementInv, SinglePlace
<1>2. /\ OncePlaced(q, hand, Without({d})) /\ Leased(Without({d})) \subseteq Leased(inflight)
  BY WithoutOnce DEF PlacementInv
<1>3. j # NoJob => /\ j \in Jobs /\ j \in Leased(inflight) /\ j \notin ToSet(q)
                   /\ j \notin Leased(Without({d}))
                   /\ \A t \in Takers : hand[t] # j
  <2>1. \A e \in Deliveries : Without({d})[e] = j => j = NoJob
    BY <1>1 DEF Without, OncePlaced, NoRepetition
  <2>2. j # NoJob => j \in Jobs /\ j \in Leased(inflight)
    BY <1>1 DEF TypeOK, Maybe, Leased
  <2>3. j \in Leased(inflight) => j \notin ToSet(q) /\ \A t \in Takers : hand[t] # j
    BY <1>1 DEF OncePlaced, NoRepetition
  <2>4. j # NoJob => j \notin Leased(Without({d}))
    BY <2>1 DEF Leased
  <2> QED BY <2>2, <2>3, <2>4
<1>4. CASE Ack(d)
  <2>1. /\ j # NoJob /\ q' = q /\ hand' = hand /\ inflight' = Without({d})
        /\ \/ Saved /\ fate' = [fate EXCEPT ![j] = "acked"]
           \/ SaveFails /\ fate' = [fate EXCEPT ![j] = "unsaved"]
    BY <1>4 DEF Ack
  <2>2. OncePlaced(q, hand, inflight)'
    BY <1>2, <2>1 DEF OncePlaced, NoRepetition, Leased
  <2>3. Located' \subseteq Located /\ j \notin Located'
    BY <1>2, <1>3, <2>1 DEF Located, InHand, Leased
  <2>4. SinglePlace' /\ FileIfDurable' /\ InFile' \subseteq InFile \cup Located'
    BY <2>1, <2>2, FileAfter DEF PlacementInv, SavedOrNot
  <2> HIDE DEF j
  <2>5. CASE Saved /\ fate' = [fate EXCEPT ![j] = "acked"]
    <3>1. InFile' \subseteq Located'
      <4>1. CASE Durable
        <5>1. disk'.q = q' /\ disk'.inflight = inflight'
          BY <2>5, <4>1 DEF Saved
        <5> QED BY <5>1 DEF InFile, Located
      <4>2. CASE ~Durable
        BY <2>4, <4>2 DEF FileIfDurable
      <4> QED BY <4>1, <4>2
    <3>2. \A k \in Jobs : k # j => fate'[k] = fate[k]
      BY <1>1, <2>5 DEF TypeOK
    <3>3. Located \subseteq Jobs
      <4>1. ToSet(q) \subseteq Jobs
        BY <1>1, ToSetElems DEF TypeOK
      <4>2. InHand \subseteq Jobs /\ Leased(inflight) \subseteq Jobs
        BY <1>1 DEF TypeOK, InHand, Leased, Maybe
      <4> QED BY <4>1, <4>2 DEF Located
    <3>4. \A k \in Located : fate[k] \in {"accepted", "unsaved"}
      BY DEF PlacementInv, OnlyUnackedInside
    <3>5. \A k \in Located' \cup InFile' : fate'[k] \in {"accepted", "unsaved"}
      BY <2>3, <3>1, <3>2, <3>3, <3>4
    <3> QED BY <2>3, <2>4, <3>5 DEF OnlyUnackedInside
  <2>6. CASE SaveFails /\ fate' = [fate EXCEPT ![j] = "unsaved"]
    BY <1>1, <2>3, <2>4, <2>6 DEF PlacementInv, OnlyUnackedInside, TypeOK
  <2> QED BY <2>1, <2>3, <2>4, <2>5, <2>6
<1>5. CASE Nack(d)
  <2>1. /\ j # NoJob /\ inflight' = Without({d}) /\ fate' = fate /\ SavedOrNot
        /\ q' = QueueAfter(<<j>>) /\ hand' = HandsWith(hand, <<j>>)
    BY <1>5 DEF Nack, HandAfter
  <2> HIDE DEF j
  <2>2. j \in Located /\ Leased(inflight') \subseteq Located
    BY <1>2, <1>3, <2>1 DEF Located
  <2>3. \A t \in Takers : hand[t] # j /\ hand[t] \in Located \cup {NoJob}
    BY <1>3, <2>1 DEF Located, InHand
  <2>4. OncePlaced(q, hand, inflight') /\ j \notin ToSet(q) \cup Leased(inflight')
    BY <1>2, <1>3, <2>1
  <2> QED BY <1>3, <2>1, <2>2, <2>3, <2>4, OneMoves
<1>6. CASE LeaseElapses(d)
  BY <1>6 DEF LeaseElapses, memory, PlacementInv, SinglePlace, OnlyUnackedInside,
              FileIfDurable, InFile, Located, InHand
<1> QED BY <1>4, <1>5, <1>6 DEF DeliveryStep

\* The inductive step of where the jobs are.
LEMMA PlacementStep == PlacementInv /\ [Next]_vars => PlacementInv'
<1> SUFFICES ASSUME PlacementInv, [Next]_vars PROVE PlacementInv'
  OBVIOUS
<1> DEFINE Placed == SinglePlace /\ OnlyUnackedInside /\ FileIfDurable
<1>1. CASE ExpireLeases
  <2>1. PICK js \in ExpiredJobs : q' = QueueAfter(js) /\ hand' = HandAfter(js)
    BY <1>1 DEF ExpireLeases
  <2>2. inflight' = Without(Expired) /\ fate' = fate /\ SavedOrNot
    BY <1>1 DEF ExpireLeases
  <2> QED BY <2>1, <2>2, ExpiryMoves, TypeStep, HandsFullStep DEF PlacementInv
<1>2. CASE Close
  <2>1. q' = <<>> /\ UNCHANGED <<hand, inflight, disk, fate>>
    BY <1>2 DEF Close
  <2>2. ToSet(q') = {} /\ IsInjective(q')
    BY <2>1 DEF ToSet, IsInjective
  <2>3. OncePlaced(q, hand, inflight)'
    BY <2>1, <2>2 DEF PlacementInv, SinglePlace, OncePlaced, NoRepetition, Leased
  <2>4. Located' \subseteq Located
    BY <2>1, <2>2 DEF Located, InHand, Leased
  <2> QED BY <2>1, <2>3, <2>4, MoveStep, TypeStep, HandsFullStep DEF PlacementInv
<1>3. CASE Restart
  <2>1. /\ q' = disk.q /\ inflight' = disk.inflight /\ hand' = [t \in Takers |-> NoJob]
        /\ UNCHANGED <<disk, fate>>
    BY <1>3 DEF Restart
  <2>2. NoRepetition(disk.q, disk.inflight) /\ TypeOK
    BY DEF PlacementInv, SinglePlace
  <2>3. NoJob \notin ToSet(disk.q) \cup Leased(disk.inflight)
    BY <2>2, ToSetElems, JobsAssumption DEF TypeOK, Snapshots, Leased
  <2>4. SinglePlace'
    BY <2>1, <2>2, <2>3 DEF SinglePlace, OncePlaced, NoRepetition, Leased
  <2>5. Located' = InFile /\ InFile' = InFile
    BY <2>1 DEF Located, InHand, InFile, Leased
  <2>6. OnlyUnackedInside' /\ FileIfDurable'
    BY <2>1, <2>5 DEF PlacementInv, OnlyUnackedInside, FileIfDurable
  <2> QED BY <2>4, <2>6, TypeStep, HandsFullStep DEF PlacementInv
<1>4. CASE UNCHANGED vars
  <2>1. Placed'
    BY <1>4 DEF vars, PlacementInv, SinglePlace, OnlyUnackedInside, FileIfDurable,
                InFile, Located, InHand
  <2> QED BY <2>1, TypeStep, HandsFullStep DEF PlacementInv
<1>5. CASE \/ \E j \in Jobs : Put(j)
           \/ \E t \in Takers : TakerStep(t)
           \/ \E d \in Deliveries : DeliveryStep(d)
  <2>1. Placed'
    BY <1>5, PutPlaces, TakerPlaces, DeliveryPlaces
  <2> QED BY <2>1, TypeStep, HandsFullStep DEF PlacementInv
<1> QED BY <1>1, <1>2, <1>3, <1>4, <1>5 DEF Next

\* Within one life of the process only Put brings a job into the bus: what was
\* acknowledged or dropped stays away.
LEMMA NoneAppears ==
    ASSUME PlacementInv, [Next]_vars, ~Restart
    PROVE  \A j \in Located' : j \in Located \/ fate[j] = "fresh"
<1>1. CASE ExpireLeases
  <2>1. PICK js \in ExpiredJobs : q' = QueueAfter(js) /\ hand' = HandAfter(js)
    BY <1>1 DEF ExpireLeases
  <2>2. inflight' = Without(Expired) /\ fate' = fate /\ SavedOrNot
    BY <1>1 DEF ExpireLeases
  <2> QED BY <2>1, <2>2, ExpiryMoves
<1>2. CASE Close
  BY <1>2 DEF Close, Located, InHand, Leased, ToSet
<1>3. CASE UNCHANGED vars
  BY <1>3 DEF vars, Located, InHand, Leased
<1>4. CASE \/ \E j \in Jobs : Put(j)
           \/ \E t \in Takers : TakerStep(t)
           \/ \E d \in Deliveries : DeliveryStep(d)
  BY <1>4, PutPlaces, TakerPlaces, DeliveryPlaces
<1> QED BY <1>1, <1>2, <1>3, <1>4 DEF Next

\* A job is in at most one place of the bus and of the file, for any number of
\* jobs, takers, leases and restarts, on a disk that fails or not: what
\* deliverLocked, cancelWaiter, requeueExpiredLocked and the rollbacks move
\* between queue, channels and leases they never copy.
THEOREM EachJobOnce == Spec => []SinglePlace
<1>1. PlacementInv => SinglePlace
  BY DEF PlacementInv
<1> QED BY <1>1, PlacementInit, PlacementStep, PTL DEF Spec

\* Only accepted jobs whose Ack has not returned nil are in the bus or in its
\* file: no expiry, late Nack, failed save, cancelled Take or reload brings an
\* acknowledged job back, and none keeps a Put that was refused.
THEOREM AckedGone == Spec => []OnlyUnackedInside
<1>1. PlacementInv => OnlyUnackedInside
  BY DEF PlacementInv
<1> QED BY <1>1, PlacementInit, PlacementStep, PTL DEF Spec

-----------------------------------------------------------------------------
(* No job is lost.                                                         *)

Held(hands) == {hands[t] : t \in Takers} \ {NoJob}

\* deliverLocked drops nothing: what was queued, what came back and what the
\* takers had is queued or in a taker's hands.
LEMMA DeliverKeeps ==
    ASSUME TypeOK, NEW js \in Seq(Jobs), IsInjective(waiters), NEW hands,
           \A t \in ToSet(waiters) : hands[t] = NoJob
    PROVE  ToSet(q) \cup ToSet(js) \cup Held(hands)
              \subseteq ToSet(QueueAfter(js)) \cup Held(HandsWith(hands, js))
<1> DEFINE h == HandOffs(js)
           n == Len(js) - h
           Q == QueueAfter(js)
           H == HandsWith(hands, js)
<1>1. /\ h \in Nat /\ h <= Len(js) /\ h <= Len(waiters)
      /\ Len(js) \in Nat /\ Len(q) \in Nat /\ q \in Seq(Jobs)
      /\ waiters \in Seq(Takers) /\ Len(waiters) \in Nat
  BY HandOffsBound, LenProperties DEF TypeOK
<1>2. /\ ToSet(q) = {q[i] : i \in 1..Len(q)} /\ ToSet(js) = {js[i] : i \in 1..Len(js)}
      /\ ToSet(js) \subseteq Jobs /\ NoJob \notin Jobs
  BY <1>1, ToSetElems, JobsAssumption
<1>3. /\ Len(Q) = n + Len(q) /\ n \in Nat
      /\ \A i \in 1 .. n + Len(q) : Q[i] = IF i <= n THEN js[Len(js) + 1 - i] ELSE q[i - n]
  BY QueueAfterElems
<1>4. Q \in Seq(Jobs)
  BY AfterTypes
<1>5. /\ \A i \in 1..h : H[waiters[i]] = js[i]
      /\ \A t \in Takers : t \notin ToSet(waiters) => H[t] = hands[t]
  BY DeliverWakes
<1>6. \A i \in 1..Len(waiters) : waiters[i] \in Takers
  BY <1>1, ElementOfSeq
<1> HIDE DEF h, Q, H
<1>7. ToSet(Q) = {Q[i] : i \in 1 .. n + Len(q)}
  BY <1>3, <1>4, ToSetElems
<1>8. ASSUME NEW i \in 1..Len(q) PROVE q[i] \in ToSet(Q)
  <2> DEFINE k == n + i
  <2>1. k \in 1 .. n + Len(q) /\ ~(k <= n) /\ k - n = i
    BY <1>1, <1>3
  <2> HIDE DEF k
  <2>2. Q[k] = q[i]
    BY <1>3, <2>1
  <2> QED BY <1>7, <2>1, <2>2
<1>9. ASSUME NEW i \in 1..Len(js) PROVE js[i] \in ToSet(Q) \cup Held(H)
  <2>1. CASE i <= h
    <3>1. i \in 1..h /\ waiters[i] \in Takers
      BY <1>1, <1>6, <2>1
    <3>2. H[waiters[i]] = js[i] /\ js[i] # NoJob
      BY <1>2, <1>5, <3>1
    <3> QED BY <3>1, <3>2 DEF Held
  <2>2. CASE i > h
    <3> DEFINE k == Len(js) + 1 - i
    <3>1. k \in 1 .. n + Len(q) /\ k <= n /\ Len(js) + 1 - k = i
      BY <1>1, <1>3, <2>2
    <3> HIDE DEF k
    <3>2. Q[k] = js[i]
      BY <1>3, <3>1
    <3> QED BY <1>7, <3>1, <3>2
  <2> QED BY <1>1, <2>1, <2>2
<1>10. Held(hands) \subseteq Held(H)
  BY <1>5 DEF Held
<1>11. ToSet(q) \subseteq ToSet(Q) /\ ToSet(js) \subseteq ToSet(Q) \cup Held(H)
  BY <1>2, <1>8, <1>9
<1> QED BY <1>10, <1>11 DEF Q, H

\* Every expired lease gives its job back.
LEMMA ExpiredAll ==
    ASSUME NEW js \in ExpiredJobs
    PROVE  Leased(inflight) \subseteq Leased(Without(Expired)) \cup ToSet(js)
<1> DEFINE n == Cardinality(Expired)
<1>1. PICK s \in Orders(Expired) : js = LeasedBy(s)
  BY DEF ExpiredJobs
<1>2. s \in Injection(1..n, Expired)
  BY <1>1 DEF Orders, Injection
<1>3. IsFiniteSet(Expired) /\ n \in Nat
  BY DeliveriesAssumption, FS_Subset, FS_CardinalityType DEF Expired
<1> HIDE DEF n
<1>4. Cardinality(1..n) = n
  BY <1>3, FS_Interval
<1>5. s \in Surjection(1..n, Expired)
  BY <1>2, <1>3, <1>4, FS_Injection DEF n
<1>6. \A d \in Expired : \E i \in 1..n : s[i] = d
  BY <1>5 DEF Surjection
<1>7. DOMAIN s = 1..n
  BY <1>2 DEF Injection
<1>8. \A i \in 1..n : js[i] = inflight[s[i]] /\ i \in DOMAIN js
  BY <1>1, <1>7 DEF LeasedBy
<1>9. ASSUME NEW d \in Deliveries, inflight[d] # NoJob
      PROVE  inflight[d] \in Leased(Without(Expired)) \cup ToSet(js)
  <2>1. CASE d \in Expired
    <3>1. PICK i \in 1..n : s[i] = d
      BY <1>6, <2>1
    <3> QED BY <1>8, <3>1 DEF ToSet
  <2>2. CASE d \notin Expired
    BY <1>9, <2>2 DEF Without, Leased
  <2> QED BY <2>1, <2>2
<1> QED BY <1>9 DEF Leased

\* A requeue of expired jobs drops none.
LEMMA ExpiredKept ==
    ASSUME TypeOK, WaitersWait, NEW js \in ExpiredJobs
    PROVE  Located \subseteq ToSet(QueueAfter(js)) \cup Held(HandAfter(js))
                                \cup Leased(Without(Expired))
<1>1. ToSet(q) \cup ToSet(js) \cup Held(hand)
         \subseteq ToSet(QueueAfter(js)) \cup Held(HandAfter(js))
  BY ExpiredJobsSeq, DeliverKeeps DEF WaitersWait, HandAfter
<1> QED BY <1>1, ExpiredAll DEF Located, InHand, Held

\* What is in a sequence is its head or in its tail.
LEMMA HeadOrTail ==
    ASSUME NEW s \in Seq(Jobs), s # <<>>
    PROVE  ToSet(s) = {Head(s)} \cup ToSet(Tail(s))
<1>1. /\ Tail(s) \in Seq(Jobs) /\ Len(s) \in Nat /\ Len(s) >= 1
      /\ Len(Tail(s)) = Len(s) - 1
      /\ \A i \in 1 .. Len(s) - 1 : Tail(s)[i] = s[i + 1]
      /\ Head(s) = s[1]
  BY HeadTailProperties, LenProperties, EmptySeq
<1>2. /\ ToSet(s) = {s[i] : i \in 1..Len(s)}
      /\ ToSet(Tail(s)) = {Tail(s)[i] : i \in 1 .. Len(s) - 1}
  BY <1>1, ToSetElems
<1>3. ASSUME NEW i \in 1..Len(s), i # 1 PROVE s[i] \in ToSet(Tail(s))
  <2> DEFINE k == i - 1
  <2>1. k \in 1 .. Len(s) - 1 /\ k + 1 = i
    BY <1>1, <1>3
  <2> HIDE DEF k
  <2> QED BY <1>1, <1>2, <2>1
<1>4. \A i \in 1 .. Len(s) - 1 : i + 1 \in 1..Len(s)
  BY <1>1
<1>5. 1 \in 1..Len(s)
  BY <1>1
<1>6. ToSet(s) \subseteq {Head(s)} \cup ToSet(Tail(s))
  BY <1>1, <1>2, <1>3
<1>7. {Head(s)} \cup ToSet(Tail(s)) \subseteq ToSet(s)
  BY <1>1, <1>2, <1>4, <1>5
<1> QED BY <1>6, <1>7

\* Nor does a pop behind it: the taker that gets the head has nothing yet.
LEMMA PopKeeps ==
    ASSUME TypeOK, WaitersWait, NEW js \in ExpiredJobs, NEW t \in Takers, NEW next,
           pc[t] = "idle", Pop(t, js, next), inflight' = Without(Expired)
    PROVE  Located \subseteq Located'
<1> DEFINE Q == QueueAfter(js)
           H == HandAfter(js)
<1>1. Located \subseteq ToSet(Q) \cup Held(H) \cup Leased(Without(Expired))
  BY ExpiredKept
<1>2. js \in Seq(Jobs)
  BY ExpiredJobsSeq
<1>3. Q \in Seq(Jobs) /\ H \in [Takers -> Maybe] /\ Q # <<>>
  BY <1>2, AfterTypes DEF Pop
<1>4. H[t] = NoJob
  <2>1. hand[t] = NoJob /\ t \notin ToSet(waiters)
    BY DEF WaitersWait
  <2> QED BY <1>2, <2>1, DeliverWakes DEF HandAfter, WaitersWait
<1>5. \/ q' = Tail(Q) /\ hand' = [H EXCEPT ![t] = Head(Q)]
      \/ q' = Q /\ hand' = H
  BY DEF Pop
<1> HIDE DEF Q, H
<1>6. CASE q' = Tail(Q) /\ hand' = [H EXCEPT ![t] = Head(Q)]
  <2>1. ToSet(Q) \subseteq {Head(Q)} \cup ToSet(Tail(Q))
    BY <1>3, HeadOrTail
  <2>2. Head(Q) \in Jobs
    BY <1>3, HeadTailProperties
  <2>3. hand'[t] = Head(Q) /\ Head(Q) # NoJob
    BY <1>3, <1>6, <2>2, JobsAssumption
  <2>4. \A u \in Takers : u # t => hand'[u] = H[u]
    BY <1>3, <1>6
  <2>5. Held(H) \cup {Head(Q)} \subseteq InHand'
    BY <1>4, <2>3, <2>4 DEF Held, InHand
  <2> QED BY <1>1, <1>6, <2>1, <2>5 DEF Located, Leased
<1>7. CASE q' = Q /\ hand' = H
  BY <1>1, <1>7 DEF Located, InHand, Held, Leased
<1> QED BY <1>5, <1>6, <1>7

\* A job put in front of the queue.
LEMMA PrependSet ==
    ASSUME NEW s \in Seq(Jobs), NEW j \in Jobs
    PROVE  ToSet(<<j>> \o s) = {j} \cup ToSet(s)
<1> DEFINE f == <<j>> \o s
<1>1. /\ f \in Seq(Jobs) /\ Len(s) \in Nat /\ Len(f) = Len(s) + 1 /\ f[1] = j
      /\ \A i \in 1..Len(s) : f[i + 1] = s[i]
  BY ConcatProperties, LenProperties
<1> HIDE DEF f
<1>2. f # <<>> /\ Head(f) = j
  BY <1>1, EmptySeq
<1>3. Tail(f) = s
  <2>1. /\ Tail(f) \in Seq(Jobs) /\ Len(Tail(f)) = Len(s)
        /\ \A i \in 1..Len(s) : Tail(f)[i] = s[i]
    BY <1>1, <1>2, HeadTailProperties
  <2> QED BY <2>1, SeqEqual
<1> QED BY <1>1, <1>2, <1>3, HeadOrTail DEF f

\* A job put behind it.
LEMMA AppendSet ==
    ASSUME NEW s \in Seq(Jobs), NEW j \in Jobs
    PROVE  ToSet(Append(s, j)) = ToSet(s) \cup {j}
<1> DEFINE f == Append(s, j)
<1>1. /\ f \in Seq(Jobs) /\ Len(f) = Len(s) + 1 /\ f[Len(s) + 1] = j
      /\ \A i \in 1..Len(s) : f[i] = s[i]
      /\ Len(s) \in Nat
  BY AppendProperties, LenProperties
<1> HIDE DEF f
<1>2. /\ ToSet(s) = {s[i] : i \in 1..Len(s)}
      /\ ToSet(f) = {f[i] : i \in 1 .. Len(s) + 1}
  BY <1>1, ToSetElems
<1>3. /\ \A i \in 1 .. Len(s) + 1 : i \in 1..Len(s) \/ i = Len(s) + 1
      /\ 1..Len(s) \subseteq 1 .. Len(s) + 1 /\ Len(s) + 1 \in 1 .. Len(s) + 1
  BY <1>1
<1>4. ToSet(f) \subseteq ToSet(s) \cup {j}
  BY <1>1, <1>2, <1>3
<1>5. ToSet(s) \cup {j} \subseteq ToSet(f)
  BY <1>1, <1>2, <1>3
<1> QED BY <1>4, <1>5 DEF f

\* A delivery id in use, in memory or in the file, was issued by newID: Hold
\* never overwrites a lease.
LeasesIssued ==
    \A d \in Deliveries : inflight[d] # NoJob \/ disk.inflight[d] # NoJob => d \in issued

\* Only Hold leases under a new id, and it issues that id.
LEMMA IssuedStep == TypeOK /\ LeasesIssued /\ [Next]_vars => LeasesIssued'
<1> SUFFICES ASSUME TypeOK, LeasesIssued, [Next]_vars PROVE LeasesIssued'
  OBVIOUS
<1>1. ASSUME SavedOrNot \/ UNCHANGED disk, issued \subseteq issued',
             \A d \in Deliveries : inflight'[d] # NoJob => d \in issued'
      PROVE  LeasesIssued'
  BY <1>1 DEF SavedOrNot, Saved, SaveFails, LeasesIssued
<1>2. \A ds : \A d \in Deliveries : Without(ds)[d] # NoJob => d \in issued
  BY DEF Without, LeasesIssued
<1>3. ASSUME NEW j \in Jobs, Put(j) PROVE LeasesIssued'
  <2>1. UNCHANGED <<inflight, issued>> /\ (SavedOrNot \/ UNCHANGED disk)
    BY <1>3 DEF Put, PutMerges, PutHandsOff, PutQueues, PutRefused, memory, vars, SavedOrNot
  <2> QED BY <1>1, <2>1 DEF LeasesIssued
<1>4. ASSUME NEW t \in Takers, TakerStep(t) PROVE LeasesIssued'
  <2>1. CASE TakeChan(t) \/ TryTake(t)
    <3>1. inflight' = Without(Expired) /\ issued' = issued
      BY <2>1 DEF TakeChan, TryTake
    <3>2. SavedOrNot \/ UNCHANGED disk
      BY <2>1 DEF TakeChan, TryTake, Pop, SavedOrNot
    <3> QED BY <1>1, <1>2, <3>1, <3>2
  <2>2. CASE Receive(t) \/ TakeFails(t) \/ Cancel(t) \/ HoldFails(t) \/ Requeue(t)
    <3>1. UNCHANGED <<inflight, issued>> /\ (SavedOrNot \/ UNCHANGED disk)
      BY <2>2 DEF Receive, TakeFails, Cancel, HoldFails, Requeue
    <3> QED BY <1>1, <3>1 DEF LeasesIssued
  <2>3. ASSUME NEW d \in Deliveries, Hold(t, d) PROVE LeasesIssued'
    <3>1. inflight' = [inflight EXCEPT ![d] = hand[t]] /\ issued' = issued \cup {d} /\ Saved
      BY <2>3 DEF Hold
    <3>2. \A e \in Deliveries : inflight'[e] # NoJob => e \in issued'
      BY <3>1 DEF LeasesIssued, TypeOK
    <3> QED BY <1>1, <3>1, <3>2 DEF SavedOrNot
  <2> QED BY <1>4, <2>1, <2>2, <2>3 DEF TakerStep
<1>5. ASSUME NEW d \in Deliveries, DeliveryStep(d) PROVE LeasesIssued'
  <2>1. (inflight' = Without({d}) \/ inflight' = inflight) /\ issued' = issued
        /\ (SavedOrNot \/ UNCHANGED disk)
    BY <1>5 DEF DeliveryStep, Ack, Nack, LeaseElapses, memory, SavedOrNot
  <2> QED BY <1>1, <1>2, <2>1 DEF LeasesIssued
<1>6. CASE ExpireLeases
  BY <1>1, <1>2, <1>6 DEF ExpireLeases
<1>7. CASE Close
  BY <1>7 DEF Close, LeasesIssued
<1>8. CASE Restart
  BY <1>8 DEF Restart, LeasesIssued
<1>9. CASE UNCHANGED vars
  BY <1>9 DEF vars, LeasesIssued
<1> QED BY <1>3, <1>4, <1>5, <1>6, <1>7, <1>8, <1>9 DEF Next

\* The delivery ids in use were issued.
LEMMA IssuedInv == Spec => []LeasesIssued
<1>1. Init => LeasesIssued
  BY DEF Init, NoLeases, LeasesIssued
<1>2. TypeOK /\ LeasesIssued /\ [Next]_vars => LeasesIssued'
  BY IssuedStep
<1> QED BY <1>1, <1>2, TypeCorrect, PTL DEF Spec

\* Only a restart opens a closed bus, and only a restart counts as one.
LEMMA RestartOrNot ==
    ASSUME Next, ~Restart
    PROVE  restarts' = restarts /\ (closed => closed')
<1>1. ASSUME NEW j \in Jobs, Put(j) PROVE UNCHANGED <<closed, restarts>>
  BY <1>1 DEF Put, PutMerges, PutHandsOff, PutQueues, PutRefused, memory, vars
<1>2. ASSUME NEW t \in Takers, TakerStep(t) PROVE UNCHANGED <<closed, restarts>>
  BY <1>2 DEF TakerStep, TakeChan, TryTake, Receive, TakeFails, Cancel, Hold, HoldFails, Requeue
<1>3. ASSUME NEW d \in Deliveries, DeliveryStep(d) PROVE UNCHANGED <<closed, restarts>>
  BY <1>3 DEF DeliveryStep, Ack, Nack, LeaseElapses, memory
<1> QED BY <1>1, <1>2, <1>3 DEF Next, ExpireLeases, Close

\* While the bus stays open, no step but an Ack takes a job out of it.
LEMMA JobsStay ==
    ASSUME TypeOK, WaitersWait, LeasesIssued, Next, ~closed', restarts' = restarts
    PROVE  \A j \in Located : j \in Located' \/ fate'[j] \in {"acked", "unsaved"}
<1>1. NoJob \notin Jobs /\ hand \in [Takers -> Maybe] /\ waiters \in Seq(Takers)
  BY JobsAssumption DEF TypeOK
<1>2. restarts \in Nat
  BY LimitsAssumption DEF TypeOK
<1>3. ASSUME NEW j \in Jobs, Put(j) PROVE Located \subseteq Located'
  <2>1. CASE PutHandsOff(j)
    <3>1. /\ waiters # <<>> /\ q' = q /\ inflight' = inflight
          /\ hand' = [hand EXCEPT ![Head(waiters)] = j]
      BY <2>1 DEF PutHandsOff
    <3>2. Head(waiters) \in ToSet(waiters)
      BY <1>1, <3>1, HeadApart DEF WaitersWait
    <3>3. hand[Head(waiters)] = NoJob
      BY <3>2 DEF WaitersWait
    <3>4. InHand \subseteq InHand'
      BY <1>1, <3>1, <3>3 DEF InHand
    <3> QED BY <3>1, <3>4 DEF Located
  <2>2. CASE PutQueues(j)
    <3>1. q' = Append(q, j) /\ UNCHANGED <<hand, inflight>>
      BY <2>2 DEF PutQueues
    <3>2. ToSet(Append(q, j)) = ToSet(q) \cup {j}
      BY AppendSet DEF TypeOK
    <3> QED BY <3>1, <3>2 DEF Located, InHand
  <2>3. CASE PutMerges(j) \/ PutRefused(j)
    BY <2>3 DEF PutMerges, PutRefused, memory, vars, Located, InHand
  <2> QED BY <1>3, <2>1, <2>2, <2>3 DEF Put
<1>4. ASSUME NEW t \in Takers, TakerStep(t) PROVE Located \subseteq Located'
  <2>1. CASE TakeChan(t)
    <3>1. inflight' = Without(Expired) /\ pc[t] = "idle"
      BY <2>1 DEF TakeChan
    <3>2. PICK js \in ExpiredJobs :
             \/ Pop(t, js, "wait")
             \/ q' = <<>> /\ QueueAfter(js) = <<>> /\ hand' = HandAfter(js)
      BY <2>1 DEF TakeChan
    <3>3. CASE Pop(t, js, "wait")
      BY <3>1, <3>3, PopKeeps
    <3>4. CASE q' = <<>> /\ QueueAfter(js) = <<>> /\ hand' = HandAfter(js)
      BY <3>1, <3>4, ExpiredKept DEF Located, InHand, Held, Leased
    <3> QED BY <3>2, <3>3, <3>4
  <2>2. CASE TryTake(t)
    <3>1. inflight' = Without(Expired) /\ pc[t] = "idle"
      BY <2>2 DEF TryTake
    <3>2. PICK js \in ExpiredJobs :
             \/ Pop(t, js, "got")
             \/ q' = <<>> /\ QueueAfter(js) = <<>> /\ hand' = HandAfter(js)
      BY <2>2 DEF TryTake
    <3>3. CASE Pop(t, js, "got")
      BY <3>1, <3>3, PopKeeps
    <3>4. CASE q' = <<>> /\ QueueAfter(js) = <<>> /\ hand' = HandAfter(js)
      BY <3>1, <3>4, ExpiredKept DEF Located, InHand, Held, Leased
    <3> QED BY <3>2, <3>3, <3>4
  <2>3. CASE Receive(t) \/ TakeFails(t) \/ HoldFails(t)
    BY <2>3 DEF Receive, TakeFails, HoldFails, Located, InHand
  <2>4. CASE Cancel(t)
    <3>1. /\ hand' = [hand EXCEPT ![t] = NoJob] /\ inflight' = inflight
          /\ \/ hand[t] = NoJob /\ q' = q
             \/ hand[t] # NoJob /\ q' = <<hand[t]>> \o q
      BY <2>4 DEF Cancel
    <3>2. InHand \subseteq InHand' \cup ({hand[t]} \ {NoJob})
      BY <1>1, <3>1 DEF InHand
    <3>3. CASE hand[t] # NoJob /\ q' = <<hand[t]>> \o q
      <4>1. hand[t] \in Jobs /\ q \in Seq(Jobs)
        BY <1>1, <3>3 DEF TypeOK, Maybe
      <4>2. ToSet(<<hand[t]>> \o q) = {hand[t]} \cup ToSet(q)
        BY <4>1, PrependSet
      <4> QED BY <3>1, <3>2, <3>3, <4>2 DEF Located
    <3> QED BY <3>1, <3>2, <3>3 DEF Located
  <2>5. ASSUME NEW d \in Deliveries, Hold(t, d)
        PROVE  Located \subseteq Located'
    <3>0. inflight[d] = NoJob
      BY <2>5 DEF Hold, LeasesIssued
    <3>1. /\ q' = q /\ hand' = [hand EXCEPT ![t] = NoJob]
          /\ inflight' = [inflight EXCEPT ![d] = hand[t]]
      BY <2>5 DEF Hold
    <3>2. inflight \in [Deliveries -> Maybe]
      BY DEF TypeOK
    <3>3. InHand \subseteq InHand' \cup ({hand[t]} \ {NoJob})
      BY <1>1, <3>1 DEF InHand
    <3>4. Leased(inflight) \cup ({hand[t]} \ {NoJob}) \subseteq Leased(inflight')
      BY <3>0, <3>1, <3>2 DEF Leased
    <3> QED BY <3>1, <3>3, <3>4 DEF Located
  <2>6. CASE Requeue(t)
    <3> DEFINE js == <<hand[t]>>
               hands == [hand EXCEPT ![t] = NoJob]
    <3>1. ~closed
      BY <2>6 DEF Requeue
    <3>2. hand[t] \in Jobs /\ js \in Seq(Jobs) /\ ToSet(js) = {hand[t]}
      <4>1. hand[t] # NoJob
        BY <2>6 DEF Requeue, WaitersWait, HandsFull
      <4> QED BY <4>1 DEF TypeOK, Maybe, ToSet
    <3>3. \A u \in ToSet(waiters) : hands[u] = NoJob
      <4>1. ToSet(waiters) \subseteq Takers
        BY <1>1, SeqElems
      <4> QED BY <1>1, <4>1 DEF WaitersWait
    <3>4. InHand \subseteq Held(hands) \cup {hand[t]}
      BY <1>1 DEF InHand, Held
    <3> HIDE DEF hands, js
    <3>5. ToSet(q) \cup ToSet(js) \cup Held(hands)
             \subseteq ToSet(QueueAfter(js)) \cup Held(HandsWith(hands, js))
      BY <3>2, <3>3, DeliverKeeps DEF WaitersWait
    <3>6. q' = QueueAfter(js) /\ hand' = HandsWith(hands, js) /\ inflight' = inflight
      BY <2>6, <3>1 DEF Requeue, js, hands
    <3> QED BY <3>2, <3>4, <3>5, <3>6 DEF Located, InHand, Held
  <2> QED BY <1>4, <2>1, <2>2, <2>3, <2>4, <2>5, <2>6 DEF TakerStep
<1>5. ASSUME NEW d \in Deliveries, DeliveryStep(d)
      PROVE  \A j \in Located : j \in Located' \/ fate'[j] \in {"acked", "unsaved"}
  <2>1. CASE Ack(d)
    <3>1. /\ inflight[d] # NoJob /\ inflight' = Without({d}) /\ UNCHANGED <<q, hand>>
          /\ \/ fate' = [fate EXCEPT ![inflight[d]] = "acked"]
             \/ fate' = [fate EXCEPT ![inflight[d]] = "unsaved"]
      BY <2>1 DEF Ack
    <3>2. inflight[d] \in Jobs /\ fate \in [Jobs -> Fates]
      BY <3>1 DEF TypeOK, Maybe
    <3>3. Leased(inflight) \subseteq Leased(inflight') \cup {inflight[d]}
      BY <3>1 DEF Leased, Without
    <3>4. fate'[inflight[d]] \in {"acked", "unsaved"}
      BY <3>1, <3>2
    <3> QED BY <3>1, <3>3, <3>4 DEF Located, InHand
  <2>2. CASE Nack(d)
    <3> DEFINE js == <<inflight[d]>>
    <3>1. /\ inflight[d] # NoJob /\ inflight' = Without({d})
          /\ q' = QueueAfter(js) /\ hand' = HandAfter(js)
      BY <2>2 DEF Nack
    <3>2. js \in Seq(Jobs) /\ ToSet(js) = {inflight[d]}
      BY <3>1 DEF TypeOK, Maybe, ToSet
    <3>3. Leased(inflight) \subseteq Leased(inflight') \cup {inflight[d]}
      BY <3>1 DEF Leased, Without
    <3> HIDE DEF js
    <3>4. ToSet(q) \cup ToSet(js) \cup Held(hand)
             \subseteq ToSet(QueueAfter(js)) \cup Held(HandAfter(js))
      BY <3>2, DeliverKeeps DEF WaitersWait, HandAfter
    <3>5. Located' = ToSet(QueueAfter(js)) \cup Held(HandAfter(js)) \cup Leased(inflight')
      BY <3>1 DEF Located, InHand, Held, js, Leased
    <3>6. Located = ToSet(q) \cup Held(hand) \cup Leased(inflight)
      BY DEF Located, InHand, Held
    <3> QED BY <3>2, <3>3, <3>4, <3>5, <3>6
  <2>3. CASE LeaseElapses(d)
    <3>1. UNCHANGED <<q, hand, inflight>>
      BY <2>3 DEF LeaseElapses, memory
    <3> QED BY <3>1 DEF Located, InHand
  <2> QED BY <1>5, <2>1, <2>2, <2>3 DEF DeliveryStep
<1>6. CASE ExpireLeases
  <2>1. PICK js \in ExpiredJobs : q' = QueueAfter(js) /\ hand' = HandAfter(js)
    BY <1>6 DEF ExpireLeases
  <2>2. inflight' = Without(Expired)
    BY <1>6 DEF ExpireLeases
  <2> QED BY <2>1, <2>2, ExpiredKept DEF Located, InHand, Held, Leased
<1>7. ~Close /\ ~Restart
  BY <1>2 DEF Close, Restart
<1> QED BY <1>3, <1>4, <1>5, <1>6, <1>7 DEF Next

\* No accepted job is lost: the last of a bus's jobs that no Ack finished is in
\* the bus while it is open and was not restarted (NoJobLost).
THEOREM NoneLost == Spec => []NoJobLost
<1>1. Init => NoJobLost
  BY DEF Init, NoJobLost
<1>2. TypeOK /\ WaitersWait /\ LeasesIssued /\ NoJobLost /\ [Next]_vars => NoJobLost'
  <2> SUFFICES ASSUME TypeOK, WaitersWait, LeasesIssued, NoJobLost, [Next]_vars
               PROVE  NoJobLost'
    OBVIOUS
  <2>2. ASSUME UNCHANGED vars PROVE NoJobLost'
    <3>1. UNCHANGED <<closed, q, hand, inflight, fate, restarts>>
      BY <2>2 DEF vars
    <3> QED BY <3>1 DEF NoJobLost, Located, InHand
  <2>3. ASSUME Next, ~closed', restarts' = 0, NEW j \in Jobs, fate'[j] = "accepted"
        PROVE  j \in Located'
    <3>1. restarts = 0 /\ ~closed
      <4>1. restarts \in Nat
        BY LimitsAssumption DEF TypeOK
      <4>2. CASE Restart
        BY <2>3, <4>1, <4>2 DEF Restart
      <4>3. CASE ~Restart
        BY <2>3, <4>3, RestartOrNot
      <4> QED BY <4>2, <4>3
    <3>2. CASE fate[j] = "accepted"
      <4>1. j \in Located
        BY <3>1, <3>2 DEF NoJobLost
      <4> QED BY <2>3, <3>1, <4>1, JobsStay
    <3>3. CASE fate[j] # "accepted"
      <4>1. fate \in [Jobs -> Fates]
        BY DEF TypeOK
      <4>2. PutHandsOff(j) \/ PutQueues(j)
        BY <2>3, <3>3, <4>1 DEF Next, Put, PutMerges, PutHandsOff, PutQueues, PutRefused, memory,
           vars, TakerStep, TakeChan, TryTake, Receive, TakeFails, Cancel, Hold, HoldFails, Requeue,
           DeliveryStep, Ack, Nack, LeaseElapses, ExpireLeases, Close, Restart
      <4>3. CASE PutHandsOff(j)
        <5>1. Head(waiters) \in Takers /\ hand' = [hand EXCEPT ![Head(waiters)] = j]
              /\ hand \in [Takers -> Maybe] /\ j # NoJob
          BY <4>3, HeadTailProperties, JobsAssumption DEF PutHandsOff, TypeOK
        <5>2. hand'[Head(waiters)] = j
          BY <5>1
        <5> QED BY <5>1, <5>2 DEF Located, InHand
      <4>4. CASE PutQueues(j)
        <5>1. q' = Append(q, j) /\ q \in Seq(Jobs)
          BY <4>4 DEF PutQueues, TypeOK
        <5>3. j \in ToSet(q')
          BY <5>1, AppendSet
        <5> QED BY <5>3 DEF Located
      <4> QED BY <4>2, <4>3, <4>4
    <3> QED BY <3>2, <3>3
  <2> QED BY <2>2, <2>3 DEF NoJobLost
<1> QED BY <1>1, <1>2, TypeCorrect, WaitersAgree, IssuedInv, PTL DEF Spec

\* On a disk that works the file has whatever is queued or leased
\* (QueuedOrLeasedIsSaved): a step that does not save only takes jobs out, into
\* the hands of takers, and a reload takes what the file has.
THEOREM MemorySaved == Spec => []QueuedOrLeasedIsSaved
<1>1. Init => QueuedOrLeasedIsSaved
  BY DEF Init, QueuedOrLeasedIsSaved, InFile
<1>2. QueuedOrLeasedIsSaved /\ [Next]_vars => QueuedOrLeasedIsSaved'
  <2> SUFFICES ASSUME QueuedOrLeasedIsSaved, [Next]_vars, Durable, ~DiskFaults
               PROVE  ToSet(q') \cup Leased(inflight') \subseteq InFile'
    BY DEF QueuedOrLeasedIsSaved, Leased
  <2>1. ToSet(q) \cup Leased(inflight) \subseteq InFile
    BY DEF QueuedOrLeasedIsSaved
  <2>2. ASSUME SavedOrNot
        PROVE  ToSet(q') \cup Leased(inflight') \subseteq InFile'
    BY <2>2 DEF SavedOrNot, Saved, SaveFails, InFile, Leased
  <2>3. ASSUME UNCHANGED disk, ToSet(q') \subseteq ToSet(q),
               Leased(inflight') \subseteq Leased(inflight)
        PROVE  ToSet(q') \cup Leased(inflight') \subseteq InFile'
    BY <2>1, <2>3 DEF InFile
  <2>4. \A ds : Leased(Without(ds)) \subseteq Leased(inflight)
    BY DEF Leased, Without
  <2>5. ToSet(<<>>) = {}
    BY DEF ToSet
  <2>6. ASSUME NEW j \in Jobs, Put(j)
        PROVE  SavedOrNot \/ UNCHANGED <<q, inflight, disk>>
    BY <2>6 DEF Put, PutMerges, PutHandsOff, PutQueues, PutRefused, SavedOrNot, memory, vars
  <2>7. ASSUME NEW t \in Takers, TakerStep(t)
        PROVE  \/ SavedOrNot \/ UNCHANGED <<q, inflight, disk>>
               \/ q' = <<>> /\ inflight' = Without(Expired) /\ UNCHANGED disk
    BY <2>7 DEF TakerStep, TakeChan, TryTake, Pop, Receive, TakeFails, Cancel, Hold, HoldFails,
                Requeue, SavedOrNot
  <2>8. ASSUME NEW d \in Deliveries, DeliveryStep(d)
        PROVE  SavedOrNot \/ UNCHANGED <<q, inflight, disk>>
    BY <2>8 DEF DeliveryStep, Ack, Nack, LeaseElapses, memory, SavedOrNot
  <2>9. ExpireLeases => SavedOrNot
    BY DEF ExpireLeases
  <2>10. Close => q' = <<>> /\ UNCHANGED <<inflight, disk>>
    BY DEF Close
  <2>11. ASSUME Restart
         PROVE  ToSet(q') \cup Leased(inflight') \subseteq InFile'
    BY <2>11 DEF Restart, InFile
  <2>12. \/ SavedOrNot \/ UNCHANGED <<q, inflight, disk>> \/ Restart
         \/ q' = <<>> /\ (inflight' = Without(Expired) \/ inflight' = inflight) /\ UNCHANGED disk
    BY <2>6, <2>7, <2>8, <2>9, <2>10 DEF Next, vars
  <2> QED BY <2>2, <2>3, <2>4, <2>5, <2>11, <2>12 DEF Leased
<1> QED BY <1>1, <1>2, PTL DEF Spec
-----------------------------------------------------------------------------
(* Jobs beside waiters.                                                    *)

\* What deliverLocked leaves in the queue beside a waiter was there before.
LEMMA DeliverStrands ==
    ASSUME TypeOK, NEW js \in Seq(Jobs), QueueAfter(js) # <<>>, WaitersAfter(js) # <<>>
    PROVE  Stranded
<1> DEFINE h == HandOffs(js)
<1>1. /\ Len(waiters) \in Nat /\ Len(js) \in Nat /\ Len(q) \in Nat /\ h \in Nat
      /\ h <= Len(js) /\ h <= Len(waiters) /\ (h < Len(js) => h = Len(waiters))
      /\ q \in Seq(Jobs) /\ waiters \in Seq(Takers)
  BY HandOffsBound, LenProperties DEF TypeOK
<1>2. QueueAfter(js) \in Seq(Jobs) /\ WaitersAfter(js) \in Seq(Takers)
  BY AfterTypes
<1>3. Len(WaitersAfter(js)) = Len(waiters) - h /\ Len(QueueAfter(js)) = Len(js) - h + Len(q)
  BY WaitersAfterElems, QueueAfterElems
<1> HIDE DEF h
<1>4. Len(WaitersAfter(js)) > 0 /\ Len(QueueAfter(js)) > 0
  BY <1>2, <1>3, <1>1, EmptySeq
<1>5. Len(waiters) > 0 /\ Len(q) > 0
  BY <1>1, <1>3, <1>4
<1> QED BY <1>1, <1>5, EmptySeq DEF Stranded

\* A job comes to lie beside a waiting taker only when a Take is cancelled that had
\* its job already: every other way into the queue looks for a waiter first, and
\* every way to wait for a job.
THEOREM NoneStranded == Spec => StrandedOnlyByCancel
<1>1. TypeOK /\ WaitersWait /\ [Next]_vars
        => [Stranded' /\ ~Stranded =>
               \E t \in Takers : /\ pc[t] = "wait" /\ pc'[t] = "idle"
                                 /\ hand[t] # NoJob /\ Head(q') = hand[t]]_vars
  <2> SUFFICES ASSUME TypeOK, WaitersWait, Next, Stranded', ~Stranded
               PROVE  \E t \in Takers : /\ pc[t] = "wait" /\ pc'[t] = "idle"
                                        /\ hand[t] # NoJob /\ Head(q') = hand[t]
    OBVIOUS
  <2>1. q' # <<>> /\ waiters' # <<>> /\ ~(q # <<>> /\ waiters # <<>>)
    BY DEF Stranded
  <2>2. ASSUME UNCHANGED <<q, waiters>> PROVE FALSE
    BY <2>1, <2>2
  <2>3. ASSUME NEW js \in Seq(Jobs), QueueAfter(js) # <<>>, waiters' = WaitersAfter(js)
        PROVE  FALSE
    BY <2>1, <2>3, DeliverStrands
  <2>4. ASSUME NEW j \in Jobs, Put(j) PROVE FALSE
    <3>1. CASE PutHandsOff(j)
      BY <2>1, <3>1 DEF PutHandsOff
    <3>2. CASE PutQueues(j)
      BY <2>1, <3>2 DEF PutQueues
    <3>3. CASE PutMerges(j) \/ PutRefused(j)
      BY <2>2, <3>3 DEF PutMerges, PutRefused, memory, vars
    <3> QED BY <2>4, <3>1, <3>2, <3>3 DEF Put
  <2>5. ASSUME NEW t \in Takers, Cancel(t)
        PROVE  /\ pc[t] = "wait" /\ pc'[t] = "idle"
               /\ hand[t] # NoJob /\ Head(q') = hand[t]
    <3>1. pc[t] = "wait" /\ pc'[t] = "idle" /\ waiters' = WaitersWithout(t)
      BY <2>5 DEF Cancel, TypeOK
    <3>2. CASE hand[t] # NoJob /\ q' = <<hand[t]>> \o q
      <4>1. hand[t] \in Jobs /\ q \in Seq(Jobs)
        BY <3>2 DEF TypeOK, Maybe
      <4>2. Head(<<hand[t]>> \o q) = hand[t]
        BY <4>1, ConcatProperties, LenProperties
      <4> QED BY <3>1, <3>2, <4>2
    <3>3. CASE q' = q
      <4>1. waiters = <<>>
        BY <2>1, <3>3
      <4>2. ToSet(waiters) = {}
        BY <4>1 DEF ToSet
      <4>3. waiters' = waiters
        BY <3>1, <4>2 DEF WaitersWithout
      <4> QED BY <2>2, <3>3, <4>3
    <3> QED BY <2>5, <3>2, <3>3 DEF Cancel
  <2>6. ASSUME NEW t \in Takers, TakerStep(t), ~Cancel(t) PROVE FALSE
    <3>1. CASE TakeChan(t) \/ TryTake(t)
      <4>1. PICK js \in ExpiredJobs :
               \/ QueueAfter(js) # <<>> /\ waiters' = WaitersAfter(js)
               \/ q' = <<>>
        BY <3>1 DEF TakeChan, TryTake, Pop
      <4> QED BY <2>1, <2>3, <4>1, ExpiredJobsSeq
    <3>2. CASE Receive(t) \/ TakeFails(t) \/ HoldFails(t) \/ \E d \in Deliveries : Hold(t, d)
      BY <2>2, <3>2 DEF Receive, TakeFails, HoldFails, Hold
    <3>3. CASE Requeue(t)
      <4>1. <<hand[t]>> \in Seq(Jobs)
        BY <3>3 DEF Requeue, WaitersWait, HandsFull, TypeOK, Maybe
      <4>2. \/ UNCHANGED <<q, waiters>>
            \/ q' = QueueAfter(<<hand[t]>>) /\ waiters' = WaitersAfter(<<hand[t]>>)
        BY <3>3 DEF Requeue
      <4> QED BY <2>1, <2>2, <2>3, <4>1, <4>2
    <3> QED BY <2>6, <3>1, <3>2, <3>3 DEF TakerStep
  <2>7. ASSUME NEW d \in Deliveries, DeliveryStep(d) PROVE FALSE
    <3>1. CASE Nack(d)
      <4>1. <<inflight[d]>> \in Seq(Jobs)
        BY <3>1 DEF Nack, TypeOK, Maybe
      <4>2. q' = QueueAfter(<<inflight[d]>>) /\ waiters' = WaitersAfter(<<inflight[d]>>)
        BY <3>1 DEF Nack
      <4> QED BY <2>1, <2>3, <4>1, <4>2
    <3>2. CASE Ack(d) \/ LeaseElapses(d)
      BY <2>2, <3>2 DEF Ack, LeaseElapses, memory
    <3> QED BY <2>7, <3>1, <3>2 DEF DeliveryStep
  <2>8. CASE ExpireLeases
    <3>1. PICK js \in ExpiredJobs : q' = QueueAfter(js) /\ waiters' = WaitersAfter(js)
      BY <2>8 DEF ExpireLeases
    <3> QED BY <2>1, <2>3, <3>1, ExpiredJobsSeq
  <2>9. CASE Close
    BY <2>1, <2>9 DEF Close
  <2>10. CASE Restart
    BY <2>1, <2>10 DEF Restart
  <2> QED BY <2>4, <2>5, <2>6, <2>7, <2>8, <2>9, <2>10 DEF Next
<1> QED BY <1>1, TypeCorrect, WaitersAgree, PTL DEF Spec, StrandedOnlyByCancel
-----------------------------------------------------------------------------
(* How the queue changes.                                                  *)

\* A queue is that of before moved back by n places, or by one to the front, when
\* its head was popped; new jobs are in front of it.
Moved(old, new, n) ==
    /\ n \in Int /\ n >= -1
    /\ Len(new) = Len(old) + n
    /\ \A i \in 1..Len(old) : i + n >= 1 => new[i + n] = old[i]

\* deliverLocked and cancelWaiter move it back, and a pop to the front.
LEMMA Moves ==
    ASSUME TypeOK
    PROVE  /\ Moved(q, q, 0)
           /\ \A j \in Jobs : Moved(q, <<j>> \o q, 1)
           /\ \A js \in Seq(Jobs) : \E n \in Nat : Moved(q, QueueAfter(js), n)
           /\ \A s \in Seq(Jobs), n \in Nat :
                 s # <<>> /\ Moved(q, s, n) => Moved(q, Tail(s), n - 1)
<1>1. q \in Seq(Jobs) /\ Len(q) \in Nat
  BY LenProperties DEF TypeOK
<1>2. Moved(q, q, 0)
  BY <1>1 DEF Moved
<1>3. ASSUME NEW j \in Jobs PROVE Moved(q, <<j>> \o q, 1)
  <2>1. <<j>> \in Seq(Jobs) /\ Len(<<j>>) = 1
    OBVIOUS
  <2>2. /\ Len(<<j>> \o q) = Len(q) + 1
        /\ \A i \in 1 .. Len(q) : (<<j>> \o q)[i + 1] = q[i]
    BY <1>1, <2>1, ConcatProperties
  <2> QED BY <1>1, <2>2 DEF Moved
<1>4. ASSUME NEW js \in Seq(Jobs) PROVE \E n \in Nat : Moved(q, QueueAfter(js), n)
  <2> DEFINE n == Len(js) - HandOffs(js)
  <2>1. /\ n \in Nat /\ Len(QueueAfter(js)) = n + Len(q)
        /\ \A i \in 1 .. n + Len(q) :
              QueueAfter(js)[i] = IF i <= n THEN js[Len(js) + 1 - i] ELSE q[i - n]
    BY QueueAfterElems
  <2> HIDE DEF n
  <2>2. ASSUME NEW i \in 1..Len(q) PROVE QueueAfter(js)[i + n] = q[i]
    <3>1. i + n \in 1 .. n + Len(q) /\ ~(i + n <= n) /\ (i + n) - n = i
      BY <1>1, <2>1
    <3> QED BY <2>1, <3>1
  <2>3. Moved(q, QueueAfter(js), n)
    BY <1>1, <2>1, <2>2 DEF Moved
  <2> QED BY <2>1, <2>3
<1>5. ASSUME NEW s \in Seq(Jobs), NEW n \in Nat, s # <<>>, Moved(q, s, n)
      PROVE  Moved(q, Tail(s), n - 1)
  <2>1. /\ Len(s) \in Nat /\ Len(s) >= 1 /\ Len(Tail(s)) = Len(s) - 1
        /\ \A i \in 1 .. Len(s) - 1 : Tail(s)[i] = s[i + 1]
    BY <1>5, HeadTailProperties, LenProperties, EmptySeq
  <2>2. ASSUME NEW i \in 1..Len(q), i + (n - 1) >= 1
        PROVE  Tail(s)[i + (n - 1)] = q[i]
    <3>1. i + (n - 1) \in 1 .. Len(s) - 1 /\ (i + (n - 1)) + 1 = i + n /\ i + n >= 1
      BY <1>1, <1>5, <2>1, <2>2 DEF Moved
    <3> QED BY <1>5, <2>1, <3>1 DEF Moved
  <2> QED BY <1>1, <1>5, <2>1, <2>2 DEF Moved
<1> QED BY <1>2, <1>3, <1>4, <1>5

\* In one life of the bus Put adds a job at the end of a queue that is not full;
\* every other step moves the queue, with jobs in front that Put took before.
LEMMA QueueSteps ==
    ASSUME PlacementInv, Next, ~Close, restarts' = restarts
    PROVE  \/ \E j \in Jobs : /\ fate[j] = "fresh" /\ q' = Append(q, j)
                              /\ Len(q) < MaxQueue
           \/ /\ \A j \in ToSet(q') : fate[j] # "fresh"
              /\ \E n \in Int : Moved(q, q', n)
<1> USE DEF PlacementInv
<1>1. TypeOK /\ HandsFull /\ Len(q) \in Nat /\ restarts \in Nat
  BY LenProperties, LimitsAssumption DEF TypeOK
<1>2. ASSUME Located' \subseteq Located PROVE \A j \in ToSet(q') : fate[j] # "fresh"
  BY <1>2 DEF Located, OnlyUnackedInside
<1>3. ASSUME q' = q PROVE \E n \in Int : Moved(q, q', n)
  BY <1>1, <1>3, Moves
<1>4. ASSUME NEW js \in Seq(Jobs), q' = QueueAfter(js) \/ (QueueAfter(js) = <<>> /\ q' = <<>>)
      PROVE  \E n \in Int : Moved(q, q', n)
  BY <1>1, <1>4, Moves
<1>5. ASSUME NEW j \in Jobs, Put(j)
      PROVE  \/ fate[j] = "fresh" /\ q' = Append(q, j) /\ Len(q) < MaxQueue
             \/ q' = q
  <2>1. CASE PutQueues(j)
    BY <1>1, <2>1, LimitsAssumption DEF PutQueues, Full
  <2>2. CASE PutHandsOff(j) \/ PutMerges(j) \/ PutRefused(j)
    BY <2>2 DEF PutHandsOff, PutMerges, PutRefused, memory, vars
  <2> QED BY <1>5, <2>1, <2>2 DEF Put
<1>6. ASSUME q' = q PROVE \A j \in ToSet(q') : fate[j] # "fresh"
  BY <1>6 DEF Located, OnlyUnackedInside
<1>7. ASSUME NEW t \in Takers, TakerStep(t) PROVE \E n \in Int : Moved(q, q', n)
  <2>1. CASE TakeChan(t) \/ TryTake(t)
    <3>1. PICK js \in ExpiredJobs :
             \/ QueueAfter(js) # <<>> /\ q' \in {QueueAfter(js), Tail(QueueAfter(js))}
             \/ QueueAfter(js) = <<>> /\ q' = <<>>
      BY <2>1 DEF TakeChan, TryTake, Pop
    <3>2. js \in Seq(Jobs) /\ QueueAfter(js) \in Seq(Jobs)
      BY <1>1, ExpiredJobsSeq, AfterTypes
    <3>3. CASE QueueAfter(js) # <<>> /\ q' = Tail(QueueAfter(js))
      <4>1. PICK n \in Nat : Moved(q, QueueAfter(js), n)
        BY <1>1, <3>2, Moves
      <4>2. Moved(q, Tail(QueueAfter(js)), n - 1)
        BY <1>1, <3>2, <3>3, <4>1, Moves
      <4> QED BY <3>3, <4>2
    <3> QED BY <1>4, <3>1, <3>2, <3>3
  <2>2. CASE Receive(t) \/ TakeFails(t) \/ HoldFails(t) \/ \E d \in Deliveries : Hold(t, d)
    BY <1>3, <2>2 DEF Receive, TakeFails, HoldFails, Hold
  <2>3. CASE Cancel(t)
    <3>1. CASE q' = q
      BY <1>3, <3>1
    <3>2. CASE hand[t] # NoJob /\ q' = <<hand[t]>> \o q
      <4>1. hand[t] \in Jobs
        BY <1>1, <3>2 DEF TypeOK, Maybe
      <4> QED BY <1>1, <3>2, <4>1, Moves
    <3> QED BY <2>3, <3>1, <3>2 DEF Cancel
  <2>4. CASE Requeue(t)
    <3>1. <<hand[t]>> \in Seq(Jobs)
      BY <1>1, <2>4 DEF Requeue, HandsFull, TypeOK, Maybe
    <3>2. q' = q \/ q' = QueueAfter(<<hand[t]>>)
      BY <2>4 DEF Requeue
    <3> QED BY <1>3, <1>4, <3>1, <3>2
  <2> QED BY <1>7, <2>1, <2>2, <2>3, <2>4 DEF TakerStep
<1>8. ASSUME NEW d \in Deliveries, DeliveryStep(d) PROVE \E n \in Int : Moved(q, q', n)
  <2>1. CASE Nack(d)
    <3>1. <<inflight[d]>> \in Seq(Jobs)
      BY <1>1, <2>1 DEF Nack, TypeOK, Maybe
    <3> QED BY <1>4, <2>1, <3>1 DEF Nack
  <2>2. CASE Ack(d) \/ LeaseElapses(d)
    BY <1>3, <2>2 DEF Ack, LeaseElapses, memory
  <2> QED BY <1>8, <2>1, <2>2 DEF DeliveryStep
<1>9. CASE ExpireLeases
  <2>1. PICK js \in ExpiredJobs : q' = QueueAfter(js) /\ hand' = HandAfter(js)
    BY <1>9 DEF ExpireLeases
  <2>2. inflight' = Without(Expired) /\ fate' = fate /\ SavedOrNot
    BY <1>9 DEF ExpireLeases
  <2>3. Located' \subseteq Located
    BY <2>1, <2>2, ExpiryMoves
  <2> QED BY <1>1, <1>2, <1>4, <2>1, <2>3, ExpiredJobsSeq
<1>10. ~Restart
  BY <1>1 DEF Restart
<1>11. CASE \E j \in Jobs : Put(j)
  BY <1>3, <1>5, <1>6, <1>11
<1>12. CASE \E t \in Takers : TakerStep(t)
  BY <1>2, <1>7, <1>12, TakerPlaces
<1>13. CASE \E d \in Deliveries : DeliveryStep(d)
  BY <1>2, <1>8, <1>13, DeliveryPlaces
<1> QED BY <1>9, <1>10, <1>11, <1>12, <1>13 DEF Next

\* A queue longer than maxQueue has grown by jobs that came back: no interleaving
\* of Put with takers, expiry and rollbacks lets Put overfill it.
THEOREM OverfilledByReturns == Spec => PutNeverOverfills
<1>1. PlacementInv /\ [Next]_vars
        => [Len(q') > MaxQueue /\ restarts' = restarts =>
               \A j \in ToSet(q') : fate[j] # "fresh"]_vars
  <2> SUFFICES ASSUME PlacementInv, Next, Len(q') > MaxQueue, restarts' = restarts
               PROVE  \A j \in ToSet(q') : fate[j] # "fresh"
    OBVIOUS
  <2>1. q \in Seq(Jobs) /\ Len(q) \in Nat /\ MaxQueue \in Nat
    BY LenProperties, LimitsAssumption DEF PlacementInv, TypeOK
  <2>2. ~Close
    BY <2>1 DEF Close
  <2>3. ASSUME NEW j \in Jobs, q' = Append(q, j), Len(q) < MaxQueue PROVE FALSE
    <3>1. Len(q') = Len(q) + 1
      BY <2>1, <2>3
    <3> QED BY <2>1, <2>3, <3>1
  <2> QED BY <2>2, <2>3, QueueSteps
<1> QED BY <1>1, PlacementInit, PlacementStep, PTL DEF Spec, PutNeverOverfills

\* In a queue without repetitions a job has one position.
LEMMA Positions ==
    ASSUME NEW s \in Seq(Jobs), IsInjective(s), NEW i \in 1..Len(s)
    PROVE  s[i] \in ToSet(s) /\ Position(s, s[i]) = i
<1>1. DOMAIN s = 1..Len(s) /\ ToSet(s) = {s[k] : k \in 1..Len(s)}
  BY ToSetElems
<1>2. \A k \in DOMAIN s : s[k] = s[i] => k = i
  BY <1>1 DEF IsInjective
<1> QED BY <1>1, <1>2 DEF Position

\* A queue that moves keeps the order of its jobs, and its new jobs are in front.
LEMMA MovedInOrder ==
    ASSUME NEW old \in Seq(Jobs), NEW new \in Seq(Jobs), IsInjective(old), IsInjective(new),
           NEW n \in Int, Moved(old, new, n)
    PROVE  /\ \A i, k \in DOMAIN old : i < k /\ old[i] \in ToSet(new) =>
                 old[k] \in ToSet(new) /\ Position(new, old[i]) < Position(new, old[k])
           /\ \A j \in ToSet(new) \ ToSet(old) : \A k \in ToSet(new) \cap ToSet(old) :
                 ~(Position(new, k) < Position(new, j))
<1>1. /\ Len(old) \in Nat /\ Len(new) \in Nat /\ DOMAIN old = 1..Len(old)
      /\ ToSet(old) = {old[i] : i \in 1..Len(old)} /\ ToSet(new) = {new[i] : i \in 1..Len(new)}
      /\ \A i, k \in 1..Len(old) : old[i] = old[k] => i = k
  BY ToSetElems DEF IsInjective
<1>2. /\ n >= -1 /\ Len(new) = Len(old) + n
      /\ \A i \in 1..Len(old) : i + n >= 1 => new[i + n] = old[i]
  BY DEF Moved
<1>3. ASSUME NEW i \in 1..Len(old), i + n >= 1
      PROVE  old[i] \in ToSet(new) /\ Position(new, old[i]) = i + n
  <2>1. i + n \in 1..Len(new) /\ new[i + n] = old[i]
    BY <1>1, <1>2, <1>3
  <2> QED BY <2>1, Positions
<1>4. ASSUME NEW i \in 1..Len(old), old[i] \in ToSet(new) PROVE i + n >= 1
  <2> SUFFICES ASSUME i + n < 1 PROVE FALSE
    BY <1>1, <1>2
  <2>1. i = 1 /\ n = -1
    BY <1>1, <1>2
  <2>2. PICK m \in 1..Len(new) : new[m] = old[i]
    BY <1>1, <1>4
  <2>3. m + 1 \in 1..Len(old) /\ (m + 1) + n = m /\ m >= 1
    BY <1>1, <1>2, <2>1
  <2>4. old[m + 1] = old[1]
    BY <1>2, <2>1, <2>2, <2>3
  <2> QED BY <1>1, <2>1, <2>3, <2>4
<1>5. ASSUME NEW i \in DOMAIN old, NEW k \in DOMAIN old, i < k, old[i] \in ToSet(new)
      PROVE  old[k] \in ToSet(new) /\ Position(new, old[i]) < Position(new, old[k])
  <2>1. i \in 1..Len(old) /\ k \in 1..Len(old) /\ i + n >= 1 /\ k + n >= 1
    BY <1>1, <1>4, <1>5
  <2>2. /\ Position(new, old[i]) = i + n /\ Position(new, old[k]) = k + n
        /\ old[k] \in ToSet(new)
    BY <1>3, <2>1
  <2> QED BY <1>1, <1>5, <2>1, <2>2
<1>6. ASSUME NEW j \in ToSet(new) \ ToSet(old), NEW k \in ToSet(new) \cap ToSet(old),
             Position(new, k) < Position(new, j)
      PROVE  FALSE
  <2>1. PICK a \in 1..Len(new) : new[a] = j
    BY <1>1
  <2>2. PICK c \in 1..Len(old) : old[c] = k
    BY <1>1
  <2>3. Position(new, j) = a /\ Position(new, k) = c + n
    BY <1>3, <1>4, <2>1, <2>2, Positions
  <2>4. a - n \in 1..Len(old) /\ (a - n) + n = a /\ a >= 1
    BY <1>1, <1>2, <1>6, <2>3
  <2>5. j = old[a - n]
    BY <1>2, <2>1, <2>4
  <2> QED BY <1>1, <2>4, <2>5
<1> QED BY <1>5, <1>6

\* Put adds its job behind the others.
LEMMA AppendedInOrder ==
    ASSUME NEW old \in Seq(Jobs), NEW j \in Jobs, IsInjective(old), IsInjective(Append(old, j))
    PROVE  LET new == Append(old, j)
           IN  /\ \A i, k \in DOMAIN old : i < k /\ old[i] \in ToSet(new) =>
                     old[k] \in ToSet(new) /\ Position(new, old[i]) < Position(new, old[k])
               /\ \A m \in ToSet(new) \ ToSet(old) : \A k \in ToSet(new) \cap ToSet(old) :
                     m = j /\ Position(new, k) < Position(new, m)
<1> DEFINE new == Append(old, j)
<1>1. /\ Len(old) \in Nat /\ DOMAIN old = 1..Len(old)
      /\ ToSet(old) = {old[i] : i \in 1..Len(old)}
  BY ToSetElems
<1>2. /\ new \in Seq(Jobs) /\ Len(new) = Len(old) + 1
      /\ \A i \in 1..Len(old) : new[i] = old[i]
      /\ new[Len(old) + 1] = j
      /\ ToSet(new) = ToSet(old) \cup {j}
  BY AppendProperties, AppendSet
<1> HIDE DEF new
<1>3. IsInjective(new)
  BY DEF new
<1>4. \A i \in 1..Len(old) : old[i] \in ToSet(new) /\ Position(new, old[i]) = i
  BY <1>1, <1>2, <1>3, Positions
<1>5. Position(new, j) = Len(old) + 1
  BY <1>1, <1>2, <1>3, Positions
<1>6. ASSUME NEW m \in ToSet(new) \ ToSet(old), NEW k \in ToSet(new) \cap ToSet(old)
      PROVE  m = j /\ Position(new, k) < Position(new, m)
  <2>1. m = j
    BY <1>2
  <2>2. PICK c \in 1..Len(old) : old[c] = k
    BY <1>1
  <2> QED BY <1>1, <1>4, <1>5, <2>1, <2>2
<1>7. ASSUME NEW i \in DOMAIN old, NEW k \in DOMAIN old, i < k
      PROVE  old[k] \in ToSet(new) /\ Position(new, old[i]) < Position(new, old[k])
  BY <1>1, <1>4, <1>7
<1> QED BY <1>6, <1>7 DEF new

\* Jobs that stay queued stay in order, jobs that come back come in front of them
\* and new ones behind, and a job leaves the queue of an open bus only after those
\* that were before it.
THEOREM OrderOfQueue == Spec => QueueKeepsOrder
<1> DEFINE Ordered ==
        /\ \A i, k \in DOMAIN q : i < k /\ q[i] \in ToSet(q') =>
              q[k] \in ToSet(q') /\ Position(q', q[i]) < Position(q', q[k])
        /\ \A j \in ToSet(q') \ ToSet(q) : \A k \in ToSet(q') \cap ToSet(q) :
              (fate[j] = "fresh") <=> Position(q', k) < Position(q', j)
<1>1. PlacementInv /\ [Next]_vars => [~closed' /\ restarts' = restarts => Ordered]_vars
  <2> SUFFICES ASSUME PlacementInv, Next, ~closed', restarts' = restarts
               PROVE  Ordered
    OBVIOUS
  <2>1. PlacementInv'
    BY PlacementStep
  <2>2. q \in Seq(Jobs) /\ IsInjective(q) /\ q' \in Seq(Jobs) /\ IsInjective(q')
    BY <2>1 DEF PlacementInv, TypeOK, SinglePlace, OncePlaced, NoRepetition
  <2>3. ~Close
    BY DEF Close
  <2>4. ASSUME NEW j \in Jobs, fate[j] = "fresh", q' = Append(q, j) PROVE Ordered
    BY <2>2, <2>4, AppendedInOrder
  <2>5. ASSUME NEW n \in Int, Moved(q, q', n), \A j \in ToSet(q') : fate[j] # "fresh"
        PROVE  Ordered
    BY <2>2, <2>5, MovedInOrder
  <2> QED BY <2>3, <2>4, <2>5, QueueSteps
<1> QED BY <1>1, PlacementInit, PlacementStep, PTL DEF Spec, QueueKeepsOrder
=============================================================================
