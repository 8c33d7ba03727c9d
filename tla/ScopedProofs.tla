---------------------------- MODULE ScopedProofs ----------------------------
(* Proofs about Scoped: the hub's numbers keep the ids of connections apart, *)
(* as long as the process lives.                                             *)
EXTENDS Scoped, PromiseProofs

-----------------------------------------------------------------------------
(* Scoped drives the mailbox by its own steps.                             *)

\* A session that opens or ends leaves the bus alone; the rest is a step of it.
LEMMA ScopedSteps == [NextScoped]_scopedVars => [Next]_vars
<1> SUFFICES ASSUME [NextScoped]_scopedVars PROVE [Next]_vars
  OBVIOUS
<1>1. CASE UNCHANGED scopedVars
  BY <1>1 DEF scopedVars
<1>2. ASSUME NEW c \in Conns, Connect(c) \/ Disconnect(c) PROVE UNCHANGED vars
  BY <1>2 DEF Connect, Disconnect
<1>3. ASSUME NEW j \in Jobs, PutScoped(j) PROVE Next
  BY <1>3 DEF PutScoped, Next
<1>4. CASE BusMoves \/ RestartProcess
  BY <1>4 DEF BusMoves, RestartProcess, Next
<1> QED BY <1>1, <1>2, <1>3, <1>4 DEF NextScoped

\* With the ids of scopedID and several processes one after the other, the bus is
\* still a mailbox, and all that is proved of Mailbox holds.
THEOREM ScopedIsMailbox == ScopedSpec => Spec
<1>1. InitScoped => Init
  BY DEF InitScoped
<1> QED BY <1>1, ScopedSteps, PTL DEF ScopedSpec, Spec

-----------------------------------------------------------------------------
(* Whose a number is.                                                      *)

\* Sessions that are open have numbers of their own, none above Hub.sids.
Numbered ==
    /\ sids \in Nat
    /\ sid \in [Conns -> Nat] /\ \A c \in Conns : sid[c] <= sids
    /\ \A c, d \in Conns : sid[c] # 0 /\ sid[c] = sid[d] => c = d

\* The id of a job has the number of the session that put it, which no other
\* connection has, then or later.
OwnNumber(k) ==
    \E m \in 1..sids : /\ IdOf[k] = <<m, NameOf[k]>>
                       /\ \A c \in Conns : sid[c] = m => c = ConnOf[k]

\* So, in the first process, jobs whose ids agree come from one connection.
Apart ==
    restarts = 0 =>
        \A k \in Jobs : fate[k] # "fresh" =>
            /\ OwnNumber(k)
            /\ \A l \in Jobs : fate[l] # "fresh" /\ IdOf[k] = IdOf[l] => ConnOf[k] = ConnOf[l]

\* No step gives a number twice.
LEMMA NumberedStep ==
    ASSUME Numbered, [NextScoped]_scopedVars
    PROVE  Numbered' /\ (UNCHANGED restarts /\ restarts \in Nat => sids <= sids')
<1>1. CASE UNCHANGED <<sids, sid>>
  BY <1>1 DEF Numbered
<1>2. ASSUME NEW c \in Conns, Connect(c) PROVE Numbered' /\ sids <= sids'
  <2>1. sids' = sids + 1 /\ sid' = [sid EXCEPT ![c] = sids + 1] /\ sids \in Nat
    BY <1>2 DEF Connect, Numbered
  <2>2. sid'[c] = sids + 1 /\ \A d \in Conns : d # c => sid'[d] = sid[d] /\ sid[d] <= sids
    BY <2>1 DEF Numbered
  <2>3. sid' \in [Conns -> Nat] /\ \A d \in Conns : sid'[d] <= sids'
    BY <2>1, <2>2 DEF Numbered
  <2>4. \A d, e \in Conns : sid'[d] # 0 /\ sid'[d] = sid'[e] => d = e
    BY <2>1, <2>2 DEF Numbered
  <2> QED BY <2>1, <2>3, <2>4 DEF Numbered
<1>3. ASSUME NEW c \in Conns, Disconnect(c) PROVE Numbered' /\ sids <= sids'
  BY <1>3 DEF Disconnect, Numbered
<1>4. CASE RestartProcess
  <2>1. sids' = 0 /\ sid' = [c \in Conns |-> 0] /\ restarts' = restarts + 1
    BY <1>4 DEF RestartProcess, Restart
  <2> QED BY <2>1 DEF Numbered
<1>5. (\E j \in Jobs : PutScoped(j)) \/ BusMoves \/ UNCHANGED scopedVars => UNCHANGED <<sids, sid>>
  BY DEF PutScoped, BusMoves, scopedVars
<1>6. UNCHANGED <<sids, sid>> => sids <= sids'
  BY DEF Numbered
<1> QED BY <1>1, <1>2, <1>3, <1>4, <1>5, <1>6 DEF NextScoped

\* Only a put makes a job other than fresh.
LEMMA FreshUntilPut ==
    ASSUME PlacementInv, BusMoves
    PROVE  restarts' = restarts /\ \A k \in Jobs : fate'[k] # "fresh" => fate[k] # "fresh"
<1>1. ASSUME NEW t \in Takers, TakerStep(t) PROVE UNCHANGED <<restarts, fate>>
  BY <1>1 DEF TakerStep, TakeChan, TryTake, Receive, TakeFails, Cancel, Hold, HoldFails, Requeue
<1>2. ASSUME NEW d \in Deliveries, Nack(d) \/ LeaseElapses(d) PROVE UNCHANGED <<restarts, fate>>
  BY <1>2 DEF Nack, LeaseElapses
<1>3. ASSUME NEW d \in Deliveries, Ack(d)
      PROVE  restarts' = restarts /\ \A k \in Jobs : fate'[k] # "fresh" => fate[k] # "fresh"
  <2>1. inflight[d] \in Located
    BY <1>3 DEF Ack, Located, Leased
  <2>2. fate[inflight[d]] # "fresh"
    BY <2>1 DEF PlacementInv, OnlyUnackedInside
  <2>3. restarts' = restarts /\ \A k \in Jobs : k # inflight[d] => fate'[k] = fate[k]
    BY <1>3 DEF Ack, PlacementInv, TypeOK
  <2> QED BY <2>2, <2>3
<1>4. CASE ExpireLeases \/ Close
  BY <1>4 DEF ExpireLeases, Close
<1> QED BY <1>1, <1>2, <1>3, <1>4 DEF BusMoves, DeliveryStep

\* A put gives its job the number of its connection, which no job of another has.
LEMMA ApartStep ==
    ASSUME ConnOf \in [Jobs -> Conns], Numbered, Apart, PlacementInv, [NextScoped]_scopedVars
    PROVE  Apart'
<1> SUFFICES ASSUME restarts' = 0,
                    NEW k \in Jobs, fate'[k] # "fresh"
             PROVE  /\ OwnNumber(k)'
                    /\ \A l \in Jobs : fate'[l] # "fresh" /\ IdOf[k] = IdOf[l] => ConnOf[k] = ConnOf[l]
  BY DEF Apart
<1>1. restarts \in Nat /\ TypeOK
  BY LimitsAssumption DEF PlacementInv, TypeOK
<1>2. ASSUME restarts' = restarts, \A l \in Jobs : fate'[l] # "fresh" => fate[l] # "fresh",
             sids <= sids', sids' \in Nat,
             \A c \in Conns : sid'[c] \in {0, sid[c]} \/ sid'[c] > sids
      PROVE  /\ OwnNumber(k)'
             /\ \A l \in Jobs : fate'[l] # "fresh" /\ IdOf[k] = IdOf[l] => ConnOf[k] = ConnOf[l]
  <2>1. PICK m \in 1..sids : IdOf[k] = <<m, NameOf[k]>> /\ \A c \in Conns : sid[c] = m => c = ConnOf[k]
    BY <1>2 DEF Apart, OwnNumber
  <2>2. m \in 1..sids' /\ \A c \in Conns : sid'[c] = m => sid[c] = m
    BY <1>2, <2>1 DEF Numbered
  <2>3. OwnNumber(k)'
    BY <2>1, <2>2 DEF OwnNumber
  <2> QED BY <1>2, <2>3 DEF Apart
<1>3. ASSUME NEW c \in Conns, Connect(c) \/ Disconnect(c)
      PROVE  /\ OwnNumber(k)'
             /\ \A l \in Jobs : fate'[l] # "fresh" /\ IdOf[k] = IdOf[l] => ConnOf[k] = ConnOf[l]
  <2>1. restarts' = restarts /\ fate' = fate
    BY <1>3 DEF Connect, Disconnect, vars
  <2>2. sids <= sids' /\ sids' \in Nat
    BY <1>1, <2>1, NumberedStep DEF Numbered
  <2>3. \A d \in Conns : sid'[d] \in {0, sid[d]} \/ sid'[d] > sids
    BY <1>3 DEF Connect, Disconnect, Numbered
  <2> QED BY <1>2, <2>1, <2>2, <2>3
<1>4. ASSUME NEW j \in Jobs, PutScoped(j)
      PROVE  /\ OwnNumber(k)'
             /\ \A l \in Jobs : fate'[l] # "fresh" /\ IdOf[k] = IdOf[l] => ConnOf[k] = ConnOf[l]
  <2> DEFINE n == sid[ConnOf[j]]
  <2>1. /\ n # 0 /\ IdOf[j] = <<n, NameOf[j]>> /\ sids' = sids /\ sid' = sid
        /\ n \in 1..sids /\ ConnOf[j] \in Conns /\ \A c \in Conns : sid[c] = n => c = ConnOf[j]
    BY <1>4 DEF PutScoped, Numbered
  <2> HIDE DEF n
  <2>2. restarts' = restarts /\ \A l \in Jobs : l # j => fate'[l] = fate[l]
    BY <1>1, <1>4 DEF PutScoped, Put, PutMerges, PutHandsOff, PutQueues, PutRefused, vars, TypeOK
  <2>3. OwnNumber(j)
    BY <2>1 DEF OwnNumber
  <2>4. ASSUME NEW l \in Jobs, l # j, fate'[l] # "fresh"
        PROVE  OwnNumber(l) /\ (IdOf[l] = IdOf[j] => ConnOf[l] = ConnOf[j])
    <3>1. PICK m \in 1..sids : IdOf[l] = <<m, NameOf[l]>> /\ \A c \in Conns : sid[c] = m => c = ConnOf[l]
      BY <2>2, <2>4 DEF Apart, OwnNumber
    <3>2. IdOf[l] = IdOf[j] => m = n
      BY <2>1, <3>1
    <3>3. sid[ConnOf[j]] = m => ConnOf[j] = ConnOf[l]
      BY <2>1, <3>1
    <3>4. OwnNumber(l)
      BY <3>1 DEF OwnNumber
    <3> QED BY <3>2, <3>3, <3>4 DEF n
  <2>5. OwnNumber(k)
    BY <2>3, <2>4
  <2>6. OwnNumber(k)'
    BY <2>1, <2>5 DEF OwnNumber
  <2>7. ASSUME NEW l \in Jobs, fate'[l] # "fresh", IdOf[k] = IdOf[l] PROVE ConnOf[k] = ConnOf[l]
    <3>1. CASE k = j \/ l = j
      BY <2>4, <2>7, <3>1
    <3>2. CASE k # j /\ l # j
      BY <2>2, <2>7, <3>2 DEF Apart
    <3> QED BY <3>1, <3>2
  <2> QED BY <2>6, <2>7
<1>5. CASE BusMoves
  <2>1. UNCHANGED <<sids, sid>>
    BY <1>5 DEF BusMoves
  <2>2. restarts' = restarts /\ \A l \in Jobs : fate'[l] # "fresh" => fate[l] # "fresh"
    BY <1>5, FreshUntilPut
  <2> QED BY <1>2, <2>1, <2>2 DEF Numbered
<1>6. ~RestartProcess
  BY <1>1 DEF RestartProcess, Restart
<1>7. CASE UNCHANGED scopedVars
  BY <1>2, <1>7 DEF scopedVars, vars, Numbered
<1> QED BY <1>3, <1>4, <1>5, <1>6, <1>7 DEF NextScoped

\* A put is merged beside a queued or leased job of its connection.
MergedBesideOwn ==
    \A j \in Jobs : fate[j] = "fresh" /\ fate'[j] = "merged" =>
        \E k \in ToSet(q) \cup Leased(inflight) :
            IdOf[k] = IdOf[j] /\ ConnOf[k] = ConnOf[j]

\* An id that is indexed is that of a queued or leased job.
LEMMA IndexedHeld ==
    ASSUME TypeOK, DedupExact, ~closed, NEW id \in Ids, Indexed(id)
    PROVE  \E k \in ToSet(q) \cup Leased(inflight) : IdOf[k] = id
<1>1. dedup[id] = Copies(q, id) + LeaseCopies(inflight, id) /\ dedup[id] # 0
  BY DEF DedupExact, Indexed
<1>2. Copies(q, id) # 0 \/ LeaseCopies(inflight, id) # 0
  BY <1>1
<1>3. ASSUME Copies(q, id) # 0 PROVE \E k \in ToSet(q) : IdOf[k] = id
  <2>1. {i \in DOMAIN q : IdOf[q[i]] = id} # {}
    BY <1>3, FS_EmptySet DEF Copies
  <2> QED BY <2>1 DEF ToSet
<1>4. ASSUME LeaseCopies(inflight, id) # 0 PROVE \E k \in Leased(inflight) : IdOf[k] = id
  <2>1. {d \in Deliveries : inflight[d] # NoJob /\ IdOf[inflight[d]] = id} # {}
    BY <1>4, FS_EmptySet DEF LeaseCopies
  <2>2. PICK d \in Deliveries : inflight[d] # NoJob /\ IdOf[inflight[d]] = id
    BY <2>1
  <2> QED BY <2>2 DEF Leased
<1> QED BY <1>2, <1>3, <1>4

\* Only the put handler merges a put.
LEMMA MergedByPut ==
    ASSUME PlacementInv, [NextScoped]_scopedVars,
           NEW j \in Jobs, fate[j] = "fresh", fate'[j] = "merged"
    PROVE  PutScoped(j) /\ ~closed /\ Indexed(IdOf[j])
<1>1. fate' # fate /\ fate \in [Jobs -> Fates]
  BY DEF PlacementInv, TypeOK
<1>2. ~BusMoves
  BY FreshUntilPut, <1>1
<1>3. ~RestartProcess
  BY <1>1 DEF RestartProcess, Restart
<1>4. \A c \in Conns : ~Connect(c) /\ ~Disconnect(c)
  BY <1>1 DEF Connect, Disconnect, vars
<1>5. PICK i \in Jobs : PutScoped(i)
  BY <1>1, <1>2, <1>3, <1>4 DEF NextScoped, scopedVars, vars
<1>6. Put(i)
  BY <1>5 DEF PutScoped
<1>7. i = j
  BY <1>1, <1>6 DEF Put, PutMerges, PutHandsOff, PutQueues, PutRefused, vars
<1>8. PutMerges(j)
  BY <1>1, <1>6, <1>7 DEF Put, PutMerges, PutHandsOff, PutQueues, PutRefused, vars
<1> QED BY <1>5, <1>7, <1>8 DEF PutMerges

\* In the first process the job that is indexed is one of the connection.
LEMMA MergedBesideOwnStep ==
    ASSUME ConnOf \in [Jobs -> Conns], Numbered, Apart, PlacementInv, DedupExact,
           [NextScoped]_scopedVars, restarts = 0
    PROVE  MergedBesideOwn
<1> SUFFICES ASSUME NEW j \in Jobs, fate[j] = "fresh", fate'[j] = "merged"
             PROVE  \E k \in ToSet(q) \cup Leased(inflight) :
                        IdOf[k] = IdOf[j] /\ ConnOf[k] = ConnOf[j]
  BY DEF MergedBesideOwn
<1> DEFINE n == sid[ConnOf[j]]
<1>1. /\ n # 0 /\ IdOf[j] = <<n, NameOf[j]>> /\ ~closed /\ Indexed(IdOf[j])
  BY MergedByPut DEF PutScoped
<1>2. PICK k \in ToSet(q) \cup Leased(inflight) : IdOf[k] = IdOf[j]
  <2>1. TypeOK /\ IdOf[j] \in Ids
    BY JobsAssumption DEF PlacementInv
  <2> QED BY <1>1, <2>1, IndexedHeld
<1>3. k \in Jobs /\ fate[k] # "fresh"
  <2>1. k \in Located
    BY <1>2 DEF Located
  <2>2. fate[k] \in {"accepted", "unsaved"}
    BY <2>1 DEF PlacementInv, OnlyUnackedInside
  <2>3. ToSet(q) \subseteq Jobs
    BY ToSetElems DEF PlacementInv, TypeOK
  <2>4. Leased(inflight) \subseteq Jobs
    BY DEF PlacementInv, TypeOK, Leased, Maybe
  <2> QED BY <1>2, <2>2, <2>3, <2>4
<1>4. PICK m \in 1..sids : IdOf[k] = <<m, NameOf[k]>> /\ \A c \in Conns : sid[c] = m => c = ConnOf[k]
  BY <1>3 DEF Apart, OwnNumber
<1>5. m = n /\ ConnOf[j] \in Conns
  BY <1>1, <1>2, <1>4
<1> QED BY <1>2, <1>4, <1>5 DEF n

ScopedInv == PlacementInv /\ DedupExact /\ Numbered /\ Apart

\* What the theorems below rest on.
LEMMA ScopedInvariant ==
    ASSUME ConnOf \in [Jobs -> Conns]
    PROVE  ScopedSpec => []ScopedInv
<1>1. InitScoped => Numbered /\ Apart
  <2> SUFFICES ASSUME InitScoped PROVE Numbered /\ Apart
    OBVIOUS
  <2>1. sids = 0 /\ sid = [c \in Conns |-> 0] /\ \A j \in Jobs : fate[j] = "fresh"
    BY DEF InitScoped, Init
  <2> QED BY <2>1 DEF Numbered, Apart
<1>2. Numbered /\ Apart /\ PlacementInv /\ [NextScoped]_scopedVars => Numbered' /\ Apart'
  BY NumberedStep, ApartStep
<1>3. Spec => []PlacementInv
  BY PlacementInit, PlacementStep, PTL DEF Spec
<1>4. ScopedInv <=> PlacementInv /\ DedupExact /\ Numbered /\ Apart
  BY DEF ScopedInv
<1> QED BY <1>1, <1>2, <1>3, <1>4, ScopedIsMailbox, IndexExact, PTL DEF ScopedSpec

\* As long as the process lives, a put is merged only beside a job that was put
\* on the same connection, whatever ids the clients choose: sids numbers no two
\* sessions alike, and scopedID puts the number in front of the id.
THEOREM OwnInOneLife ==
    ASSUME ConnOf \in [Jobs -> Conns]
    PROVE  ScopedSpec => [][restarts = 0 => MergedBesideOwn]_scopedVars
<1>1. ScopedInv /\ [NextScoped]_scopedVars => [restarts = 0 => MergedBesideOwn]_scopedVars
  BY MergedBesideOwnStep DEF ScopedInv
<1> QED BY <1>1, ScopedInvariant, PTL DEF ScopedSpec

\* A bus without a file keeps the promise of the documentation in all its
\* lives, of which it has one: what MCScoped shows to fail takes a durable bus.
THEOREM OwnInMemory ==
    ASSUME ConnOf \in [Jobs -> Conns], ~Durable
    PROVE  ScopedSpec => MergedWithOwn
<1>1. InitScoped => restarts = 0
  BY DEF InitScoped, Init
<1>2. ScopedInv /\ restarts = 0 /\ [NextScoped]_scopedVars => (restarts = 0)'
  <2> SUFFICES ASSUME ScopedInv, restarts = 0, [NextScoped]_scopedVars PROVE restarts' = 0
    OBVIOUS
  <2>1. ~RestartProcess
    BY DEF RestartProcess, Restart
  <2>2. ASSUME BusMoves PROVE restarts' = 0
    BY <2>2, FreshUntilPut DEF ScopedInv
  <2>3. ASSUME NEW j \in Jobs, PutScoped(j) PROVE restarts' = 0
    BY <2>3 DEF PutScoped, Put, PutMerges, PutHandsOff, PutQueues, PutRefused, vars
  <2>4. ASSUME NEW c \in Conns, Connect(c) \/ Disconnect(c) PROVE restarts' = 0
    BY <2>4 DEF Connect, Disconnect, vars
  <2>5. UNCHANGED scopedVars => restarts' = 0
    BY DEF scopedVars, vars
  <2> QED BY <2>1, <2>2, <2>3, <2>4, <2>5 DEF NextScoped
<1>3. ScopedSpec => [](restarts = 0)
  BY <1>1, <1>2, ScopedInvariant, PTL DEF ScopedSpec
<1> QED BY <1>3, OwnInOneLife, PTL DEF MergedWithOwn, MergedBesideOwn
=============================================================================
