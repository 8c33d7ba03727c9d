---------------------------- MODULE PromiseProofs ----------------------------
(* What a mailbox promises: its index of ids counts the copies it holds, and  *)
(* each of its steps is a step of WorkQueue, the life of a job as a client    *)
(* sees it.                                                                  *)
EXTENDS MailboxProofs, MailboxImplements

-----------------------------------------------------------------------------
(* The index of ids: counting copies.                                      *)

\* The positions of an id in a sequence of jobs.
Places(js, id) == {i \in DOMAIN js : IdOf[js[i]] = id}

\* Copies counts the positions of an id, finitely many.
LEMMA CopiesPlaces ==
    ASSUME NEW js \in Seq(Jobs), NEW id \in Ids
    PROVE  /\ Copies(js, id) = Cardinality(Places(js, id)) /\ IsFiniteSet(Places(js, id))
           /\ Places(js, id) = {i \in 1..Len(js) : IdOf[js[i]] = id}
           /\ Len(js) \in Nat
<1>1. Len(js) \in Nat /\ DOMAIN js = 1..Len(js)
  BY LenProperties
<1>2. IsFiniteSet(1..Len(js))
  BY <1>1, FS_Interval
<1> QED BY <1>1, <1>2, FS_Subset DEF Copies, Places

\* The copies in two sequences add up.
LEMMA CopiesConcat ==
    ASSUME NEW a \in Seq(Jobs), NEW b \in Seq(Jobs), NEW id \in Ids
    PROVE  Copies(a \o b, id) = Copies(a, id) + Copies(b, id)
<1> DEFINE c == a \o b
           m == Len(a)
           A == Places(a, id)
           B == Places(b, id)
           M == {m + i : i \in B}
<1>1. /\ c \in Seq(Jobs) /\ Len(c) = m + Len(b) /\ m \in Nat /\ Len(b) \in Nat
      /\ \A i \in 1 .. m + Len(b) : c[i] = IF i <= m THEN a[i] ELSE b[i - m]
  BY ConcatProperties, LenProperties
<1> HIDE DEF c, m
<1>2. /\ Copies(a, id) = Cardinality(A) /\ IsFiniteSet(A)
      /\ A = {i \in 1..m : IdOf[a[i]] = id}
  BY CopiesPlaces DEF m
<1>3. /\ Copies(b, id) = Cardinality(B) /\ IsFiniteSet(B)
      /\ B = {i \in 1..Len(b) : IdOf[b[i]] = id}
  BY CopiesPlaces
<1>4. /\ Copies(c, id) = Cardinality(Places(c, id))
      /\ Places(c, id) = {i \in 1 .. m + Len(b) : IdOf[c[i]] = id}
  BY <1>1, CopiesPlaces
<1> HIDE DEF A, B
<1>5. IsFiniteSet(M) /\ Cardinality(M) = Cardinality(B)
  <2> DEFINE f == [i \in B |-> m + i]
  <2>1. f \in [B -> M] /\ \A z \in M : \E x \in B : f[x] = z
    OBVIOUS
  <2>2. \A x, y \in B : f[x] = f[y] => x = y
    <3>1. \A x, y \in B : m + x = m + y => x = y
      BY <1>1, <1>3
    <3> QED BY <3>1
  <2> HIDE DEF f, M
  <2>3. f \in Bijection(B, M)
    BY <2>1, <2>2 DEF Bijection, Injection, Surjection, IsInjective
  <2> QED BY <1>3, <2>3, FS_Bijection DEF ExistsBijection
<1>6. A \cap M = {}
  BY <1>1, <1>2, <1>3
<1>7. Places(c, id) \subseteq A \cup M
  <2> SUFFICES ASSUME NEW i \in 1 .. m + Len(b), IdOf[c[i]] = id
               PROVE  i \in A \cup M
    BY <1>4
  <2>1. CASE i <= m
    BY <1>1, <1>2, <2>1
  <2>2. CASE ~(i <= m)
    <3> DEFINE k == i - m
    <3>1. k \in 1..Len(b) /\ m + k = i
      BY <1>1, <2>2
    <3>2. c[i] = b[k]
      BY <1>1, <2>2
    <3> HIDE DEF k
    <3> QED BY <1>3, <3>1, <3>2
  <2> QED BY <2>1, <2>2
<1>8. A \subseteq Places(c, id)
  BY <1>1, <1>2, <1>4
<1>9. M \subseteq Places(c, id)
  <2> SUFFICES ASSUME NEW k \in B PROVE m + k \in Places(c, id)
    OBVIOUS
  <2> DEFINE i == m + k
  <2>1. i \in 1 .. m + Len(b) /\ ~(i <= m) /\ i - m = k
    BY <1>1, <1>3
  <2> HIDE DEF i
  <2>2. c[i] = b[k]
    BY <1>1, <2>1
  <2> QED BY <1>3, <1>4, <2>1, <2>2 DEF i
<1>10. Places(c, id) = A \cup M
  BY <1>7, <1>8, <1>9
<1>11. Cardinality(A \cup M) = Cardinality(A) + Cardinality(M)
  <2>1. Cardinality(A \cup M) = Cardinality(A) + Cardinality(M) - Cardinality({})
    BY <1>2, <1>5, <1>6, FS_Union
  <2>2. Cardinality(A) \in Nat /\ Cardinality(M) \in Nat /\ Cardinality({}) = 0
    BY <1>2, <1>5, FS_CardinalityType, FS_EmptySet
  <2> QED BY <2>1, <2>2
<1> QED BY <1>2, <1>3, <1>4, <1>5, <1>10, <1>11 DEF c

\* The order of a sequence does not matter.
LEMMA CopiesReverse ==
    ASSUME NEW a \in Seq(Jobs), NEW id \in Ids
    PROVE  Reverse(a) \in Seq(Jobs) /\ Copies(Reverse(a), id) = Copies(a, id)
<1> DEFINE r == Reverse(a)
           n == Len(a)
           A == Places(a, id)
           R == Places(r, id)
<1>1. n \in Nat
  BY LenProperties
<1>2. /\ r \in Seq(Jobs) /\ Len(r) = n
      /\ \A i \in 1..n : r[i] = a[(n - i) + 1]
  <2>1. \A i \in 1..n : a[(n - i) + 1] \in Jobs
    BY <1>1, ElementOfSeq
  <2> HIDE DEF n
  <2>2. r = [i \in 1..n |-> a[(n - i) + 1]]
    BY DEF Reverse, n
  <2> QED BY <1>1, <2>1, <2>2
<1> HIDE DEF r
<1>3. Copies(a, id) = Cardinality(A) /\ IsFiniteSet(A) /\ A = {i \in 1..n : IdOf[a[i]] = id}
  BY CopiesPlaces
<1>4. Copies(r, id) = Cardinality(R) /\ R = {i \in 1..n : IdOf[r[i]] = id}
  BY <1>2, CopiesPlaces
<1> HIDE DEF n, A, R
<1> DEFINE f == [i \in A |-> (n - i) + 1]
<1>5. ASSUME NEW i \in 1..n
      PROVE  (n - i) + 1 \in 1..n /\ (n - ((n - i) + 1)) + 1 = i
  BY <1>1
<1>6. ASSUME NEW i \in A PROVE (n - i) + 1 \in R
  <2> DEFINE k == (n - i) + 1
  <2>1. i \in 1..n /\ k \in 1..n /\ (n - k) + 1 = i
    BY <1>3, <1>5
  <2> HIDE DEF k
  <2>2. r[k] = a[i]
    BY <1>2, <2>1
  <2> QED BY <1>3, <1>4, <2>1, <2>2 DEF k
<1>7. ASSUME NEW k \in R PROVE \E i \in A : (n - i) + 1 = k
  <2> DEFINE i == (n - k) + 1
  <2>1. k \in 1..n /\ i \in 1..n /\ (n - i) + 1 = k
    BY <1>4, <1>5
  <2>2. r[k] = a[i]
    BY <1>2, <2>1
  <2> HIDE DEF i
  <2>3. i \in A
    BY <1>3, <1>4, <2>1, <2>2
  <2> QED BY <2>1, <2>3
<1>8. f \in [A -> R] /\ \A z \in R : \E x \in A : f[x] = z
  BY <1>6, <1>7
<1>9. \A x, y \in A : f[x] = f[y] => x = y
  <2>1. \A x, y \in 1..n : (n - x) + 1 = (n - y) + 1 => x = y
    BY <1>1
  <2> QED BY <1>3, <2>1
<1> HIDE DEF f
<1>10. Cardinality(R) = Cardinality(A)
  <2>1. f \in Bijection(A, R)
    BY <1>8, <1>9 DEF Bijection, Injection, Surjection, IsInjective
  <2> QED BY <1>3, <2>1, FS_Bijection DEF ExistsBijection
<1> QED BY <1>2, <1>3, <1>4, <1>10 DEF r

\* One job is one copy of its id.
LEMMA CopiesOne ==
    ASSUME NEW j \in Jobs, NEW id \in Ids
    PROVE  /\ <<j>> \in Seq(Jobs)
           /\ Copies(<<j>>, id) = IF IdOf[j] = id THEN 1 ELSE 0
           /\ Copies(<<>>, id) = 0
<1>1. Places(<<j>>, id) = IF IdOf[j] = id THEN {1} ELSE {}
  BY DEF Places
<1>2. Places(<<>>, id) = {}
  BY DEF Places
<1>3. /\ Copies(<<j>>, id) = Cardinality(Places(<<j>>, id))
      /\ Copies(<<>>, id) = Cardinality(Places(<<>>, id))
  BY DEF Copies, Places
<1>4. <<j>> \in Seq(Jobs)
  OBVIOUS
<1> QED BY <1>1, <1>2, <1>3, <1>4, FS_Singleton, FS_EmptySet

\* A queue is its head and its tail.
LEMMA CopiesHeadTail ==
    ASSUME NEW s \in Seq(Jobs), s # <<>>, NEW id \in Ids
    PROVE  Copies(s, id) = Copies(<<Head(s)>>, id) + Copies(Tail(s), id)
<1>1. /\ Head(s) \in Jobs /\ Tail(s) \in Seq(Jobs) /\ Len(s) \in Nat /\ Len(s) >= 1
      /\ Len(Tail(s)) = Len(s) - 1
      /\ \A i \in 1 .. Len(s) - 1 : Tail(s)[i] = s[i + 1]
      /\ Head(s) = s[1]
  BY HeadTailProperties, LenProperties, EmptySeq
<1> DEFINE h == <<Head(s)>>
           t == Tail(s)
           f == h \o t
<1>2. h \in Seq(Jobs) /\ Len(h) = 1 /\ h[1] = s[1]
  BY <1>1
<1> HIDE DEF h, t
<1>3. /\ t \in Seq(Jobs) /\ Len(t) = Len(s) - 1
      /\ \A i \in 1 .. Len(s) - 1 : t[i] = s[i + 1]
  BY <1>1 DEF t
<1>4. /\ f \in Seq(Jobs) /\ Len(f) = Len(s)
      /\ \A i \in 1..Len(s) : f[i] = IF i <= 1 THEN h[i] ELSE t[i - 1]
  <2>1. /\ f \in Seq(Jobs) /\ Len(f) = Len(h) + Len(t)
        /\ \A i \in 1 .. Len(h) + Len(t) : f[i] = IF i <= Len(h) THEN h[i] ELSE t[i - Len(h)]
    <3>1. h \in Seq(Jobs) /\ t \in Seq(Jobs)
      BY <1>2, <1>3
    <3> QED BY <3>1, ConcatProperties
  <2>2. Len(h) = 1 /\ Len(h) + Len(t) = Len(s)
    <3>1. Len(h) = 1 /\ Len(t) = Len(s) - 1 /\ Len(s) \in Nat
      BY <1>1, <1>2, <1>3
    <3> HIDE DEF f
    <3> QED BY <3>1
  <2> HIDE DEF f
  <2> QED BY <2>1, <2>2
<1> HIDE DEF f
<1>5. ASSUME NEW i \in 1..Len(s) PROVE f[i] = s[i]
  <2>1. CASE i = 1
    BY <1>2, <1>4, <2>1
  <2>2. CASE i # 1
    <3> DEFINE k == i - 1
    <3>1. k \in 1 .. Len(s) - 1 /\ k + 1 = i /\ ~(i <= 1)
      BY <1>1, <2>2
    <3>2. f[i] = t[k]
      BY <1>4, <3>1
    <3> HIDE DEF k
    <3> QED BY <1>3, <3>1, <3>2
  <2> QED BY <2>1, <2>2
<1>6. f = s
  BY <1>4, <1>5, SeqEqual
<1> QED BY <1>2, <1>3, <1>6, CopiesConcat DEF f, h, t

\* The leases of an id.
LeasesOf(leases, id) == {d \in Deliveries : leases[d] # NoJob /\ IdOf[leases[d]] = id}

\* The leases that end take their copies with them.
LEMMA LeaseCopiesWithout ==
    ASSUME TypeOK, NEW ds \in SUBSET Deliveries, NEW id \in Ids
    PROVE  /\ IsFiniteSet(LeasesOf(inflight, id) \cap ds)
           /\ LeaseCopies(inflight, id) = LeaseCopies(Without(ds), id)
                                          + Cardinality(LeasesOf(inflight, id) \cap ds)
<1> DEFINE A == LeasesOf(inflight, id)
           B == LeasesOf(Without(ds), id)
           C == A \cap ds
<1>1. IsFiniteSet(A) /\ IsFiniteSet(B) /\ IsFiniteSet(C)
  BY DeliveriesAssumption, FS_Subset DEF LeasesOf
<1>2. A = B \cup C /\ B \cap C = {}
  BY DEF LeasesOf, Without
<1>3. LeaseCopies(inflight, id) = Cardinality(A) /\ LeaseCopies(Without(ds), id) = Cardinality(B)
  BY DEF LeaseCopies, LeasesOf
<1> HIDE DEF A, B, C
<1>4. Cardinality(B \cup C) = Cardinality(B) + Cardinality(C) - Cardinality({})
  BY <1>1, <1>2, FS_Union
<1>5. Cardinality(B) \in Nat /\ Cardinality(C) \in Nat /\ Cardinality({}) = 0
  BY <1>1, FS_CardinalityType, FS_EmptySet
<1>6. Cardinality(A) = Cardinality(B) + Cardinality(C)
  BY <1>2, <1>4, <1>5
<1> QED BY <1>1, <1>3, <1>6 DEF A, B, C

\* One lease that ends.
LEMMA LeaseCopiesOne ==
    ASSUME TypeOK, NEW d \in Deliveries, inflight[d] # NoJob, NEW id \in Ids
    PROVE  LeaseCopies(inflight, id)
              = LeaseCopies(Without({d}), id) + Copies(<<inflight[d]>>, id)
<1>1. inflight[d] \in Jobs
  BY DEF TypeOK, Maybe
<1>2. LeasesOf(inflight, id) \cap {d} = IF IdOf[inflight[d]] = id THEN {d} ELSE {}
  BY DEF LeasesOf
<1>3. Cardinality(LeasesOf(inflight, id) \cap {d}) = Copies(<<inflight[d]>>, id)
  BY <1>1, <1>2, CopiesOne, FS_Singleton, FS_EmptySet
<1> QED BY <1>3, LeaseCopiesWithout

\* One lease that begins, under a delivery id without one.
LEMMA LeaseCopiesAdd ==
    ASSUME TypeOK, NEW d \in Deliveries, inflight[d] = NoJob, NEW j \in Jobs, NEW id \in Ids
    PROVE  LeaseCopies([inflight EXCEPT ![d] = j], id)
              = LeaseCopies(inflight, id) + Copies(<<j>>, id)
<1> DEFINE A == LeasesOf(inflight, id)
           L == [inflight EXCEPT ![d] = j]
<1>1. IsFiniteSet(A) /\ d \notin A
  BY DeliveriesAssumption, FS_Subset DEF LeasesOf
<1>2. LeasesOf(L, id) = IF IdOf[j] = id THEN A \cup {d} ELSE A
  BY JobsAssumption DEF LeasesOf, TypeOK
<1>3. LeaseCopies(inflight, id) = Cardinality(A) /\ LeaseCopies(L, id) = Cardinality(LeasesOf(L, id))
  BY DEF LeaseCopies, LeasesOf
<1> HIDE DEF A, L
<1>4. Cardinality(A \cup {d}) = Cardinality(A) + 1 /\ Cardinality(A) \in Nat
  BY <1>1, FS_AddElement, FS_CardinalityType
<1>5. Copies(<<j>>, id) = IF IdOf[j] = id THEN 1 ELSE 0
  BY CopiesOne
<1> QED BY <1>2, <1>3, <1>4, <1>5 DEF L

\* All that have expired, whose jobs are js.
LEMMA LeaseCopiesExpired ==
    ASSUME TypeOK, NEW js \in ExpiredJobs, NEW id \in Ids
    PROVE  LeaseCopies(inflight, id) = LeaseCopies(Without(Expired), id) + Copies(js, id)
<1> DEFINE n == Cardinality(Expired)
           A == LeasesOf(inflight, id) \cap Expired
           P == Places(js, id)
<1>1. PICK s \in Orders(Expired) : js = LeasedBy(s)
  BY DEF ExpiredJobs
<1>2. Expired \in SUBSET Deliveries
  BY DEF Expired
<1>3. IsFiniteSet(Expired) /\ n \in Nat
  BY DeliveriesAssumption, FS_Subset, FS_CardinalityType, <1>2
<1>4. s \in Injection(1..n, Expired)
  BY <1>1 DEF Orders, Injection
<1> HIDE DEF n
<1>5. s \in Surjection(1..n, Expired)
  <2>1. Cardinality(1..n) = n
    BY <1>3, FS_Interval
  <2> QED BY <1>3, <1>4, <2>1, FS_Injection DEF n
<1>6. /\ s \in [1..n -> Expired] /\ DOMAIN s = 1..n
      /\ \A x, y \in 1..n : s[x] = s[y] => x = y
      /\ \A d \in Expired : \E i \in 1..n : s[i] = d
  BY <1>4, <1>5 DEF Injection, Surjection, IsInjective
<1>7. DOMAIN js = 1..n /\ \A i \in 1..n : js[i] = inflight[s[i]]
  BY <1>1, <1>6 DEF LeasedBy
<1>8. P = {i \in 1..n : IdOf[inflight[s[i]]] = id}
  BY <1>7 DEF Places
<1>9. A = {d \in Expired : IdOf[inflight[d]] = id}
  BY DEF LeasesOf, Expired
<1>10. Copies(js, id) = Cardinality(P) /\ IsFiniteSet(P)
  BY ExpiredJobsSeq, CopiesPlaces
<1> DEFINE f == [i \in P |-> s[i]]
<1> HIDE DEF A, P
<1>11. f \in Bijection(P, A)
  <2>1. f \in [P -> A]
    BY <1>6, <1>8, <1>9
  <2>2. \A x, y \in P : f[x] = f[y] => x = y
    BY <1>6, <1>8
  <2>3. ASSUME NEW d \in A PROVE \E i \in P : f[i] = d
    <3>1. PICK i \in 1..n : s[i] = d
      BY <1>6, <1>9
    <3>2. i \in P
      BY <1>8, <1>9, <3>1
    <3> QED BY <3>1, <3>2
  <2> HIDE DEF f
  <2> QED BY <2>1, <2>2, <2>3 DEF Bijection, Injection, Surjection, IsInjective
<1>12. Cardinality(A) = Cardinality(P)
  BY <1>10, <1>11, FS_Bijection DEF ExistsBijection
<1>13. LeaseCopies(inflight, id) = LeaseCopies(Without(Expired), id) + Cardinality(A)
  BY <1>2, LeaseCopiesWithout DEF A
<1> QED BY <1>10, <1>12, <1>13

\* DedupExact, of any index, queue and leases.
Exact(index, queue, leases) ==
    \A id \in Ids : index[id] = Copies(queue, id) + LeaseCopies(leases, id)

\* DedupExact is Exact of the present state, and its next value of the next one.
LEMMA DedupExactExact ==
    /\ DedupExact <=> (closed \/ Exact(dedup, q, inflight))
    /\ DedupExact' <=> (closed' \/ Exact(dedup', q', inflight'))
BY DEF DedupExact, Exact

\* Adding and deleting, where what is deleted was counted.
LEMMA IndexCounts ==
    ASSUME NEW index \in [Ids -> Nat], NEW js \in Seq(Jobs), NEW id \in Ids
    PROVE  /\ IndexAdd(index, js)[id] = index[id] + Copies(js, id)
           /\ index[id] >= Copies(js, id) => IndexDel(index, js)[id] = index[id] - Copies(js, id)
<1>1. index[id] \in Nat /\ Copies(js, id) \in Nat
  BY CopiesNat
<1>2. IndexAdd(index, js)[id] = index[id] + Copies(js, id)
  BY DEF IndexAdd
<1>3. IndexDel(index, js)[id] = IF index[id] > Copies(js, id) THEN index[id] - Copies(js, id) ELSE 0
  BY DEF IndexDel
<1> QED BY <1>1, <1>2, <1>3

\* The queue deliverLocked leaves has what it did not hand out besides.
LEMMA CopiesQueueAfter ==
    ASSUME TypeOK, NEW js \in Seq(Jobs), NEW id \in Ids
    PROVE  Copies(QueueAfter(js), id) = Copies(Unhanded(js), id) + Copies(q, id)
<1>1. Unhanded(js) \in Seq(Jobs) /\ q \in Seq(Jobs)
  BY AfterTypes DEF TypeOK
<1>2. /\ Reverse(Unhanded(js)) \in Seq(Jobs)
      /\ Copies(Reverse(Unhanded(js)), id) = Copies(Unhanded(js), id)
  BY <1>1, CopiesReverse
<1>3. Copies(Reverse(Unhanded(js)) \o q, id)
         = Copies(Reverse(Unhanded(js)), id) + Copies(q, id)
  BY <1>1, <1>2, CopiesConcat
<1> QED BY <1>2, <1>3 DEF QueueAfter

\* Jobs whose leases ended go through deliverLocked.
LEMMA DeliverExact ==
    ASSUME TypeOK, NEW js \in Seq(Jobs), NEW leases \in [Deliveries -> Maybe],
           Exact(dedup, q, inflight),
           \A id \in Ids : LeaseCopies(inflight, id) = LeaseCopies(leases, id) + Copies(js, id)
    PROVE  Exact(ReindexedAfter(js), QueueAfter(js), leases)
<1> SUFFICES ASSUME NEW id \in Ids
             PROVE  ReindexedAfter(js)[id]
                       = Copies(QueueAfter(js), id) + LeaseCopies(leases, id)
  BY DEF Exact
<1>1. dedup \in [Ids -> Nat] /\ q \in Seq(Jobs) /\ Unhanded(js) \in Seq(Jobs)
  BY AfterTypes DEF TypeOK
<1>2. /\ Copies(js, id) \in Nat /\ Copies(q, id) \in Nat /\ Copies(Unhanded(js), id) \in Nat
      /\ LeaseCopies(leases, id) \in Nat
  BY <1>1, CopiesNat, LeaseCopiesNat
<1>3. dedup[id] = Copies(q, id) + LeaseCopies(leases, id) + Copies(js, id)
  <2>1. dedup[id] = Copies(q, id) + LeaseCopies(inflight, id)
    BY DEF Exact
  <2> QED BY <1>2, <2>1
<1>4. IndexDel(dedup, js)[id] = Copies(q, id) + LeaseCopies(leases, id)
  <2>1. dedup[id] >= Copies(js, id)
    BY <1>2, <1>3
  <2>2. IndexDel(dedup, js)[id] = dedup[id] - Copies(js, id)
    BY <1>1, <2>1, IndexCounts
  <2> QED BY <1>2, <1>3, <2>2
<1>5. ReindexedAfter(js)[id] = IndexDel(dedup, js)[id] + Copies(Unhanded(js), id)
  <2>1. IndexDel(dedup, js) \in [Ids -> Nat]
    BY <1>1, IndexNat
  <2> QED BY <1>1, <2>1, IndexCounts DEF ReindexedAfter
<1>6. Copies(QueueAfter(js), id) = Copies(Unhanded(js), id) + Copies(q, id)
  BY CopiesQueueAfter
<1> QED BY <1>2, <1>4, <1>5, <1>6

\* A pop.
LEMMA PopExact ==
    ASSUME NEW index \in [Ids -> Nat], NEW queue \in Seq(Jobs), queue # <<>>,
           NEW leases \in [Deliveries -> Maybe], Exact(index, queue, leases)
    PROVE  Exact(IndexDel(index, <<Head(queue)>>), Tail(queue), leases)
<1> SUFFICES ASSUME NEW id \in Ids
             PROVE  IndexDel(index, <<Head(queue)>>)[id]
                       = Copies(Tail(queue), id) + LeaseCopies(leases, id)
  BY DEF Exact
<1> DEFINE h == <<Head(queue)>>
<1>1. Head(queue) \in Jobs /\ Tail(queue) \in Seq(Jobs)
  BY HeadTailProperties
<1>2. h \in Seq(Jobs)
  BY <1>1
<1>3. Copies(queue, id) = Copies(h, id) + Copies(Tail(queue), id)
  BY CopiesHeadTail
<1> HIDE DEF h
<1>4. Copies(h, id) \in Nat /\ Copies(Tail(queue), id) \in Nat /\ LeaseCopies(leases, id) \in Nat
  BY <1>1, <1>2, CopiesNat, LeaseCopiesNat
<1>5. index[id] = Copies(h, id) + Copies(Tail(queue), id) + LeaseCopies(leases, id)
  BY <1>3, <1>4 DEF Exact
<1>6. IndexDel(index, h)[id] = index[id] - Copies(h, id)
  <2>1. index[id] >= Copies(h, id)
    BY <1>4, <1>5
  <2> QED BY <1>2, <2>1, IndexCounts
<1>7. IndexDel(index, h)[id] = Copies(Tail(queue), id) + LeaseCopies(leases, id)
  BY <1>4, <1>5, <1>6
<1> QED BY <1>7 DEF h

\* No step of an open bus leaves a count behind or loses one.
LEMMA DedupStep ==
    TypeOK /\ WaitersWait /\ LeasesIssued /\ DedupExact /\ [Next]_vars => DedupExact'
<1> SUFFICES ASSUME TypeOK, WaitersWait, LeasesIssued, DedupExact, [Next]_vars, ~closed'
             PROVE  Exact(dedup', q', inflight')
  BY DedupExactExact
<1>1. /\ dedup \in [Ids -> Nat] /\ q \in Seq(Jobs) /\ inflight \in [Deliveries -> Maybe]
      /\ hand \in [Takers -> Maybe] /\ HandsFull
  BY DEF TypeOK, WaitersWait
<1>2. CASE Restart
  <2>1. /\ q' = disk.q /\ inflight' = disk.inflight
        /\ dedup' = [id \in Ids |-> Copies(disk.q, id) + LeaseCopies(disk.inflight, id)]
    BY <1>2 DEF Restart
  <2> QED BY <2>1 DEF Exact
<1>3. CASE ~Restart
  <2>1. ~closed
    <3>1. CASE Next
      BY <1>3, <3>1, RestartOrNot
    <3>2. CASE UNCHANGED vars
      BY <3>2 DEF vars
    <3> QED BY <3>1, <3>2
  <2>2. Exact(dedup, q, inflight)
    BY <2>1, DedupExactExact
  <2>3. \A id \in Ids : Copies(q, id) \in Nat /\ LeaseCopies(inflight, id) \in Nat
    BY <1>1, CopiesNat, LeaseCopiesNat
  <2>4. ASSUME UNCHANGED <<dedup, q, inflight>> PROVE Exact(dedup', q', inflight')
    BY <2>2, <2>4
  <2>5. ASSUME NEW j \in Jobs, q' = Append(q, j) \/ q' = <<j>> \o q,
               dedup' = IndexAdd(dedup, <<j>>), inflight' = inflight
        PROVE  Exact(dedup', q', inflight')
    <3> SUFFICES ASSUME NEW id \in Ids
                 PROVE  dedup'[id] = Copies(q', id) + LeaseCopies(inflight, id)
      BY <2>5 DEF Exact
    <3>1. <<j>> \in Seq(Jobs) /\ Copies(<<j>>, id) \in Nat
      BY CopiesOne, CopiesNat
    <3>2. Copies(q', id) = Copies(q, id) + Copies(<<j>>, id)
      <4>1. Append(q, j) = q \o <<j>>
        BY <1>1, AppendIsConcat
      <4>2. /\ Copies(q \o <<j>>, id) = Copies(q, id) + Copies(<<j>>, id)
            /\ Copies(<<j>> \o q, id) = Copies(<<j>>, id) + Copies(q, id)
        BY <1>1, <3>1, CopiesConcat
      <4>3. Copies(<<j>>, id) + Copies(q, id) = Copies(q, id) + Copies(<<j>>, id)
        BY <2>3, <3>1
      <4> QED BY <2>5, <4>1, <4>2, <4>3
    <3>3. dedup'[id] = dedup[id] + Copies(<<j>>, id)
      BY <1>1, <2>5, <3>1, IndexCounts
    <3>4. dedup[id] = Copies(q, id) + LeaseCopies(inflight, id)
      BY <2>2 DEF Exact
    <3> QED BY <2>3, <3>1, <3>2, <3>3, <3>4
  <2>6. ASSUME NEW js \in ExpiredJobs
        PROVE  /\ Exact(ReindexedAfter(js), QueueAfter(js), Without(Expired))
               /\ ReindexedAfter(js) \in [Ids -> Nat] /\ QueueAfter(js) \in Seq(Jobs)
               /\ Without(Expired) \in [Deliveries -> Maybe]
    <3>1. js \in Seq(Jobs)
      BY ExpiredJobsSeq
    <3>2. Without(Expired) \in [Deliveries -> Maybe]
      BY WithoutType
    <3> QED BY <2>2, <3>1, <3>2, AfterTypes, LeaseCopiesExpired, DeliverExact
  <2>7. ASSUME NEW js \in ExpiredJobs, NEW t \in Takers, NEW next, Pop(t, js, next),
               inflight' = Without(Expired)
        PROVE  Exact(dedup', q', inflight')
    <3>1. QueueAfter(js) # <<>>
      BY <2>7 DEF Pop
    <3>2. Exact(IndexDel(ReindexedAfter(js), <<Head(QueueAfter(js))>>), Tail(QueueAfter(js)),
                Without(Expired))
      BY <2>6, <3>1, PopExact
    <3>3. \/ /\ q' = Tail(QueueAfter(js))
             /\ dedup' = IndexDel(ReindexedAfter(js), <<Head(QueueAfter(js))>>)
          \/ q' = QueueAfter(js) /\ dedup' = ReindexedAfter(js)
      BY <2>7 DEF Pop
    <3> QED BY <2>6, <2>7, <3>2, <3>3
  <2>8. ASSUME NEW j \in Jobs, Put(j) PROVE Exact(dedup', q', inflight')
    <3>1. CASE PutQueues(j)
      BY <2>5, <3>1 DEF PutQueues
    <3>2. CASE PutMerges(j) \/ PutHandsOff(j) \/ PutRefused(j)
      BY <2>4, <3>2 DEF PutMerges, PutHandsOff, PutRefused, memory, vars
    <3> QED BY <2>8, <3>1, <3>2 DEF Put
  <2>9. ASSUME NEW t \in Takers, TakerStep(t) PROVE Exact(dedup', q', inflight')
    <3>1. CASE TakeChan(t)
      <4>1. inflight' = Without(Expired)
        BY <3>1 DEF TakeChan
      <4>2. PICK js \in ExpiredJobs :
               \/ Pop(t, js, "wait")
               \/ QueueAfter(js) = <<>> /\ q' = <<>> /\ dedup' = ReindexedAfter(js)
        BY <3>1 DEF TakeChan
      <4> QED BY <2>6, <2>7, <4>1, <4>2
    <3>2. CASE TryTake(t)
      <4>1. inflight' = Without(Expired)
        BY <3>2 DEF TryTake
      <4>2. PICK js \in ExpiredJobs :
               \/ Pop(t, js, "got")
               \/ QueueAfter(js) = <<>> /\ q' = <<>> /\ dedup' = ReindexedAfter(js)
        BY <3>2 DEF TryTake
      <4> QED BY <2>6, <2>7, <4>1, <4>2
    <3>3. CASE Receive(t) \/ TakeFails(t) \/ HoldFails(t)
      BY <2>4, <3>3 DEF Receive, TakeFails, HoldFails
    <3>4. CASE Cancel(t)
      <4>1. /\ inflight' = inflight
            /\ \/ UNCHANGED <<q, dedup>>
               \/ hand[t] # NoJob /\ q' = <<hand[t]>> \o q /\ dedup' = IndexAdd(dedup, <<hand[t]>>)
        BY <3>4 DEF Cancel
      <4>2. hand[t] # NoJob => hand[t] \in Jobs
        BY <1>1 DEF Maybe
      <4> QED BY <2>4, <2>5, <4>1, <4>2
    <3>5. ASSUME NEW d \in Deliveries, Hold(t, d) PROVE Exact(dedup', q', inflight')
      <4> DEFINE j == hand[t]
      <4>1. /\ q' = q /\ dedup' = IndexAdd(dedup, <<j>>) /\ inflight' = [inflight EXCEPT ![d] = j]
            /\ pc[t] = "got" /\ d \notin issued
        BY <3>5 DEF Hold
      <4>2. j \in Jobs /\ inflight[d] = NoJob
        BY <1>1, <4>1 DEF HandsFull, Maybe, LeasesIssued
      <4> HIDE DEF j
      <4> SUFFICES ASSUME NEW id \in Ids
                   PROVE  dedup'[id] = Copies(q, id) + LeaseCopies(inflight', id)
        BY <4>1 DEF Exact
      <4>3. LeaseCopies(inflight', id) = LeaseCopies(inflight, id) + Copies(<<j>>, id)
        BY <4>1, <4>2, LeaseCopiesAdd
      <4>4. <<j>> \in Seq(Jobs) /\ Copies(<<j>>, id) \in Nat
        BY <4>2, CopiesOne, CopiesNat
      <4>5. dedup'[id] = dedup[id] + Copies(<<j>>, id)
        BY <1>1, <4>1, <4>4, IndexCounts
      <4>6. dedup[id] = Copies(q, id) + LeaseCopies(inflight, id)
        BY <2>2 DEF Exact
      <4> QED BY <2>3, <4>3, <4>4, <4>5, <4>6
    <3>6. CASE Requeue(t)
      <4> DEFINE js == <<hand[t]>>
      <4>1. /\ q' = QueueAfter(js) /\ dedup' = IndexAdd(dedup, Unhanded(js))
            /\ inflight' = inflight /\ pc[t] = "requeue"
        BY <2>1, <3>6 DEF Requeue
      <4>2. js \in Seq(Jobs)
        BY <1>1, <4>1 DEF HandsFull, Maybe
      <4> HIDE DEF js
      <4>3. Unhanded(js) \in Seq(Jobs)
        BY <4>2, AfterTypes
      <4> SUFFICES ASSUME NEW id \in Ids
                   PROVE  dedup'[id] = Copies(QueueAfter(js), id) + LeaseCopies(inflight, id)
        BY <4>1 DEF Exact
      <4>4. Copies(QueueAfter(js), id) = Copies(Unhanded(js), id) + Copies(q, id)
        BY <4>2, CopiesQueueAfter
      <4>5. dedup'[id] = dedup[id] + Copies(Unhanded(js), id)
        BY <1>1, <4>1, <4>3, IndexCounts
      <4>6. dedup[id] = Copies(q, id) + LeaseCopies(inflight, id)
        BY <2>2 DEF Exact
      <4>7. Copies(Unhanded(js), id) \in Nat
        BY <4>3, CopiesNat
      <4> QED BY <2>3, <4>4, <4>5, <4>6, <4>7
    <3> QED BY <2>9, <3>1, <3>2, <3>3, <3>4, <3>5, <3>6 DEF TakerStep
  <2>10. ASSUME NEW d \in Deliveries, DeliveryStep(d) PROVE Exact(dedup', q', inflight')
    <3>1. CASE Ack(d)
      <4> DEFINE j == inflight[d]
      <4>1. /\ q' = q /\ dedup' = IndexDel(dedup, <<j>>) /\ inflight' = Without({d})
            /\ j # NoJob
        BY <3>1 DEF Ack
      <4>2. j \in Jobs /\ Without({d}) \in [Deliveries -> Maybe]
        BY <1>1, <4>1, WithoutType DEF Maybe
      <4> SUFFICES ASSUME NEW id \in Ids
                   PROVE  dedup'[id] = Copies(q, id) + LeaseCopies(Without({d}), id)
        BY <4>1 DEF Exact
      <4>3. LeaseCopies(inflight, id) = LeaseCopies(Without({d}), id) + Copies(<<j>>, id)
        BY <4>1, LeaseCopiesOne
      <4> HIDE DEF j
      <4>4. /\ <<j>> \in Seq(Jobs) /\ Copies(<<j>>, id) \in Nat
            /\ LeaseCopies(Without({d}), id) \in Nat
        BY <4>2, CopiesOne, CopiesNat, LeaseCopiesNat
      <4>5. dedup[id] = Copies(q, id) + LeaseCopies(inflight, id)
        BY <2>2 DEF Exact
      <4>6. dedup[id] >= Copies(<<j>>, id)
        BY <2>3, <4>3, <4>4, <4>5
      <4>7. dedup'[id] = dedup[id] - Copies(<<j>>, id)
        BY <1>1, <4>1, <4>4, <4>6, IndexCounts
      <4> QED BY <2>3, <4>3, <4>4, <4>5, <4>7
    <3>2. CASE Nack(d)
      <4> DEFINE js == <<inflight[d]>>
      <4>1. /\ q' = QueueAfter(js) /\ dedup' = ReindexedAfter(js) /\ inflight' = Without({d})
            /\ inflight[d] # NoJob
        BY <3>2 DEF Nack
      <4>2. js \in Seq(Jobs) /\ Without({d}) \in [Deliveries -> Maybe]
        BY <1>1, <4>1, WithoutType DEF Maybe
      <4>3. \A id \in Ids :
               LeaseCopies(inflight, id) = LeaseCopies(Without({d}), id) + Copies(js, id)
        BY <4>1, LeaseCopiesOne
      <4> HIDE DEF js
      <4>4. Exact(ReindexedAfter(js), QueueAfter(js), Without({d}))
        BY <2>2, <4>2, <4>3, DeliverExact
      <4> QED BY <4>1, <4>4
    <3>3. CASE LeaseElapses(d)
      BY <2>4, <3>3 DEF LeaseElapses, memory
    <3> QED BY <2>10, <3>1, <3>2, <3>3 DEF DeliveryStep
  <2>11. CASE ExpireLeases
    <3>1. PICK js \in ExpiredJobs : q' = QueueAfter(js) /\ dedup' = ReindexedAfter(js)
      BY <2>11 DEF ExpireLeases
    <3>2. inflight' = Without(Expired)
      BY <2>11 DEF ExpireLeases
    <3> QED BY <2>6, <3>1, <3>2
  <2>12. ~Close
    BY DEF Close
  <2>13. CASE UNCHANGED vars
    BY <2>4, <2>13 DEF vars
  <2> QED BY <1>3, <2>8, <2>9, <2>10, <2>11, <2>12, <2>13 DEF Next
<1> QED BY <1>2, <1>3

\* The index counts the queued and leased copies of each id while the bus is
\* open (DedupExact).
THEOREM IndexExact == Spec => []DedupExact
<1>1. Init => DedupExact
  <2> SUFFICES ASSUME Init PROVE Exact(dedup, q, inflight)
    BY DedupExactExact
  <2>1. q = <<>> /\ inflight = NoLeases /\ dedup = [id \in Ids |-> 0]
    BY DEF Init
  <2>2. ASSUME NEW id \in Ids PROVE Copies(q, id) = 0 /\ LeaseCopies(inflight, id) = 0
    <3>1. /\ {i \in DOMAIN q : IdOf[q[i]] = id} = {}
          /\ {d \in Deliveries : inflight[d] # NoJob /\ IdOf[inflight[d]] = id} = {}
      BY <2>1 DEF NoLeases
    <3> QED BY <3>1, FS_EmptySet DEF Copies, LeaseCopies
  <2> QED BY <2>1, <2>2 DEF Exact
<1>2. TypeOK /\ WaitersWait /\ LeasesIssued /\ DedupExact /\ [Next]_vars => DedupExact'
  BY DedupStep
<1> QED BY <1>1, <1>2, TypeCorrect, WaitersAgree, IssuedInv, PTL DEF Spec

-----------------------------------------------------------------------------
(* The life of a job, read off where it is.                                *)

\* LifeOf asks for the places of a job one after the other: as no job is in two
\* of them, and only accepted ones are in any, each life is one place or fate.
LEMMA LifeIs ==
    PlacementInv =>
       \A j \in Jobs :
          /\ fate[j] \in Fates
          /\ LifeOf(j) = "ready" <=> j \in ToSet(q)
          /\ LifeOf(j) = "held" <=> j \in InHand
          /\ LifeOf(j) = "leased" <=> j \in Leased(inflight)
          /\ LifeOf(j) = "gone" <=> fate[j] \in {"accepted", "unsaved"} /\ j \notin Located
          /\ \A f \in {"fresh", "merged", "acked"} : LifeOf(j) = f <=> fate[j] = f
<1> SUFFICES ASSUME PlacementInv, NEW j \in Jobs
             PROVE  /\ fate[j] \in Fates
                    /\ LifeOf(j) = "ready" <=> j \in ToSet(q)
                    /\ LifeOf(j) = "held" <=> j \in InHand
                    /\ LifeOf(j) = "leased" <=> j \in Leased(inflight)
                    /\ LifeOf(j) = "gone" <=> fate[j] \in {"accepted", "unsaved"} /\ j \notin Located
                    /\ \A f \in {"fresh", "merged", "acked"} : LifeOf(j) = f <=> fate[j] = f
  OBVIOUS
<1>1. fate[j] \in Fates
  BY DEF PlacementInv, TypeOK
<1>2. /\ j \in InHand => j \notin ToSet(q) /\ j \notin Leased(inflight)
      /\ j \in Leased(inflight) => j \notin ToSet(q)
  BY DEF PlacementInv, SinglePlace, OncePlaced, NoRepetition, InHand
<1>3. j \in ToSet(q) \cup InHand \cup Leased(inflight) => fate[j] \in {"accepted", "unsaved"}
  BY DEF PlacementInv, OnlyUnackedInside, Located
<1> QED BY <1>1, <1>2, <1>3 DEF LifeOf, Fates, Located

\* The same of the state after a step.
LEMMA LifeIsNext ==
    PlacementInv' =>
       (\A j \in Jobs :
          /\ fate[j] \in Fates
          /\ LifeOf(j) = "ready" <=> j \in ToSet(q)
          /\ LifeOf(j) = "held" <=> j \in InHand
          /\ LifeOf(j) = "leased" <=> j \in Leased(inflight)
          /\ LifeOf(j) = "gone" <=> fate[j] \in {"accepted", "unsaved"} /\ j \notin Located
          /\ \A f \in {"fresh", "merged", "acked"} : LifeOf(j) = f <=> fate[j] = f)'
BY LifeIs, PTL

-----------------------------------------------------------------------------
(* The steps of Mailbox, as steps of WorkQueue.                            *)

\* Close empties the list of waiters, and no call adds one afterwards.
ClosedAlone == closed => waiters = <<>>

\* What the proof of the refinement knows of every state.
PromiseInv ==
    PlacementInv /\ WaitersWait /\ LeasesIssued /\ DedupExact /\ ClosedAlone

\* A closed bus gains no waiter.
LEMMA ClosedAloneStep == TypeOK /\ ClosedAlone /\ [Next]_vars => ClosedAlone'
<1> SUFFICES ASSUME TypeOK, ClosedAlone, [Next]_vars, closed'
             PROVE  waiters' = <<>>
  BY DEF ClosedAlone
<1>1. CASE closed
  <2>1. waiters = <<>> /\ Len(waiters) = 0
    BY <1>1 DEF ClosedAlone
  <2>2. \A js \in Seq(Jobs) : WaitersAfter(js) = <<>>
    <3> SUFFICES ASSUME NEW js \in Seq(Jobs) PROVE WaitersAfter(js) = <<>>
      OBVIOUS
    <3>1. Len(WaitersAfter(js)) = Len(waiters) - HandOffs(js)
          /\ HandOffs(js) \in Nat /\ HandOffs(js) <= Len(waiters)
          /\ WaitersAfter(js) \in Seq(Takers)
      BY WaitersAfterElems, HandOffsBound, AfterTypes
    <3> QED BY <2>1, <3>1
  <2>3. \A t \in Takers : WaitersWithout(t) = <<>>
    BY <2>1 DEF WaitersWithout, ToSet
  <2>4. CASE UNCHANGED vars
    BY <2>1, <2>4 DEF vars
  <2>5. ASSUME NEW j \in Jobs, Put(j)
        PROVE  waiters' = <<>>
    BY <1>1, <2>1, <2>5 DEF Put, PutMerges, PutHandsOff, PutQueues, PutRefused, vars
  <2>6. ASSUME NEW t \in Takers, TakerStep(t)
        PROVE  waiters' = <<>>
    <3>1. \A d \in Deliveries : Hold(t, d) => waiters' = waiters
      BY DEF Hold
    <3>2. Requeue(t) => waiters' = waiters
      BY <1>1 DEF Requeue
    <3>3. ~TakeChan(t) /\ ~TryTake(t)
      BY <1>1 DEF TakeChan, TryTake
    <3>4. Receive(t) \/ TakeFails(t) \/ HoldFails(t) => waiters' = waiters
      BY DEF Receive, TakeFails, HoldFails
    <3>5. Cancel(t) => waiters' = <<>>
      BY <2>3 DEF Cancel
    <3> QED BY <2>1, <2>6, <3>1, <3>2, <3>3, <3>4, <3>5 DEF TakerStep
  <2>7. ASSUME NEW d \in Deliveries, DeliveryStep(d)
        PROVE  waiters' = <<>>
    <3>1. CASE Nack(d)
      <4>1. <<inflight[d]>> \in Seq(Jobs)
        BY <3>1 DEF Nack, TypeOK, Maybe
      <4>2. waiters' = WaitersAfter(<<inflight[d]>>)
        BY <3>1 DEF Nack
      <4> QED BY <2>2, <4>1, <4>2
    <3> QED BY <2>1, <2>7, <3>1 DEF DeliveryStep, Ack, LeaseElapses, memory
  <2>8. ExpireLeases \/ Close \/ Restart => waiters' = <<>>
    BY <1>1 DEF ExpireLeases, Close, Restart
  <2> QED BY <2>4, <2>5, <2>6, <2>7, <2>8 DEF Next
<1>2. CASE ~closed
  <2>1. Close
    <3>1. ~(ExpireLeases \/ Restart) /\ ~UNCHANGED vars
      BY <1>2 DEF ExpireLeases, Restart, vars
    <3>2. \A j \in Jobs : Put(j) => closed' = closed
      <4>1. \A j \in Jobs : PutMerges(j) => closed' = closed
        BY DEF PutMerges, memory
      <4>2. \A j \in Jobs : PutHandsOff(j) \/ PutQueues(j) => closed' = closed
        BY DEF PutHandsOff, PutQueues
      <4>3. \A j \in Jobs : PutRefused(j) => closed' = closed
        BY DEF PutRefused, vars
      <4> QED BY <4>1, <4>2, <4>3 DEF Put
    <3>3. \A t \in Takers : ~TakerStep(t)
      BY <1>2 DEF TakerStep, TakeChan, TryTake, Receive, TakeFails, Cancel, Hold,
                  HoldFails, Requeue
    <3>4. \A d \in Deliveries : ~DeliveryStep(d)
      BY <1>2 DEF DeliveryStep, Ack, Nack, LeaseElapses, memory
    <3> QED BY <1>2, <3>1, <3>2, <3>3, <3>4 DEF Next
  <2> QED BY <2>1 DEF Close
<1> QED BY <1>1, <1>2

\* The life of a job is the same after a step that leaves it where it was.
LEMMA LivesApart ==
    ASSUME NEW js,
           \A k \in Jobs \ js :
              /\ fate'[k] = fate[k]
              /\ k \in ToSet(q') <=> k \in ToSet(q)
              /\ k \in InHand' <=> k \in InHand
              /\ k \in Leased(inflight') <=> k \in Leased(inflight)
    PROVE  \A k \in Jobs \ js : LifeOf(k)' = LifeOf(k)
BY DEF LifeOf

\* Jobs that deliverLocked hands out join those in hand, none leaves them.
LEMMA DeliverHolds ==
    ASSUME TypeOK, IsInjective(waiters), NEW js \in Seq(Jobs), NEW hands,
           \A t \in ToSet(waiters) : hands[t] = NoJob
    PROVE  /\ Held(hands) \subseteq Held(HandsWith(hands, js))
           /\ Held(HandsWith(hands, js)) \subseteq Held(hands) \cup ToSet(js)
<1>1. /\ \A t \in Takers :
           /\ t \in ToSet(WaitersAfter(js)) =>
                 t \in ToSet(waiters) /\ HandsWith(hands, js)[t] = hands[t]
           /\ t \in ToSet(waiters) \ ToSet(WaitersAfter(js)) =>
                 HandsWith(hands, js)[t] \in ToSet(js)
           /\ t \notin ToSet(waiters) => HandsWith(hands, js)[t] = hands[t]
  BY DeliverWakes
<1>2. \A t \in Takers : \/ HandsWith(hands, js)[t] = hands[t]
                        \/ hands[t] = NoJob /\ HandsWith(hands, js)[t] \in ToSet(js)
  BY <1>1
<1> QED BY <1>2 DEF Held

\* A step in which leases end, jobs go to takers and no job is lost is a
\* Circulate, or changes no life.
LEMMA Circulates ==
    ASSUME PlacementInv, PlacementInv', UNCHANGED <<fate, closed>>,
           Located' = Located, InHand \subseteq InHand',
           Leased(inflight') \subseteq Leased(inflight),
           NEW j, InHand' \ InHand \subseteq Leased(inflight) \cup {j},
           closed => /\ InHand' = InHand
                     /\ \A k, l \in Leased(inflight) \ Leased(inflight') : k = l
    PROVE  [WQ!Next]_(WQ!wqVars)
<1> DEFINE back == Leased(inflight) \ Leased(inflight')
           out == InHand' \ InHand
<1>1. \A k \in Jobs :
         /\ LifeOf(k) = "ready" <=> k \in ToSet(q)
         /\ LifeOf(k) = "leased" <=> k \in Leased(inflight)
  BY LifeIs
<1>2. \A k \in Jobs :
         /\ k \in ToSet(q') => LifeOf(k)' = "ready"
         /\ k \in InHand' => LifeOf(k)' = "held"
         /\ k \in Leased(inflight') => LifeOf(k)' = "leased"
  BY LifeIsNext
<1>3. \A k \in Jobs :
         /\ ~(k \in ToSet(q) /\ k \in InHand) /\ ~(k \in ToSet(q) /\ k \in Leased(inflight))
         /\ ~(k \in InHand /\ k \in Leased(inflight))
         /\ ~(k \in InHand' /\ k \in Leased(inflight'))
  BY DEF PlacementInv, SinglePlace, OncePlaced, NoRepetition, InHand
<1>4. Located \subseteq Jobs /\ Located' \subseteq Jobs
  <2>1. InHand \subseteq Jobs /\ Leased(inflight) \subseteq Jobs /\ ToSet(q) \subseteq Jobs
    BY ToSetElems DEF PlacementInv, TypeOK, InHand, Leased, Maybe
  <2> QED BY <2>1 DEF Located
<1>5. /\ Located = ToSet(q) \cup InHand \cup Leased(inflight)
      /\ Located' = ToSet(q') \cup InHand' \cup Leased(inflight')
  BY DEF Located
<1>6. out \subseteq back \cup ToSet(q) /\ back \cup out \subseteq Jobs
  BY <1>3, <1>4, <1>5
<1>7. \A k \in Jobs : LifeOf(k)' = IF k \in out THEN "held"
                                   ELSE IF k \in back THEN "ready" ELSE LifeOf(k)
  <2> SUFFICES ASSUME NEW k \in Jobs
               PROVE  LifeOf(k)' = IF k \in out THEN "held"
                                   ELSE IF k \in back THEN "ready" ELSE LifeOf(k)
    OBVIOUS
  <2>1. CASE k \in out
    BY <1>2, <2>1
  <2>2. CASE k \notin out /\ k \in back
    <3>1. k \in ToSet(q')
      BY <1>3, <1>5, <2>2
    <3> QED BY <1>2, <2>2, <3>1
  <2>3. CASE k \notin out /\ k \notin back
    <3>1. /\ k \in InHand' <=> k \in InHand
          /\ k \in Leased(inflight') <=> k \in Leased(inflight)
          /\ k \in ToSet(q') <=> k \in ToSet(q)
      <4>1. k \in InHand' <=> k \in InHand
        BY <2>3
      <4>2. k \in Leased(inflight') <=> k \in Leased(inflight)
        BY <2>3
      <4>3. ~(k \in ToSet(q') /\ k \in InHand') /\ ~(k \in ToSet(q') /\ k \in Leased(inflight'))
        BY DEF PlacementInv, SinglePlace, OncePlaced, NoRepetition, InHand
      <4> QED BY <1>3, <1>5, <4>1, <4>2, <4>3
    <3>2. LifeOf(k)' = LifeOf(k)
      BY <3>1 DEF LifeOf
    <3> QED BY <2>3, <3>2
  <2> QED BY <2>1, <2>2, <2>3
<1>8. CASE back \cup out = {}
  BY <1>7, <1>8 DEF WQ!wqVars
<1>9. CASE back \cup out # {}
  <2>1. /\ WQ!Are("leased") = Leased(inflight)
        /\ WQ!Are("ready") = ToSet(q)
    BY <1>1, <1>4, <1>5 DEF WQ!Are
  <2>2. \A k, l \in out \ back : k = l
    BY <1>3, <1>6
  <2>3. ~closed \/ (out = {} /\ \A k, l \in back : k = l)
    OBVIOUS
  <2>4. back \subseteq WQ!Are("leased") /\ out \subseteq back \cup WQ!Are("ready")
    BY <1>6, <2>1
  <2>5. [k \in Jobs |-> LifeOf(k)]'
          = [k \in Jobs |-> IF k \in out THEN "held"
                            ELSE IF k \in back THEN "ready"
                            ELSE [l \in Jobs |-> LifeOf(l)][k]]
    BY <1>7
  <2>6. (~closed)' = ~closed
    OBVIOUS
  <2> HIDE DEF back, out
  <2>7. WQ!Circulate(back, out)
    BY <1>9, <2>2, <2>3, <2>4, <2>5, <2>6 DEF WQ!Circulate
  <2> QED BY <2>4, <2>7 DEF WQ!Next
<1> QED BY <1>8, <1>9

\* A step that leaves the jobs where they are is no step of WorkQueue.
LEMMA NoLifeChanges ==
    ASSUME UNCHANGED <<closed, q, hand, inflight, fate>>
    PROVE  UNCHANGED WQ!wqVars
<1>1. \A j \in Jobs : LifeOf(j)' = LifeOf(j)
  BY DEF LifeOf, InHand, Leased
<1> QED BY <1>1 DEF WQ!wqVars

\* The life of one job changes.
LEMMA OneLifeChanges ==
    ASSUME NEW i \in Jobs, \A k \in Jobs \ {i} : LifeOf(k)' = LifeOf(k)
    PROVE  \A s : LifeOf(i)' = s => WQ!Become({i}, s)
<1> SUFFICES ASSUME NEW s, LifeOf(i)' = s PROVE WQ!Become({i}, s)
  OBVIOUS
<1>1. \A k \in Jobs : LifeOf(k)' = IF k \in {i} THEN s
                                   ELSE [l \in Jobs |-> LifeOf(l)][k]
  OBVIOUS
<1> QED BY <1>1 DEF WQ!Become

\* Put merges, accepts a job into the queue or into the hands of a taker, or
\* refuses it.
LEMMA PutLives ==
    ASSUME PromiseInv, PlacementInv', NEW i \in Jobs, Put(i)
    PROVE  [WQ!Next]_(WQ!wqVars)
<1>0. PlacementInv /\ TypeOK /\ WaitersWait /\ DedupExact
  BY DEF PromiseInv, PlacementInv
<1>1. /\ fate[i] = "fresh" => LifeOf(i) = "fresh"
      /\ fate'[i] = "merged" => LifeOf(i)' = "merged"
      /\ i \in ToSet(q') => LifeOf(i)' = "ready"
      /\ i \in InHand' => LifeOf(i)' = "held"
  BY <1>0, LifeIs, LifeIsNext
<1>2. CASE PutMerges(i)
  <2>1. /\ ~closed /\ ~closed' /\ fate[i] = "fresh" /\ dedup[IdOf[i]] > 0
        /\ fate' = [fate EXCEPT ![i] = "merged"]
        /\ UNCHANGED <<q, hand, inflight>>
    BY <1>2 DEF PutMerges, memory, Indexed
  <2>2. \A k \in Jobs \ {i} : LifeOf(k)' = LifeOf(k)
    <3>1. \A k \in Jobs \ {i} : fate'[k] = fate[k]
      BY <1>0, <2>1 DEF TypeOK
    <3> QED BY <2>1, <3>1, LivesApart DEF InHand, Leased
  <2>3. LifeOf(i)' = "merged"
    BY <1>0, <1>1, <2>1 DEF TypeOK
  <2>4. \E k \in ToSet(q) \cup Leased(inflight) : IdOf[k] = IdOf[i]
    <3>1. IdOf[i] \in Ids
      BY JobsAssumption
    <3>2. Copies(q, IdOf[i]) + LeaseCopies(inflight, IdOf[i]) > 0
      BY <1>0, <2>1, <3>1 DEF DedupExact
    <3>3. /\ Copies(q, IdOf[i]) = Cardinality(Places(q, IdOf[i]))
          /\ LeaseCopies(inflight, IdOf[i]) = Cardinality(LeasesOf(inflight, IdOf[i]))
      BY <1>0, <3>1, CopiesPlaces DEF TypeOK, LeaseCopies, LeasesOf
    <3>4. Places(q, IdOf[i]) # {} \/ LeasesOf(inflight, IdOf[i]) # {}
      BY <3>2, <3>3, FS_EmptySet
    <3>5. CASE Places(q, IdOf[i]) # {}
      <4>1. q \in Seq(Jobs)
        BY <1>0 DEF TypeOK
      <4>2. PICK p \in DOMAIN q : IdOf[q[p]] = IdOf[i]
        BY <3>5 DEF Places
      <4>3. q[p] \in ToSet(q)
        BY <4>1, <4>2, ToSetElems
      <4> QED BY <4>2, <4>3
    <3>6. CASE LeasesOf(inflight, IdOf[i]) # {}
      BY <3>6 DEF LeasesOf, Leased
    <3> QED BY <3>4, <3>5, <3>6
  <2>5. \A k \in Jobs : k \in ToSet(q) \cup Leased(inflight) =>
                           k \in WQ!Are("ready") \cup WQ!Are("leased")
    BY <1>0, LifeIs DEF WQ!Are
  <2>6. ToSet(q) \cup Leased(inflight) \subseteq Jobs
    BY <1>0, ToSetElems DEF TypeOK, Leased, Maybe
  <2>7. WQ!Merge(i)
    <3>1. [j \in Jobs |-> LifeOf(j)][i] = "fresh"
      BY <1>1, <2>1
    <3>2. WQ!Become({i}, "merged")
      BY <2>2, <2>3, OneLifeChanges
    <3> QED BY <2>1, <2>4, <2>5, <2>6, <3>1, <3>2 DEF WQ!Merge
  <2> QED BY <2>7 DEF WQ!Next
<1>3. CASE PutHandsOff(i) \/ PutQueues(i)
  <2>1. /\ ~closed /\ ~closed' /\ fate[i] = "fresh" /\ UNCHANGED inflight
        /\ fate' = [fate EXCEPT ![i] = "accepted"]
    BY <1>3 DEF PutHandsOff, PutQueues
  <2>2. \/ /\ UNCHANGED q /\ i \in InHand'
           /\ \A k \in Jobs \ {i} : k \in InHand' <=> k \in InHand
        \/ /\ UNCHANGED hand /\ i \in ToSet(q')
           /\ \A k \in Jobs \ {i} : k \in ToSet(q') <=> k \in ToSet(q)
    <3>1. CASE PutHandsOff(i)
      <4>1. UNCHANGED q /\ waiters # <<>> /\ hand' = [hand EXCEPT ![Head(waiters)] = i]
        BY <3>1 DEF PutHandsOff
      <4>2. Head(waiters) \in Takers /\ hand[Head(waiters)] = NoJob
        <5>1. waiters \in Seq(Takers) /\ IsInjective(waiters)
          BY <1>0 DEF TypeOK, WaitersWait
        <5>2. Head(waiters) \in ToSet(waiters) /\ Head(waiters) \in Takers
          BY <4>1, <5>1, HeadApart
        <5> QED BY <1>0, <5>2 DEF WaitersWait
      <4>3. i # NoJob
        BY JobsAssumption
      <4>4. \A t \in Takers : hand'[t] = IF t = Head(waiters) THEN i ELSE hand[t]
        BY <1>0, <4>1, <4>2 DEF TypeOK
      <4> QED BY <4>1, <4>2, <4>3, <4>4 DEF InHand
    <3>2. CASE PutQueues(i)
      <4>1. UNCHANGED hand /\ q' = Append(q, i) /\ q \in Seq(Jobs)
        BY <1>0, <3>2 DEF PutQueues, TypeOK
      <4> QED BY <4>1, AppendSet
    <3> QED BY <1>3, <3>1, <3>2
  <2>3. \A k \in Jobs \ {i} : LifeOf(k)' = LifeOf(k)
    <3>1. \A k \in Jobs \ {i} : fate'[k] = fate[k]
      BY <1>0, <2>1 DEF TypeOK
    <3>2. \A k \in Jobs \ {i} : /\ k \in ToSet(q') <=> k \in ToSet(q)
                                /\ k \in InHand' <=> k \in InHand
      BY <2>2 DEF InHand
    <3> QED BY <2>1, <3>1, <3>2, LivesApart
  <2>4. LifeOf(i)' = "ready" \/ LifeOf(i)' = "held"
    BY <1>1, <2>2
  <2>5. WQ!Accept(i)
    <3>1. [j \in Jobs |-> LifeOf(j)][i] = "fresh"
      BY <1>1, <2>1
    <3>2. WQ!Become({i}, "ready") \/ WQ!Become({i}, "held")
      BY <2>3, <2>4, OneLifeChanges
    <3> QED BY <2>1, <3>1, <3>2 DEF WQ!Accept
  <2> QED BY <2>5 DEF WQ!Next
<1>4. CASE PutRefused(i)
  <2>1. UNCHANGED <<closed, q, hand, inflight, fate>>
    BY <1>4 DEF PutRefused, vars
  <2> QED BY <2>1, NoLifeChanges
<1> QED BY <1>2, <1>3, <1>4 DEF Put, PutMerges

\* A pop or an expiry makes jobs circulate.
LEMMA ExpiryCirculates ==
    ASSUME PromiseInv, PlacementInv', UNCHANGED <<fate, closed>>, ~closed,
           NEW js \in ExpiredJobs, inflight' = Without(Expired),
           \/ q' = QueueAfter(js) /\ hand' = HandAfter(js)
           \/ \E t \in Takers, next \in PCs : pc[t] = "idle" /\ Pop(t, js, next)
    PROVE  [WQ!Next]_(WQ!wqVars)
<1>0. PlacementInv /\ TypeOK /\ WaitersWait /\ SinglePlace /\ IsInjective(waiters)
  BY DEF PromiseInv, PlacementInv, WaitersWait
<1>1. /\ js \in Seq(Jobs) /\ ToSet(js) \subseteq Leased(inflight)
      /\ QueueAfter(js) \in Seq(Jobs)
      /\ HandAfter(js) \in [Takers -> Maybe]
  BY <1>0, ExpiredOnce, AfterTypes
<1>2. /\ Held(hand) \subseteq Held(HandAfter(js))
      /\ Held(HandAfter(js)) \subseteq Held(hand) \cup ToSet(js)
  BY <1>0, <1>1, DeliverHolds DEF HandAfter, WaitersWait
<1>3. Held(hand) = InHand /\ Held(hand') = InHand'
  BY DEF Held, InHand
<1>4. Leased(inflight') \subseteq Leased(inflight)
  BY <1>0, WithoutOnce
<1>5. /\ ToSet(QueueAfter(js)) \subseteq Located
      /\ \A t \in Takers : HandAfter(js)[t] \in Located \cup {NoJob}
      /\ Leased(inflight') \subseteq Located
  BY <1>0, ExpiredDelivered
<1>6. CASE q' = QueueAfter(js) /\ hand' = HandAfter(js)
  <2>1. Located' \subseteq Located
    BY <1>5, <1>6 DEF Located, InHand
  <2>2. Located \subseteq Located'
    BY <1>0, <1>3, <1>6, ExpiredKept DEF Located
  <2>3. Located' = Located
    BY <2>1, <2>2
  <2>4. InHand \subseteq InHand' /\ InHand' \ InHand \subseteq Leased(inflight) \cup {NoJob}
    BY <1>1, <1>2, <1>3, <1>6
  <2> QED BY <1>0, <1>4, <2>3, <2>4, Circulates
<1>7. ASSUME NEW t \in Takers, NEW next \in PCs, pc[t] = "idle", Pop(t, js, next)
      PROVE  [WQ!Next]_(WQ!wqVars)
  <2>1. Located \subseteq Located'
    BY <1>0, <1>7, PopKeeps
  <2>2. QueueAfter(js) # <<>>
        /\ \/ q' = QueueAfter(js) /\ hand' = HandAfter(js)
           \/ q' = Tail(QueueAfter(js))
              /\ hand' = [HandAfter(js) EXCEPT ![t] = Head(QueueAfter(js))]
    BY <1>7 DEF Pop
  <2>3. CASE q' = QueueAfter(js) /\ hand' = HandAfter(js)
    BY <1>6, <2>3
  <2>4. CASE q' = Tail(QueueAfter(js))
             /\ hand' = [HandAfter(js) EXCEPT ![t] = Head(QueueAfter(js))]
    <3>1. ToSet(QueueAfter(js)) = {Head(QueueAfter(js))} \cup ToSet(Tail(QueueAfter(js)))
      BY <1>1, <2>2, HeadOrTail
    <3>2. \A u \in Takers : hand'[u] = IF u = t THEN Head(QueueAfter(js)) ELSE HandAfter(js)[u]
      BY <1>1, <2>4
    <3>3. HandAfter(js)[t] = NoJob
      <4>1. t \notin ToSet(waiters) /\ hand[t] = NoJob
        BY <1>0, <1>7 DEF WaitersWait
      <4>2. HandsWith(hand, js)[t] = hand[t]
        BY <1>0, <1>1, <4>1, DeliverWakes
      <4> QED BY <4>1, <4>2 DEF HandAfter
    <3>4. Located' \subseteq Located
      BY <1>5, <2>4, <3>1, <3>2 DEF Located, InHand
    <3>5. InHand \subseteq InHand'
      <4>1. Held(HandAfter(js)) \subseteq Held(hand')
        BY <3>2, <3>3 DEF Held
      <4> QED BY <1>2, <1>3, <4>1
    <3>6. InHand' \ InHand \subseteq Leased(inflight) \cup {Head(QueueAfter(js))}
      <4>1. Held(hand') \subseteq Held(HandAfter(js)) \cup {Head(QueueAfter(js))}
        BY <3>2 DEF Held
      <4> QED BY <1>1, <1>2, <1>3, <4>1
    <3>7. Located' = Located
      BY <2>1, <3>4
    <3> DEFINE top == Head(QueueAfter(js))
    <3>8. InHand' \ InHand \subseteq Leased(inflight) \cup {top}
      BY <3>6
    <3> HIDE DEF top
    <3> QED BY <1>0, <1>4, <3>5, <3>7, <3>8, Circulates
  <2> QED BY <2>2, <2>3, <2>4
<1> QED BY <1>6, <1>7

\* A job in the hands of a taker comes back, or is dropped by a closed bus.
LEMMA ComesBack ==
    ASSUME NEW i \in Jobs, LifeOf(i) = "held", UNCHANGED closed,
           LifeOf(i)' = "ready" \/ (closed /\ LifeOf(i)' = "gone"),
           \A k \in Jobs \ {i} : LifeOf(k)' = LifeOf(k)
    PROVE  WQ!Next
<1>1. WQ!Become({i}, "ready") \/ (closed /\ WQ!Become({i}, "gone"))
  BY OneLifeChanges
<1>2. [k \in Jobs |-> LifeOf(k)][i] = "held"
  OBVIOUS
<1>3. WQ!PutBack(i)
  BY <1>1, <1>2 DEF WQ!PutBack
<1> QED BY <1>3 DEF WQ!Next

\* What a taker that lets go of its job does to the jobs in hand.
LEMMA LetsGo ==
    ASSUME TypeOK, SinglePlace, NEW t \in Takers, NEW i \in Jobs, i = hand[t]
    PROVE  /\ Held([hand EXCEPT ![t] = NoJob]) = InHand \ {i}
           /\ i \in InHand /\ i \notin ToSet(q) \cup Leased(inflight)
<1>1. \A u \in Takers : [hand EXCEPT ![t] = NoJob][u] = IF u = t THEN NoJob ELSE hand[u]
  BY DEF TypeOK
<1>2. i # NoJob
  BY JobsAssumption
<1>3. \A u \in Takers : hand[u] = i => u = t
  BY <1>2 DEF SinglePlace, OncePlaced
<1>4. i \in InHand /\ i \notin ToSet(q) \cup Leased(inflight)
  BY <1>2 DEF InHand, SinglePlace, OncePlaced
<1>5. Held([hand EXCEPT ![t] = NoJob]) \subseteq InHand \ {i}
  BY <1>1, <1>3 DEF Held, InHand
<1>6. InHand \ {i} \subseteq Held([hand EXCEPT ![t] = NoJob])
  BY <1>1 DEF Held, InHand
<1> QED BY <1>4, <1>5, <1>6

\* A taker's step: jobs circulate, one is leased or comes back from a taker, or
\* nothing happens to any job.
LEMMA TakerLives ==
    ASSUME PromiseInv, PlacementInv', NEW t \in Takers, TakerStep(t)
    PROVE  [WQ!Next]_(WQ!wqVars)
<1>0. PlacementInv /\ TypeOK /\ HandsFull /\ WaitersWait /\ IsInjective(waiters)
      /\ q \in Seq(Jobs) /\ hand \in [Takers -> Maybe] /\ NoJob \notin Jobs
      /\ inflight \in [Deliveries -> Maybe]
  BY JobsAssumption DEF PromiseInv, PlacementInv, WaitersWait, TypeOK
<1>1. CASE TakeChan(t)
  <2>1. PICK js \in ExpiredJobs :
           \/ Pop(t, js, "wait")
           \/ QueueAfter(js) = <<>> /\ q' = <<>> /\ hand' = HandAfter(js)
    BY <1>1 DEF TakeChan
  <2>2. ~closed /\ pc[t] = "idle" /\ inflight' = Without(Expired)
        /\ UNCHANGED <<fate, closed>> /\ "wait" \in PCs
    BY <1>1 DEF TakeChan, PCs
  <2>3. CASE Pop(t, js, "wait")
    BY <2>2, <2>3, ExpiryCirculates
  <2>4. CASE q' = QueueAfter(js) /\ hand' = HandAfter(js)
    BY <2>2, <2>4, ExpiryCirculates
  <2> QED BY <2>1, <2>3, <2>4
<1>2. CASE TryTake(t)
  <2>1. PICK js \in ExpiredJobs :
           \/ Pop(t, js, "got")
           \/ QueueAfter(js) = <<>> /\ q' = <<>> /\ hand' = HandAfter(js)
    BY <1>2 DEF TryTake
  <2>2. ~closed /\ pc[t] = "idle" /\ inflight' = Without(Expired)
        /\ UNCHANGED <<fate, closed>> /\ "got" \in PCs
    BY <1>2 DEF TryTake, PCs
  <2>3. CASE Pop(t, js, "got")
    BY <2>2, <2>3, ExpiryCirculates
  <2>4. CASE q' = QueueAfter(js) /\ hand' = HandAfter(js)
    BY <2>2, <2>4, ExpiryCirculates
  <2> QED BY <2>1, <2>3, <2>4
<1>3. CASE Receive(t) \/ TakeFails(t) \/ HoldFails(t)
  <2>1. UNCHANGED <<closed, q, hand, inflight, fate>>
    BY <1>3 DEF Receive, TakeFails, HoldFails
  <2> QED BY <2>1, NoLifeChanges
<1>4. CASE Cancel(t)
  <2>1. /\ hand' = [hand EXCEPT ![t] = NoJob] /\ UNCHANGED <<closed, inflight, fate>>
        /\ \/ hand[t] = NoJob /\ UNCHANGED q
           \/ hand[t] # NoJob /\ q' = <<hand[t]>> \o q
    BY <1>4 DEF Cancel
  <2>2. CASE hand[t] = NoJob /\ UNCHANGED q
    <3>1. UNCHANGED hand
      BY <1>0, <2>1, <2>2
    <3> QED BY <2>1, <2>2, <3>1, NoLifeChanges
  <2>3. CASE hand[t] # NoJob /\ q' = <<hand[t]>> \o q
    <3>1. hand[t] \in Jobs
      BY <1>0, <2>3 DEF Maybe
    <3>2. PICK i \in Jobs : i = hand[t]
      BY <3>1
    <3>3. InHand' = InHand \ {i} /\ i \in InHand
      <4>1. InHand' = Held([hand EXCEPT ![t] = NoJob])
        BY <2>1 DEF InHand, Held
      <4>2. Held([hand EXCEPT ![t] = NoJob]) = InHand \ {i} /\ i \in InHand
        BY <1>0, <3>2, LetsGo DEF PlacementInv
      <4> QED BY <4>1, <4>2
    <3>4. ToSet(q') = {i} \cup ToSet(q)
      BY <1>0, <2>3, <3>2, PrependSet
    <3>5. \A k \in Jobs \ {i} : LifeOf(k)' = LifeOf(k)
      BY <2>1, <3>3, <3>4, LivesApart DEF Leased
    <3>6. LifeOf(i) = "held" /\ LifeOf(i)' = "ready"
      BY <1>0, <3>3, <3>4, LifeIs, LifeIsNext
    <3> QED BY <2>1, <3>5, <3>6, ComesBack
  <2> QED BY <2>1, <2>2, <2>3
<1>5. ASSUME NEW d \in Deliveries, Hold(t, d)
      PROVE  [WQ!Next]_(WQ!wqVars)
  <2>1. /\ pc[t] = "got" /\ ~closed /\ d \notin issued /\ UNCHANGED <<closed, q, fate>>
        /\ inflight' = [inflight EXCEPT ![d] = hand[t]]
        /\ hand' = [hand EXCEPT ![t] = NoJob]
    BY <1>5 DEF Hold
  <2>2. hand[t] \in Jobs /\ inflight[d] = NoJob
    BY <1>0, <2>1 DEF HandsFull, Maybe, PromiseInv, LeasesIssued
  <2>3. PICK i \in Jobs : i = hand[t]
    BY <2>2
  <2>4. InHand' = InHand \ {i} /\ i \in InHand
    <3>1. InHand' = Held([hand EXCEPT ![t] = NoJob])
      BY <2>1 DEF InHand, Held
    <3>2. Held([hand EXCEPT ![t] = NoJob]) = InHand \ {i} /\ i \in InHand
      BY <1>0, <2>3, LetsGo DEF PlacementInv
    <3> QED BY <3>1, <3>2
  <2>5. Leased(inflight') = Leased(inflight) \cup {i}
    <3>1. \A e \in Deliveries : inflight'[e] = IF e = d THEN i ELSE inflight[e]
      BY <1>0, <2>1, <2>3 DEF TypeOK
    <3>2. i # NoJob
      BY <1>0
    <3>3. Leased(inflight') \subseteq Leased(inflight) \cup {i}
      BY <3>1 DEF Leased
    <3>4. i \in Leased(inflight')
      BY <3>1, <3>2 DEF Leased
    <3>5. Leased(inflight) \subseteq Leased(inflight')
      BY <2>2, <3>1 DEF Leased
    <3> QED BY <3>3, <3>4, <3>5
  <2>6. \A k \in Jobs \ {i} : LifeOf(k)' = LifeOf(k)
    BY <2>1, <2>4, <2>5, LivesApart
  <2>7. LifeOf(i) = "held" /\ LifeOf(i)' = "leased"
    BY <1>0, <2>4, <2>5, LifeIs, LifeIsNext
  <2>8. WQ!Lease(i)
    <3>1. [k \in Jobs |-> LifeOf(k)][i] = "held" /\ WQ!Become({i}, "leased")
      BY <2>6, <2>7, OneLifeChanges
    <3> QED BY <2>1, <3>1 DEF WQ!Lease
  <2> QED BY <2>8 DEF WQ!Next
<1>6. CASE Requeue(t)
  <2>1. pc[t] = "requeue" /\ UNCHANGED <<closed, inflight, fate>>
    BY <1>6 DEF Requeue
  <2>2. hand[t] \in Jobs
    BY <1>0, <2>1 DEF HandsFull, Maybe
  <2>3. PICK i \in Jobs : i = hand[t]
    BY <2>2
  <2> DEFINE rest == [hand EXCEPT ![t] = NoJob]
  <2>4. Held(rest) = InHand \ {i} /\ i \in InHand /\ i \notin ToSet(q) \cup Leased(inflight)
    BY <1>0, <2>3, LetsGo DEF PlacementInv
  <2>5. LifeOf(i) = "held"
    BY <1>0, <2>4, LifeIs
  <2>6. InHand' = Held(hand')
    BY DEF InHand, Held
  <2>7. CASE closed
    <3>1. UNCHANGED q /\ hand' = rest
      BY <1>6, <2>7 DEF Requeue
    <3>2. \A k \in Jobs \ {i} : LifeOf(k)' = LifeOf(k)
      BY <2>1, <2>4, <2>6, <3>1, LivesApart DEF Leased
    <3>3. LifeOf(i)' = "gone"
      <4>1. i \notin Located' /\ fate'[i] \in {"accepted", "unsaved"}
        <5>1. fate[i] \in {"accepted", "unsaved"}
          BY <1>0, <2>4 DEF PlacementInv, OnlyUnackedInside, Located
        <5>2. Leased(inflight') = Leased(inflight) /\ ToSet(q') = ToSet(q)
          BY <2>1, <3>1
        <5> QED BY <2>1, <2>4, <2>6, <3>1, <5>1, <5>2 DEF Located
      <4> QED BY <4>1, LifeIsNext
    <3> QED BY <2>1, <2>5, <2>7, <3>2, <3>3, ComesBack
  <2>8. CASE ~closed
    <3>1. q' = QueueAfter(<<i>>) /\ hand' = HandsWith(rest, <<i>>)
      BY <1>6, <2>3, <2>8 DEF Requeue
    <3>2. <<i>> \in Seq(Jobs) /\ ToSet(<<i>>) = {i}
      BY DEF ToSet
    <3>3. \A u \in ToSet(waiters) : rest[u] = NoJob
      BY <1>0 DEF WaitersWait, TypeOK
    <3> HIDE DEF rest
    <3>4. ToSet(q') \subseteq ToSet(q) \cup {i} /\ InHand' \subseteq InHand
          /\ InHand \ {i} \subseteq InHand'
      BY <1>0, <2>4, <2>6, <3>1, <3>2, <3>3, DeliverHolds, QueueAfterSet
    <3>5. ToSet(q) \cup {i} \subseteq ToSet(q') \cup InHand' \cup InHand
          /\ i \in ToSet(q') \cup InHand'
          /\ ToSet(q) \subseteq ToSet(q') \cup InHand'
      BY <1>0, <2>4, <2>6, <3>1, <3>2, <3>3, DeliverKeeps
    <3>6. ToSet(q) \subseteq ToSet(q')
      <4>1. ToSet(q) \cap InHand = {}
        BY <1>0 DEF PlacementInv, SinglePlace, OncePlaced, InHand
      <4> QED BY <3>4, <3>5, <4>1
    <3>7. \A k \in Jobs \ {i} : LifeOf(k)' = LifeOf(k)
      BY <2>1, <3>4, <3>6, LivesApart DEF Leased
    <3>8. CASE i \in ToSet(q')
      <4>1. LifeOf(i)' = "ready"
        BY <3>8, LifeIsNext
      <4> QED BY <2>1, <2>5, <3>7, <4>1, ComesBack
    <3>9. CASE i \in InHand'
      <4>1. LifeOf(i)' = "held"
        BY <3>9, LifeIsNext
      <4>2. \A k \in Jobs : LifeOf(k)' = LifeOf(k)
        BY <2>5, <3>7, <4>1
      <4> QED BY <2>1, <4>2 DEF WQ!wqVars
    <3> QED BY <3>5, <3>8, <3>9
  <2> QED BY <2>7, <2>8
<1> QED BY <1>1, <1>2, <1>3, <1>4, <1>5, <1>6 DEF TakerStep

\* Ack finishes a job, Nack makes it circulate, time changes nothing.
LEMMA DeliveryLives ==
    ASSUME PromiseInv, PlacementInv', NEW d \in Deliveries, DeliveryStep(d)
    PROVE  [WQ!Next]_(WQ!wqVars)
<1>0. PlacementInv /\ TypeOK /\ SinglePlace /\ WaitersWait /\ IsInjective(waiters)
      /\ hand \in [Takers -> Maybe] /\ inflight \in [Deliveries -> Maybe] /\ NoJob \notin Jobs
      /\ fate \in [Jobs -> Fates]
  BY JobsAssumption DEF PromiseInv, PlacementInv, WaitersWait, TypeOK
<1>1. ASSUME inflight[d] # NoJob, inflight' = Without({d}), NEW i \in Jobs, i = inflight[d]
      PROVE  /\ Leased(inflight') = Leased(inflight) \ {i}
             /\ i \in Leased(inflight) /\ i \notin ToSet(q) \cup InHand
  <2>1. \A e \in Deliveries : inflight'[e] = IF e = d THEN NoJob ELSE inflight[e]
    BY <1>0, <1>1 DEF Without
  <2>2. \A e \in Deliveries : inflight[e] = i => e = d
    BY <1>0, <1>1 DEF SinglePlace, OncePlaced, NoRepetition
  <2>3. Leased(inflight') \subseteq Leased(inflight) \ {i}
    BY <1>0, <2>1, <2>2 DEF Leased
  <2>4. Leased(inflight) \ {i} \subseteq Leased(inflight')
    BY <1>1, <2>1 DEF Leased
  <2>5. i \in Leased(inflight)
    BY <1>1 DEF Leased
  <2>6. i \notin ToSet(q) \cup InHand
    BY <1>0, <2>5 DEF SinglePlace, OncePlaced, NoRepetition, InHand
  <2> QED BY <2>3, <2>4, <2>5, <2>6
<1>2. CASE Ack(d)
  <2>1. /\ inflight[d] # NoJob /\ inflight' = Without({d}) /\ UNCHANGED <<closed, q, hand>>
        /\ \/ fate' = [fate EXCEPT ![inflight[d]] = "acked"]
           \/ fate' = [fate EXCEPT ![inflight[d]] = "unsaved"]
    BY <1>2 DEF Ack
  <2>2. PICK i \in Jobs : i = inflight[d]
    BY <1>0, <2>1 DEF Maybe
  <2>3. /\ Leased(inflight') = Leased(inflight) \ {i}
        /\ i \in Leased(inflight) /\ i \notin ToSet(q) \cup InHand
    BY <1>1, <2>1, <2>2
  <2>4. /\ fate'[i] \in {"acked", "unsaved"}
        /\ \A k \in Jobs \ {i} : fate'[k] = fate[k]
    BY <1>0, <2>1, <2>2
  <2>5. \A k \in Jobs \ {i} : LifeOf(k)' = LifeOf(k)
    BY <2>1, <2>3, <2>4, LivesApart DEF InHand
  <2>6. LifeOf(i) = "leased"
    BY <1>0, <2>3, LifeIs
  <2>7. LifeOf(i)' \in {"acked", "gone"}
    <3>1. i \notin Located'
      <4>1. ToSet(q') = ToSet(q) /\ InHand' = InHand
        BY <2>1 DEF InHand
      <4> QED BY <2>3, <4>1 DEF Located
    <3> QED BY <2>4, <3>1, LifeIsNext
  <2>8. WQ!Finish(i)
    <3>1. [k \in Jobs |-> LifeOf(k)][i] = "leased"
      BY <2>6
    <3>2. WQ!Become({i}, "acked") \/ WQ!Become({i}, "gone")
      BY <2>5, <2>7, OneLifeChanges
    <3> QED BY <2>1, <3>1, <3>2 DEF WQ!Finish
  <2> QED BY <2>8 DEF WQ!Next
<1>3. CASE Nack(d)
  <2>1. /\ inflight[d] # NoJob /\ inflight' = Without({d}) /\ UNCHANGED <<closed, fate>>
        /\ q' = QueueAfter(<<inflight[d]>>) /\ hand' = HandAfter(<<inflight[d]>>)
    BY <1>3 DEF Nack
  <2>2. PICK i \in Jobs : i = inflight[d]
    BY <1>0, <2>1 DEF Maybe
  <2>3. /\ Leased(inflight') = Leased(inflight) \ {i}
        /\ i \in Leased(inflight) /\ i \notin ToSet(q) \cup InHand
    BY <1>1, <2>1, <2>2
  <2>4. q' = QueueAfter(<<i>>) /\ hand' = HandsWith(hand, <<i>>)
    BY <2>1, <2>2 DEF HandAfter
  <2>5. <<i>> \in Seq(Jobs) /\ ToSet(<<i>>) = {i}
    BY DEF ToSet
  <2>6. InHand = Held(hand) /\ InHand' = Held(hand')
    BY DEF InHand, Held
  <2>7. \A u \in ToSet(waiters) : hand[u] = NoJob
    BY <1>0 DEF WaitersWait
  <2>8. /\ ToSet(q') \subseteq ToSet(q) \cup {i}
        /\ InHand \subseteq InHand' /\ InHand' \subseteq InHand \cup {i}
    BY <1>0, <2>4, <2>5, <2>6, <2>7, DeliverHolds, QueueAfterSet
  <2>9. ToSet(q) \cup {i} \subseteq ToSet(q') \cup InHand'
    BY <1>0, <2>4, <2>5, <2>6, <2>7, DeliverKeeps
  <2>10. Located' = Located
    BY <2>3, <2>8, <2>9 DEF Located
  <2>11. closed => InHand' = InHand
    <3> SUFFICES ASSUME closed PROVE InHand' = InHand
      OBVIOUS
    <3>1. waiters = <<>>
      BY DEF PromiseInv, ClosedAlone
    <3>2. HandOffs(<<i>>) = 0
      BY <2>5, <3>1 DEF HandOffs
    <3>3. hand' = hand
      BY <1>0, <2>4, <3>2 DEF HandsWith
    <3> QED BY <3>3 DEF InHand
  <2>12. \A k, l \in Leased(inflight) \ Leased(inflight') : k = l
    BY <2>3
  <2>13. InHand' \ InHand \subseteq Leased(inflight) \cup {i}
    BY <2>8
  <2>14. Leased(inflight') \subseteq Leased(inflight) /\ InHand \subseteq InHand'
    BY <2>3, <2>8
  <2>15. UNCHANGED <<fate, closed>>
    BY <2>1
  <2> QED BY <1>0, <2>10, <2>11, <2>12, <2>13, <2>14, <2>15, Circulates
<1>4. CASE LeaseElapses(d)
  <2>1. UNCHANGED <<closed, q, hand, inflight, fate>>
    BY <1>4 DEF LeaseElapses, memory
  <2> QED BY <2>1, NoLifeChanges
<1> QED BY <1>2, <1>3, <1>4 DEF DeliveryStep

\* Close drops what is queued.
LEMMA CloseLives ==
    ASSUME PromiseInv, PlacementInv', Close
    PROVE  WQ!Next
<1>0. PlacementInv /\ PlacementInv'
  BY DEF PromiseInv
<1>1. ~closed /\ closed' /\ q' = <<>> /\ UNCHANGED <<hand, inflight, fate>>
  BY DEF Close
<1>2. ToSet(q') = {} /\ InHand' = InHand /\ Leased(inflight') = Leased(inflight)
  BY <1>1 DEF ToSet, InHand
<1>3. \A k \in Jobs : LifeOf(k)' = IF LifeOf(k) = "ready" THEN "gone" ELSE LifeOf(k)
  <2> SUFFICES ASSUME NEW k \in Jobs
               PROVE  LifeOf(k)' = IF LifeOf(k) = "ready" THEN "gone" ELSE LifeOf(k)
    OBVIOUS
  <2>1. CASE k \in ToSet(q)
    <3>1. k \notin InHand /\ k \notin Leased(inflight) /\ fate[k] \in {"accepted", "unsaved"}
      BY <1>0, <2>1
         DEF PlacementInv, SinglePlace, OncePlaced, NoRepetition, InHand, OnlyUnackedInside, Located
    <3>2. k \notin Located' /\ fate'[k] \in {"accepted", "unsaved"}
      BY <1>1, <1>2, <3>1 DEF Located
    <3>3. LifeOf(k)' = "gone"
      BY <1>0, <3>2, LifeIsNext
    <3> QED BY <1>0, <2>1, <3>3, LifeIs
  <2>2. CASE k \notin ToSet(q)
    <3>1. LifeOf(k)' = LifeOf(k)
      BY <1>1, <1>2, <2>2 DEF LifeOf
    <3>2. LifeOf(k) # "ready"
      BY <1>0, <2>2, LifeIs
    <3> QED BY <3>1, <3>2
  <2> QED BY <2>1, <2>2
<1>4. WQ!Become(WQ!Are("ready"), "gone")
  <2>1. \A k \in Jobs : k \in WQ!Are("ready") <=> LifeOf(k) = "ready"
    BY DEF WQ!Are
  <2>2. [k \in Jobs |-> LifeOf(k)]'
          = [k \in Jobs |-> IF k \in WQ!Are("ready") THEN "gone"
                            ELSE [l \in Jobs |-> LifeOf(l)][k]]
    BY <1>3, <2>1
  <2> QED BY <2>2 DEF WQ!Become
<1>5. WQ!Shut
  BY <1>1, <1>4 DEF WQ!Shut
<1> QED BY <1>5 DEF WQ!Next

\* A restart queues and leases what the file holds, and drops the rest.
LEMMA RestartLives ==
    ASSUME PromiseInv, PlacementInv', Restart
    PROVE  WQ!Next
<1>0. PlacementInv /\ PlacementInv'
  BY DEF PromiseInv
<1> DEFINE queued == ToSet(disk.q)
           leases == Leased(disk.inflight)
           unfinished == Jobs \ (WQ!Are("fresh") \cup WQ!Are("merged") \cup WQ!Are("acked"))
<1>1. /\ ~closed' /\ q' = disk.q /\ inflight' = disk.inflight /\ UNCHANGED fate
      /\ hand' = [t \in Takers |-> NoJob]
  BY DEF Restart
<1>2. ToSet(q') = queued /\ InHand' = {} /\ Leased(inflight') = leases
  BY <1>1 DEF InHand
<1>3. \A k \in Jobs : k \in unfinished <=> fate[k] \in {"accepted", "unsaved"}
  <2>1. \A k \in Jobs : /\ fate[k] \in Fates
                        /\ \A f \in {"fresh", "merged", "acked"} : LifeOf(k) = f <=> fate[k] = f
    BY <1>0, LifeIs
  <2> QED BY <2>1 DEF WQ!Are, Fates
<1>4. queued \cup leases \subseteq Jobs
  BY <1>0, ToSetElems DEF PlacementInv, TypeOK, Snapshots, Leased, Maybe
<1>5. queued \cap leases = {}
  BY <1>0 DEF PlacementInv, SinglePlace, NoRepetition
<1>6. queued \subseteq unfinished /\ leases \subseteq unfinished \ queued
  <2>1. \A k \in queued \cup leases : fate[k] \in {"accepted", "unsaved"}
    BY <1>0 DEF PlacementInv, OnlyUnackedInside, InFile
  <2> QED BY <1>3, <1>4, <1>5, <2>1
<1>7. \A k \in Jobs : LifeOf(k)' = IF k \in queued THEN "ready"
                                   ELSE IF k \in leases THEN "leased"
                                   ELSE IF k \in unfinished THEN "gone"
                                   ELSE LifeOf(k)
  <2> SUFFICES ASSUME NEW k \in Jobs
               PROVE  LifeOf(k)' = IF k \in queued THEN "ready"
                                   ELSE IF k \in leases THEN "leased"
                                   ELSE IF k \in unfinished THEN "gone"
                                   ELSE LifeOf(k)
    OBVIOUS
  <2>1. CASE k \in queued
    <3>1. LifeOf(k)' = "ready"
      BY <1>0, <1>2, <2>1, LifeIsNext
    <3> QED BY <2>1, <3>1
  <2>2. CASE k \notin queued /\ k \in leases
    <3>1. LifeOf(k)' = "leased"
      BY <1>0, <1>2, <2>2, LifeIsNext
    <3> QED BY <2>2, <3>1
  <2>3. CASE k \notin queued /\ k \notin leases /\ k \in unfinished
    <3>1. k \notin Located' /\ fate'[k] \in {"accepted", "unsaved"}
      BY <1>1, <1>2, <1>3, <2>3 DEF Located
    <3>2. LifeOf(k)' = "gone"
      BY <1>0, <3>1, LifeIsNext
    <3> QED BY <2>3, <3>2
  <2>4. CASE k \notin queued /\ k \notin leases /\ k \notin unfinished
    <3>1. fate'[k] = fate[k] /\ fate[k] \in {"fresh", "merged", "acked"}
      <4>1. fate[k] \in Fates
        BY <1>0 DEF PlacementInv, TypeOK
      <4> QED BY <1>1, <1>3, <2>4, <4>1 DEF Fates
    <3>2. LifeOf(k)' = LifeOf(k)
      BY <3>1 DEF LifeOf
    <3> QED BY <2>4, <3>2
  <2> QED BY <2>1, <2>2, <2>3, <2>4
<1>8. [k \in Jobs |-> LifeOf(k)]' = [k \in Jobs |-> IF k \in queued THEN "ready"
                                   ELSE IF k \in leases THEN "leased"
                                   ELSE IF k \in unfinished THEN "gone"
                                   ELSE [l \in Jobs |-> LifeOf(l)][k]]
  BY <1>7
<1>9. WQ!Recover
  <2> HIDE DEF queued, leases
  <2> QED BY <1>1, <1>6, <1>8 DEF WQ!Recover
<1> QED BY <1>9 DEF WQ!Next

\* Every step of a mailbox is a step of WorkQueue or changes no life.
LEMMA PromiseStep ==
    PromiseInv /\ PlacementInv' /\ [Next]_vars => [WQ!Next]_(WQ!wqVars)
<1> SUFFICES ASSUME PromiseInv, PlacementInv', [Next]_vars
             PROVE  [WQ!Next]_(WQ!wqVars)
  OBVIOUS
<1>1. CASE UNCHANGED vars
  <2>1. UNCHANGED <<closed, q, hand, inflight, fate>>
    BY <1>1 DEF vars
  <2> QED BY <2>1, NoLifeChanges
<1>2. ASSUME NEW i \in Jobs, Put(i)
      PROVE  [WQ!Next]_(WQ!wqVars)
  BY <1>2, PutLives
<1>3. ASSUME NEW t \in Takers, TakerStep(t)
      PROVE  [WQ!Next]_(WQ!wqVars)
  BY <1>3, TakerLives
<1>4. ASSUME NEW d \in Deliveries, DeliveryStep(d)
      PROVE  [WQ!Next]_(WQ!wqVars)
  BY <1>4, DeliveryLives
<1>5. CASE ExpireLeases
  <2>1. PICK js \in ExpiredJobs : q' = QueueAfter(js) /\ hand' = HandAfter(js)
    BY <1>5 DEF ExpireLeases
  <2>2. ~closed /\ inflight' = Without(Expired) /\ UNCHANGED <<fate, closed>>
    BY <1>5 DEF ExpireLeases
  <2> QED BY <2>1, <2>2, ExpiryCirculates
<1>6. CASE Close
  BY <1>6, CloseLives
<1>7. CASE Restart
  BY <1>7, RestartLives
<1> QED BY <1>1, <1>2, <1>3, <1>4, <1>5, <1>6, <1>7 DEF Next

\* The mailbox starts where WorkQueue starts.
LEMMA PromiseInit == Init => WQ!Init
<1> SUFFICES ASSUME Init PROVE WQ!Init
  OBVIOUS
<1>1. \A j \in Jobs : LifeOf(j) = "fresh"
  BY DEF Init, LifeOf
<1> QED BY <1>1 DEF Init, WQ!Init

\* The mailbox keeps the promise of WorkQueue.
THEOREM PromiseKept == Spec => KeepsPromise
<1>1. Init => ClosedAlone
  BY DEF Init, ClosedAlone
<1>2. Spec => []TypeOK /\ []PlacementInv
  <2>1. PlacementInv => TypeOK
    BY DEF PlacementInv
  <2>2. Init /\ [][Next]_vars => []PlacementInv
    BY PlacementInit, PlacementStep, PTL
  <2> QED BY <2>1, <2>2, PTL DEF Spec
<1>3. Spec => []ClosedAlone
  BY <1>1, <1>2, ClosedAloneStep, PTL DEF Spec
<1>4. PlacementInv /\ WaitersWait /\ LeasesIssued /\ DedupExact /\ ClosedAlone => PromiseInv
  BY DEF PromiseInv
<1>5. Spec => []PromiseInv
  BY <1>2, <1>3, <1>4, WaitersAgree, IssuedInv, IndexExact, PTL
<1> QED BY <1>2, <1>5, PromiseInit, PromiseStep, PTL DEF Spec, KeepsPromise, WQ!Spec
=============================================================================
