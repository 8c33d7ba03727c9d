---------------------------- MODULE TopicsProofs ----------------------------
(* Proofs about Topics, for every value of its constants: its types, the     *)
(* list of subscriptions, and what a subscriber receives.                    *)
EXTENDS Topics, TLAPS, SequenceTheorems, FiniteSetTheorems

-----------------------------------------------------------------------------
(* The inductive invariant.                                                *)

\* What TypeOK leaves out: the cache is finite, channels and histories are
\* tables of messages.
Typed ==
    /\ IsFiniteSet(DOMAIN last)
    /\ ch \in [Subscriptions -> Seq(Messages)]
    /\ got \in [Subscriptions -> Seq(Messages)]
    /\ Len(published) <= MaxPubs

\* Before Bus.Sub has made it, a subscription is not listed and its channel is
\* new: what is replayed is the first thing in it.
Unmade ==
    \A c \in Subscriptions : handler[c] \in {"new", "read", "failed"} =>
        ch[c] = <<>> /\ got[c] = <<>> /\ c \notin listed \cup chClosed

\* The cache has messages of the past under their own topics.
CacheOf == \A n \in DOMAIN last : last[n] <= Len(published) /\ published[last[n]] = n

\* So have the channels.
SentBefore == \A c \in Subscriptions : \A m \in ToSet(Delivered(c)) : m <= Len(published)

\* A listed subscription is in the hands of somebody who will cancel it: its sub
\* handler, or its session's unsub list, or the close() of its session.
Kept ==
    /\ \A s \in Conns : open[s] => leaving[s] = {}
    /\ \A c \in listed :
          /\ handler[c] \in {"append", "reply", "done"}
          /\ handler[c] = "reply" /\ open[SubscriberOf[c]] => c \in unsub[SubscriberOf[c]]
          /\ handler[c] = "done" =>
                \/ c \in leaving[SubscriberOf[c]]
                \/ open[SubscriberOf[c]] /\ c \in unsub[SubscriberOf[c]]

-----------------------------------------------------------------------------
(* Sequences of messages.                                                  *)

\* The positions and the elements of a sequence.
LEMMA SeqElems ==
    ASSUME NEW S, NEW s \in Seq(S)
    PROVE  /\ Len(s) \in Nat /\ DOMAIN s = 1..Len(s)
           /\ ToSet(s) = {s[i] : i \in 1..Len(s)} /\ ToSet(s) \subseteq S
BY DEF ToSet

\* The elements of two sequences in a row.
LEMMA ConcatSet ==
    ASSUME NEW S, NEW a \in Seq(S), NEW b \in Seq(S)
    PROVE  /\ a \o b \in Seq(S) /\ Len(a \o b) = Len(a) + Len(b)
           /\ Len(a) \in Nat /\ Len(b) \in Nat
           /\ \A i \in 1..Len(a \o b) : (a \o b)[i] = IF i <= Len(a) THEN a[i] ELSE b[i - Len(a)]
           /\ ToSet(a \o b) = ToSet(a) \cup ToSet(b)
<1> DEFINE ab == a \o b
<1>1. /\ ab \in Seq(S) /\ Len(ab) = Len(a) + Len(b)
      /\ Len(a) \in Nat /\ Len(b) \in Nat
      /\ \A i \in 1..Len(ab) : ab[i] = IF i <= Len(a) THEN a[i] ELSE b[i - Len(a)]
  BY ConcatProperties
<1> HIDE DEF ab
<1>2. /\ ToSet(a) = {a[i] : i \in 1..Len(a)} /\ ToSet(b) = {b[i] : i \in 1..Len(b)}
      /\ ToSet(ab) = {ab[i] : i \in 1..Len(ab)}
  BY <1>1, SeqElems
<1>3. ToSet(ab) \subseteq ToSet(a) \cup ToSet(b)
  <2> SUFFICES ASSUME NEW i \in 1..Len(ab) PROVE ab[i] \in ToSet(a) \cup ToSet(b)
    BY <1>2
  <2>1. CASE i <= Len(a)
    BY <1>1, <1>2, <2>1
  <2>2. CASE ~(i <= Len(a))
    <3>1. i - Len(a) \in 1..Len(b)
      BY <1>1, <2>2
    <3> QED BY <1>1, <1>2, <2>2, <3>1
  <2> QED BY <2>1, <2>2
<1>4. ToSet(a) \subseteq ToSet(ab)
  <2> SUFFICES ASSUME NEW i \in 1..Len(a) PROVE a[i] \in ToSet(ab)
    BY <1>2
  <2>1. i \in 1..Len(ab) /\ i <= Len(a)
    BY <1>1
  <2> QED BY <1>1, <1>2, <2>1
<1>5. ToSet(b) \subseteq ToSet(ab)
  <2> SUFFICES ASSUME NEW i \in 1..Len(b) PROVE b[i] \in ToSet(ab)
    BY <1>2
  <2> DEFINE k == Len(a) + i
  <2>1. k \in 1..Len(ab) /\ ~(k <= Len(a)) /\ k - Len(a) = i
    BY <1>1
  <2> HIDE DEF k
  <2> QED BY <1>1, <1>2, <2>1
<1> QED BY <1>1, <1>3, <1>4, <1>5 DEF ab

\* The sends that fit are the first ones, behind what is in the channel.
LEMMA FitsElems ==
    ASSUME TypeOK, NEW c \in Subscriptions, NEW ms \in Seq(Messages)
    PROVE  /\ Fits(c, ms) \in Seq(Messages)
           /\ Len(Fits(c, ms)) = Shorter(Len(ch[c]) + Len(ms), Buffer)
           /\ Len(ch[c]) <= Len(Fits(c, ms)) /\ Len(Fits(c, ms)) <= Buffer
           /\ \A i \in 1..Len(Fits(c, ms)) :
                 Fits(c, ms)[i] = IF i <= Len(ch[c]) THEN ch[c][i] ELSE ms[i - Len(ch[c])]
           /\ ~Overflows(c, ms) => Len(Fits(c, ms)) = Len(ch[c]) + Len(ms)
<1> DEFINE all == ch[c] \o ms
           n == Shorter(Len(all), Buffer)
<1>1. /\ ch[c] \in Seq(Messages) /\ Len(ch[c]) \in Nat /\ Len(ms) \in Nat
      /\ Len(ch[c]) <= Buffer /\ Buffer \in Nat
  BY TopicsAssumption, SeqElems DEF TypeOK
<1>2. /\ all \in Seq(Messages) /\ Len(all) = Len(ch[c]) + Len(ms)
      /\ \A i \in 1..Len(all) : all[i] = IF i <= Len(ch[c]) THEN ch[c][i] ELSE ms[i - Len(ch[c])]
  BY <1>1, ConcatProperties
<1>3. /\ Fits(c, ms) = SubSeq(all, 1, n) /\ n = Shorter(Len(ch[c]) + Len(ms), Buffer)
      /\ Overflows(c, ms) <=> Len(all) > Buffer
  BY <1>2 DEF Fits, Overflows
<1> HIDE DEF all, n
<1>4. n \in Nat /\ n <= Len(all) /\ n <= Buffer /\ Len(ch[c]) <= n
      /\ (~Overflows(c, ms) => n = Len(all))
  BY <1>1, <1>2, <1>3 DEF Shorter
<1>5. \A i \in 1..n : all[i] \in Messages
  BY <1>2, <1>4
<1>6. /\ SubSeq(all, 1, n) \in Seq(Messages) /\ Len(SubSeq(all, 1, n)) = n
      /\ \A i \in 1..n : SubSeq(all, 1, n)[i] = all[i]
  BY <1>4, <1>5, SubSeqProperties
<1> QED BY <1>1, <1>2, <1>3, <1>4, <1>6

\* What a subscriber has received or has waiting.
LEMMA DeliveredElems ==
    ASSUME Typed, NEW c \in Subscriptions
    PROVE  /\ Delivered(c) \in Seq(Messages)
           /\ Len(Delivered(c)) = Len(got[c]) + Len(ch[c])
           /\ \A i \in 1..Len(Delivered(c)) :
                 Delivered(c)[i] = IF i <= Len(got[c]) THEN got[c][i]
                                   ELSE ch[c][i - Len(got[c])]
           /\ ToSet(Delivered(c)) = ToSet(got[c]) \cup ToSet(ch[c])
BY ConcatSet DEF Delivered, Typed

\* An order in which Sub may replay the cache: the cached messages that match,
\* each once.
LEMMA ReplayElems ==
    ASSUME TypeOK, Typed, NEW pre, NEW ms \in SetToSeqs(Cached(pre))
    PROVE  /\ ms \in Seq(Messages) /\ ToSet(ms) = Cached(pre)
           /\ \A i, k \in 1..Len(ms) : i # k => ms[i] # ms[k]
<1> DEFINE names == {k \in DOMAIN last : matchTopic(k, pre)}
           n == Cardinality(Cached(pre))
<1>1. IsFiniteSet(names)
  BY FS_Subset DEF Typed
<1> HIDE DEF names
<1>2. Cached(pre) = {last[k] : k \in names}
  BY DEF Cached, names
<1>3. IsFiniteSet(Cached(pre)) /\ n \in Nat
  <2>1. IsFiniteSet({last[k] : k \in names})
    <3> DEFINE f == [k \in names |-> last[k]]
    <3>1. f \in Surjection(names, {last[k] : k \in names})
      BY DEF Surjection
    <3> QED BY <1>1, <3>1, FS_Surjection
  <2> QED BY <1>2, <2>1, FS_CardinalityType
<1>4. Cached(pre) \subseteq Messages
  BY DEF Cached, TypeOK
<1>5. ms \in [1..n -> Cached(pre)] /\ \A i, k \in 1..n : i # k => ms[i] # ms[k]
  BY DEF SetToSeqs
<1>6. ms \in Injection(1..n, Cached(pre))
  BY <1>5 DEF Injection, IsInjective
<1>7. Cardinality(1..n) = n /\ n = Cardinality(Cached(pre))
  BY <1>3, FS_Interval
<1> HIDE DEF n
<1>8. ms \in Surjection(1..n, Cached(pre))
  BY <1>3, <1>6, <1>7, FS_Injection
<1>9. ms \in Seq(Messages) /\ Len(ms) = n
  BY <1>3, <1>4, <1>5
<1>10. ToSet(ms) = {ms[i] : i \in 1..n}
  BY <1>9, SeqElems
<1>11. ToSet(ms) = Cached(pre)
  BY <1>5, <1>8, <1>10 DEF Surjection
<1> QED BY <1>5, <1>9, <1>11

-----------------------------------------------------------------------------
(* Types.                                                                  *)

\* The next message of a topic, with what Pub does to a channel.
LEMMA PubTypes ==
    ASSUME TypeOK, Typed, NEW topic \in TopicNames, Pub(topic)
    PROVE  TypeOK' /\ Typed'
<1> DEFINE m == Len(published) + 1
           cs == {c \in listed : matchTopic(topic, prefix[c])}
<1>1. Len(published) \in Nat /\ m \in Nat /\ MaxPubs \in Nat /\ MaxCachedTopics \in Nat \ {0}
  BY TopicsAssumption DEF TypeOK
<1>2. m \in Messages /\ <<m>> \in Seq(Messages)
  BY <1>1 DEF Pub, Messages
<1>3. published' \in Seq(TopicNames) /\ Len(published') <= MaxPubs
  BY <1>1 DEF Pub, TypeOK
<1> HIDE DEF m
<1>4. PICK kept \in Evictions(topic) :
         last' = [n \in kept \cup {topic} |-> IF n = topic THEN m ELSE last[n]]
  BY DEF Pub, m
<1>5. kept \subseteq DOMAIN last /\ IsFiniteSet(kept) /\ Cardinality(kept \cup {topic}) <= MaxCachedTopics
      /\ IsFiniteSet(kept \cup {topic})
  <2>1. IsFiniteSet(DOMAIN last) /\ Cardinality(DOMAIN last) \in Nat
        /\ Cardinality(DOMAIN last) <= MaxCachedTopics
    BY FS_CardinalityType DEF Typed, TypeOK
  <2>2. CASE topic \in DOMAIN last /\ kept = DOMAIN last
    <3>1. kept \cup {topic} = DOMAIN last
      BY <2>2
    <3> QED BY <2>1, <2>2, <3>1
  <2>3. CASE topic \notin DOMAIN last /\ kept = DOMAIN last /\ Cardinality(DOMAIN last) < MaxCachedTopics
    <3>1. /\ IsFiniteSet(kept \cup {topic})
          /\ Cardinality(kept \cup {topic}) = Cardinality(DOMAIN last) + 1
      BY <2>1, <2>3, FS_AddElement
    <3> QED BY <1>1, <2>1, <2>3, <3>1
  <2>4. ASSUME NEW old \in DOMAIN last, topic \notin DOMAIN last, kept = DOMAIN last \ {old}
        PROVE  /\ kept \subseteq DOMAIN last /\ IsFiniteSet(kept)
               /\ Cardinality(kept \cup {topic}) <= MaxCachedTopics /\ IsFiniteSet(kept \cup {topic})
    <3>1. IsFiniteSet(kept) /\ Cardinality(kept) = Cardinality(DOMAIN last) - 1
      BY <2>1, <2>4, FS_RemoveElement
    <3>2. topic \notin kept
      BY <2>4
    <3>3. IsFiniteSet(kept \cup {topic}) /\ Cardinality(kept \cup {topic}) = Cardinality(kept) + 1
      BY <3>1, <3>2, FS_AddElement
    <3> QED BY <1>1, <2>1, <2>4, <3>1, <3>3
  <2>5. \/ topic \in DOMAIN last /\ kept = DOMAIN last
        \/ topic \notin DOMAIN last /\ kept = DOMAIN last /\ Cardinality(DOMAIN last) < MaxCachedTopics
        \/ topic \notin DOMAIN last /\ \E old \in DOMAIN last : kept = DOMAIN last \ {old}
    BY <1>1, <1>4, <2>1 DEF Evictions
  <2> QED BY <2>2, <2>3, <2>4, <2>5
<1>6. /\ DOMAIN last' = kept \cup {topic} /\ DOMAIN last' \subseteq TopicNames
      /\ \A n \in DOMAIN last' : last'[n] \in Messages
  BY <1>2, <1>4, <1>5 DEF TypeOK
<1>7. ch' = [c \in Subscriptions |-> IF c \in cs THEN Fits(c, <<m>>) ELSE ch[c]]
      /\ dropped' = dropped \cup {c \in cs : Overflows(c, <<m>>)}
      /\ UNCHANGED <<closed, listed, prefix, chClosed, connVars, handler, pump, got>>
  BY DEF Pub, m
<1>8. /\ \A c \in Subscriptions : Fits(c, <<m>>) \in Seq(Messages) /\ Len(Fits(c, <<m>>)) <= Buffer
      /\ cs \subseteq Subscriptions
  BY <1>2, FitsElems DEF TypeOK
<1> HIDE DEF cs
<1>9. ch' \in [Subscriptions -> Seq(Messages)] /\ \A c \in Subscriptions : Len(ch'[c]) <= Buffer
  BY <1>7, <1>8 DEF Typed, TypeOK
<1>10. Typed'
  BY <1>3, <1>5, <1>6, <1>7, <1>9 DEF Typed
<1>11. dropped' \subseteq Subscriptions
  BY <1>7, <1>8 DEF TypeOK
<1>12. TypeOK'
  BY <1>3, <1>5, <1>6, <1>7, <1>9, <1>11 DEF TypeOK, connVars
<1> QED BY <1>10, <1>12

\* What Sub does to the types.
LEMMA SubTypes ==
    ASSUME TypeOK, Typed, NEW c \in Subscriptions, NEW pre \in SubPrefixes, Sub(c, pre)
    PROVE  TypeOK' /\ Typed'
<1>1. CASE closed
  BY <1>1 DEF Sub, subsVars, connVars, TypeOK, Typed
<1>2. CASE ~closed
  <2>1. /\ listed' = listed \cup {c} /\ prefix' = [prefix EXCEPT ![c] = pre]
        /\ handler' = [handler EXCEPT ![c] = "append"]
        /\ UNCHANGED <<chClosed, closed, last, connVars, pump, got, published>>
    BY <1>2 DEF Sub
  <2>2. PICK ms \in SetToSeqs(Cached(pre)) :
           /\ ch' = [ch EXCEPT ![c] = Fits(c, ms)]
           /\ dropped' = dropped \cup {x \in {c} : Overflows(x, ms)}
    BY <1>2 DEF Sub
  <2>3. Fits(c, ms) \in Seq(Messages) /\ Len(Fits(c, ms)) <= Buffer
    BY ReplayElems, FitsElems
  <2>4. ch' \in [Subscriptions -> Seq(Messages)] /\ \A x \in Subscriptions : Len(ch'[x]) <= Buffer
    BY <2>2, <2>3 DEF Typed, TypeOK
  <2>5. Typed'
    BY <2>1, <2>4 DEF Typed
  <2>6. TypeOK'
    BY <2>1, <2>2, <2>4 DEF TypeOK, connVars
  <2> QED BY <2>5, <2>6
<1> QED BY <1>1, <1>2

\* Every step keeps the types.
LEMMA TypeStep == TypeOK /\ Typed /\ [Next]_vars => TypeOK' /\ Typed'
<1> SUFFICES ASSUME TypeOK, Typed, [Next]_vars PROVE TypeOK' /\ Typed'
  OBVIOUS
<1>0. SubscriberOf \in [Subscriptions -> Conns]
  BY TopicsAssumption
<1>1. ASSUME NEW cs, Cancels(cs)
      PROVE  listed' \subseteq Subscriptions /\ chClosed' \subseteq Subscriptions
             /\ UNCHANGED <<prefix, ch, dropped>>
  BY <1>1 DEF Cancels, TypeOK
<1>2. CASE UNCHANGED vars
  BY <1>2 DEF vars, subsVars, connVars, TypeOK, Typed
<1>3. ASSUME NEW topic \in TopicNames, Pub(topic)
      PROVE  TypeOK' /\ Typed'
  BY <1>3, PubTypes
<1>4. ASSUME NEW c \in Subscriptions, HandlerStep(c)
      PROVE  TypeOK' /\ Typed'
  <2>1. CASE ReadSub(c)
    BY <2>1 DEF ReadSub, subsVars, connVars, TypeOK, Typed
  <2>2. ASSUME NEW pre \in SubPrefixes, Sub(c, pre)
        PROVE  TypeOK' /\ Typed'
    BY <2>2, SubTypes
  <2>3. CASE AppendUnsub(c)
    BY <1>0, <2>3 DEF AppendUnsub, subsVars, TypeOK, Typed
  <2>4. CASE ReplySub(c)
    <3>1. /\ handler' = [handler EXCEPT ![c] = "done"]
          /\ UNCHANGED <<closed, last, connVars, got, published>>
          /\ \/ pump' = [pump EXCEPT ![c] = "run"] /\ UNCHANGED subsVars
             \/ UNCHANGED pump /\ Cancels({c})
      BY <2>4 DEF ReplySub
    <3>2. listed' \subseteq Subscriptions /\ chClosed' \subseteq Subscriptions
          /\ UNCHANGED <<prefix, ch, dropped>>
      BY <1>1, <3>1 DEF subsVars, TypeOK
    <3>3. pump' \in [Subscriptions -> {"none", "run", "ended"}]
      BY <3>1 DEF TypeOK
    <3> QED BY <3>1, <3>2, <3>3 DEF connVars, TypeOK, Typed
  <2> QED BY <1>4, <2>1, <2>2, <2>3, <2>4 DEF HandlerStep
<1>5. ASSUME NEW c \in Subscriptions, PumpStep(c)
      PROVE  TypeOK' /\ Typed'
  <2>1. ch[c] # <<>> => /\ Tail(ch[c]) \in Seq(Messages) /\ Head(ch[c]) \in Messages
                        /\ Len(Tail(ch[c])) <= Buffer
    <3> SUFFICES ASSUME ch[c] # <<>>
                 PROVE  /\ Tail(ch[c]) \in Seq(Messages) /\ Head(ch[c]) \in Messages
                        /\ Len(Tail(ch[c])) <= Buffer
      OBVIOUS
    <3>1. ch[c] \in Seq(Messages) /\ Len(ch[c]) \in Nat /\ Len(ch[c]) <= Buffer /\ Buffer \in Nat
      BY TopicsAssumption DEF TypeOK
    <3> QED BY <3>1, HeadTailProperties
  <2>2. ch' = ch \/ (ch[c] # <<>> /\ ch' = [ch EXCEPT ![c] = Tail(@)])
    BY <1>5 DEF PumpStep, PumpWrites, PumpEnds
  <2>3. ch' \in [Subscriptions -> Seq(Messages)] /\ \A x \in Subscriptions : Len(ch'[x]) <= Buffer
    BY <2>1, <2>2 DEF TypeOK, Typed
  <2>4. got' \in [Subscriptions -> Seq(Messages)]
    <3>1. got' = got \/ (ch[c] # <<>> /\ got' = [got EXCEPT ![c] = Append(@, Head(ch[c]))])
      BY <1>5 DEF PumpStep, PumpWrites, PumpEnds
    <3>2. got[c] \in Seq(Messages)
      BY DEF Typed
    <3>3. ch[c] # <<>> => Append(got[c], Head(ch[c])) \in Seq(Messages)
      BY <2>1, <3>2, AppendProperties
    <3> QED BY <3>1, <3>3 DEF Typed
  <2>5. pump' \in [Subscriptions -> {"none", "run", "ended"}]
    BY <1>5 DEF PumpStep, PumpWrites, PumpEnds, TypeOK
  <2>6. UNCHANGED <<closed, last, listed, prefix, chClosed, dropped, connVars, handler, published>>
    BY <1>5 DEF PumpStep, PumpWrites, PumpEnds
  <2> QED BY <2>3, <2>4, <2>5, <2>6 DEF connVars, TypeOK, Typed
<1>6. ASSUME NEW s \in Conns, ConnStep(s)
      PROVE  TypeOK' /\ Typed'
  <2>1. CASE Unsub(s)
    <3>1. listed' \subseteq Subscriptions /\ chClosed' \subseteq Subscriptions
          /\ UNCHANGED <<prefix, ch, dropped>>
      BY <1>1, <2>1 DEF Unsub
    <3> QED BY <2>1, <3>1 DEF Unsub, TypeOK, Typed
  <2>2. CASE CloseSession(s)
    BY <2>2 DEF CloseSession, subsVars, TypeOK, Typed
  <2>3. ASSUME NEW c \in Subscriptions, CancelTaken(s, c)
        PROVE  TypeOK' /\ Typed'
    <3>1. listed' \subseteq Subscriptions /\ chClosed' \subseteq Subscriptions
          /\ UNCHANGED <<prefix, ch, dropped>>
      BY <1>1, <2>3 DEF CancelTaken
    <3> QED BY <2>3, <3>1 DEF CancelTaken, TypeOK, Typed
  <2> QED BY <1>6, <2>1, <2>2, <2>3 DEF ConnStep
<1>7. CASE Close
  <2>1. listed' \subseteq Subscriptions /\ chClosed' \subseteq Subscriptions
        /\ UNCHANGED <<prefix, ch, dropped>>
    BY <1>1, <1>7 DEF Close
  <2> QED BY <1>7, <2>1 DEF Close, connVars, TypeOK, Typed
<1> QED BY <1>2, <1>3, <1>4, <1>5, <1>6, <1>7 DEF Next

\* The bus starts with its types.
LEMMA TypeInit == Init => TypeOK /\ Typed
<1> SUFFICES ASSUME Init PROVE TypeOK /\ Typed
  OBVIOUS
<1>1. DOMAIN last = {} /\ IsFiniteSet(DOMAIN last) /\ Cardinality(DOMAIN last) = 0
  BY FS_EmptySet DEF Init
<1>2. <<>> \in Seq(Messages) /\ <<>> \in Seq(TopicNames) /\ Len(<<>>) = 0
  BY EmptySeq
<1>3. Buffer \in Nat \ {0} /\ MaxCachedTopics \in Nat \ {0} /\ MaxPubs \in Nat
  BY TopicsAssumption
<1>4. /\ ch \in [Subscriptions -> Seq(Messages)] /\ got \in [Subscriptions -> Seq(Messages)]
      /\ \A c \in Subscriptions : ch[c] \in Seq(Messages) /\ Len(ch[c]) <= Buffer
      /\ published \in Seq(TopicNames) /\ Len(published) <= MaxPubs
  BY <1>2, <1>3 DEF Init
<1>5. prefix \in [Subscriptions -> SubPrefixes \cup {<<>>}]
  BY DEF Init
<1>6. /\ open \in [Conns -> BOOLEAN] /\ unsub \in [Conns -> SUBSET Subscriptions]
      /\ leaving \in [Conns -> SUBSET Subscriptions]
      /\ handler \in [Subscriptions -> {"new", "read", "append", "reply", "done", "failed"}]
      /\ pump \in [Subscriptions -> {"none", "run", "ended"}]
      /\ listed = {} /\ chClosed = {} /\ dropped = {} /\ closed = FALSE
  BY DEF Init
<1>7. \A n \in DOMAIN last : last[n] \in Messages
  BY <1>1
<1>8. Cardinality(DOMAIN last) <= MaxCachedTopics
  BY <1>1, <1>3
<1>9. TypeOK
  BY <1>1, <1>4, <1>5, <1>6, <1>7, <1>8 DEF TypeOK
<1>10. Typed
  BY <1>1, <1>4 DEF Typed
<1> QED BY <1>9, <1>10

\* The types, and the bounds of the channels and of the cache.
THEOREM TypeCorrect == Spec => []TypeOK
<1>1. Spec => [](TypeOK /\ Typed)
  BY TypeInit, TypeStep, PTL DEF Spec
<1> QED BY <1>1, PTL

-----------------------------------------------------------------------------
(* Who is listed, and who will cancel it.                                  *)

\* The list of the bus and the lists of the sessions.
Registry == Unmade /\ Kept /\ ListedChannelsOpen

\* A step of a sub handler.
LEMMA HandlerKeeps ==
    ASSUME TypeOK, Typed, Registry, NEW c \in Subscriptions, HandlerStep(c)
    PROVE  Registry'
<1> DEFINE s == SubscriberOf[c]
<1>0. s \in Conns /\ handler \in [Subscriptions -> {"new", "read", "append", "reply", "done", "failed"}]
      /\ listed \subseteq Subscriptions /\ unsub \in [Conns -> SUBSET Subscriptions]
      /\ ch \in [Subscriptions -> Seq(Messages)]
      /\ \A x \in Subscriptions : SubscriberOf[x] \in Conns
  BY TopicsAssumption DEF TypeOK, Typed
<1>1. CASE ReadSub(c)
  <2>1. handler[c] = "new" /\ handler' = [handler EXCEPT ![c] = "read"]
        /\ UNCHANGED <<closed, listed, ch, chClosed, open, unsub, leaving, got>>
    BY <1>1 DEF ReadSub, subsVars, connVars
  <2>2. c \notin listed
    BY <2>1 DEF Registry, Unmade
  <2>3. Unmade'
    BY <1>0, <2>1 DEF Registry, Unmade
  <2>4. Kept'
    BY <1>0, <2>1, <2>2 DEF Registry, Kept
  <2>5. ListedChannelsOpen'
    BY <2>1 DEF Registry, ListedChannelsOpen
  <2> QED BY <2>3, <2>4, <2>5 DEF Registry
<1>2. ASSUME NEW pre \in SubPrefixes, Sub(c, pre)
      PROVE  Registry'
  <2>1. handler[c] = "read" /\ UNCHANGED <<closed, chClosed, open, unsub, leaving, got>>
    BY <1>2 DEF Sub, subsVars, connVars
  <2>2. c \notin listed \cup chClosed
    BY <2>1 DEF Registry, Unmade
  <2>3. CASE closed
    <3>1. handler' = [handler EXCEPT ![c] = "failed"] /\ UNCHANGED <<listed, ch>>
      BY <1>2, <2>3 DEF Sub, subsVars
    <3>2. Unmade'
      BY <1>0, <2>1, <3>1 DEF Registry, Unmade
    <3>3. Kept'
      BY <1>0, <2>1, <2>2, <3>1 DEF Registry, Kept
    <3>4. ListedChannelsOpen'
      BY <2>1, <3>1 DEF Registry, ListedChannelsOpen
    <3> QED BY <3>2, <3>3, <3>4 DEF Registry
  <2>4. CASE ~closed
    <3>1. handler' = [handler EXCEPT ![c] = "append"] /\ listed' = listed \cup {c}
          /\ \E new : ch' = [ch EXCEPT ![c] = new]
      BY <1>2, <2>4 DEF Sub
    <3>2. Unmade'
      BY <1>0, <2>1, <3>1 DEF Registry, Unmade
    <3>3. Kept'
      BY <1>0, <2>1, <3>1 DEF Registry, Kept
    <3>4. ListedChannelsOpen'
      BY <2>1, <2>2, <2>4, <3>1 DEF Registry, ListedChannelsOpen
    <3> QED BY <3>2, <3>3, <3>4 DEF Registry
  <2> QED BY <2>3, <2>4
<1>3. CASE AppendUnsub(c)
  <2>1. handler[c] = "append" /\ handler' = [handler EXCEPT ![c] = "reply"]
        /\ unsub' = [unsub EXCEPT ![s] = @ \cup {c}]
        /\ UNCHANGED <<closed, listed, ch, chClosed, open, leaving, got>>
    BY <1>3 DEF AppendUnsub, subsVars
  <2>2. \A r \in Conns : unsub'[r] = IF r = s THEN unsub[r] \cup {c} ELSE unsub[r]
    BY <1>0, <2>1
  <2> HIDE DEF s
  <2>3. Unmade'
    BY <1>0, <2>1 DEF Registry, Unmade
  <2>4. Kept'
    <3>1. \A x \in listed' : x \in Subscriptions /\ unsub[SubscriberOf[x]] \subseteq unsub'[SubscriberOf[x]]
      BY <1>0, <2>1, <2>2
    <3>2. c \in unsub'[SubscriberOf[c]]
      BY <1>0, <2>2 DEF s
    <3>3. \A x \in Subscriptions : handler'[x] = IF x = c THEN "reply" ELSE handler[x]
      BY <1>0, <2>1
    <3> QED BY <2>1, <3>1, <3>2, <3>3 DEF Registry, Kept
  <2>5. ListedChannelsOpen'
    BY <2>1 DEF Registry, ListedChannelsOpen
  <2> QED BY <2>3, <2>4, <2>5 DEF Registry
<1>4. CASE ReplySub(c)
  <2>1. handler[c] = "reply" /\ handler' = [handler EXCEPT ![c] = "done"]
        /\ UNCHANGED <<closed, open, unsub, leaving, got, ch>>
        /\ \/ open[s] /\ UNCHANGED <<listed, chClosed>>
           \/ listed' = listed \ {c} /\ chClosed' = chClosed \cup ({c} \cap listed)
    BY <1>4 DEF ReplySub, subsVars, connVars, Cancels
  <2>2. \A x \in Subscriptions : handler'[x] = IF x = c THEN "done" ELSE handler[x]
    BY <1>0, <2>1
  <2>3. Unmade'
    BY <2>1, <2>2 DEF Registry, Unmade
  <2>4. Kept'
    <3>1. \A x \in listed' : x \in listed /\ x \in Subscriptions
      BY <1>0, <2>1
    <3>2. c \in listed' => open[s] /\ c \in unsub[s]
      BY <2>1 DEF Registry, Kept
    <3> QED BY <2>1, <2>2, <3>1, <3>2 DEF Registry, Kept
  <2>5. ListedChannelsOpen'
    BY <2>1 DEF Registry, ListedChannelsOpen
  <2> QED BY <2>3, <2>4, <2>5 DEF Registry
<1> QED BY <1>1, <1>2, <1>3, <1>4 DEF HandlerStep

\* A step of a session: an unsub frame, or its close().
LEMMA ConnKeeps ==
    ASSUME TypeOK, Typed, Registry, NEW s \in Conns, ConnStep(s)
    PROVE  Registry'
<1>0. /\ listed \subseteq Subscriptions /\ unsub \in [Conns -> SUBSET Subscriptions]
      /\ leaving \in [Conns -> SUBSET Subscriptions] /\ open \in [Conns -> BOOLEAN]
      /\ \A x \in Subscriptions : SubscriberOf[x] \in Conns
  BY TopicsAssumption DEF TypeOK
<1>1. ASSUME NEW cs, Cancels(cs), UNCHANGED <<closed, handler, got>>
      PROVE  Unmade' /\ ListedChannelsOpen' /\ listed' = listed \ cs
  BY <1>1 DEF Cancels, Registry, Unmade, ListedChannelsOpen
<1>2. CASE Unsub(s)
  <2>1. /\ open[s] /\ ReaderFree(s) /\ Cancels(unsub[s]) /\ unsub' = [unsub EXCEPT ![s] = {}]
        /\ UNCHANGED <<closed, handler, got, open, leaving>>
    BY <1>2 DEF Unsub
  <2>2. Unmade' /\ ListedChannelsOpen' /\ listed' = listed \ unsub[s]
    BY <1>1, <2>1
  <2>3. ASSUME NEW c \in listed'
        PROVE  /\ handler'[c] \in {"append", "reply", "done"}
               /\ handler'[c] = "reply" /\ open'[SubscriberOf[c]] => c \in unsub'[SubscriberOf[c]]
               /\ handler'[c] = "done" =>
                     \/ c \in leaving'[SubscriberOf[c]]
                     \/ open'[SubscriberOf[c]] /\ c \in unsub'[SubscriberOf[c]]
    <3>1. c \in listed /\ c \in Subscriptions /\ SubscriberOf[c] \in Conns
      BY <1>0, <2>2, <2>3
    <3>2. CASE SubscriberOf[c] = s
      <4>1. handler[c] \notin {"append", "reply"}
        BY <2>1, <3>1, <3>2 DEF ReaderFree
      <4>2. c \notin unsub[s]
        BY <2>2, <2>3
      <4> QED BY <2>1, <3>1, <3>2, <4>1, <4>2 DEF Registry, Kept
    <3>3. CASE SubscriberOf[c] # s
      <4>1. unsub'[SubscriberOf[c]] = unsub[SubscriberOf[c]]
        BY <1>0, <2>1, <3>1, <3>3
      <4> QED BY <2>1, <3>1, <4>1 DEF Registry, Kept
    <3> QED BY <3>2, <3>3
  <2>4. Kept'
    BY <2>1, <2>3 DEF Registry, Kept
  <2> QED BY <2>2, <2>4 DEF Registry
<1>3. CASE CloseSession(s)
  <2>1. /\ open[s] /\ open' = [open EXCEPT ![s] = FALSE]
        /\ leaving' = [leaving EXCEPT ![s] = unsub[s]] /\ unsub' = [unsub EXCEPT ![s] = {}]
        /\ UNCHANGED <<closed, listed, ch, chClosed, handler, got>>
    BY <1>3 DEF CloseSession, subsVars
  <2>2. Unmade' /\ ListedChannelsOpen'
    BY <2>1 DEF Registry, Unmade, ListedChannelsOpen
  <2>3. /\ \A r \in Conns : /\ open'[r] <=> (r # s /\ open[r])
                            /\ leaving'[r] = IF r = s THEN unsub[s] ELSE leaving[r]
                            /\ r # s => unsub'[r] = unsub[r]
    BY <1>0, <2>1
  <2>4. \A c \in listed' : c \in listed /\ SubscriberOf[c] \in Conns
    BY <1>0, <2>1
  <2>5. leaving[s] = {}
    BY <2>1 DEF Registry, Kept
  <2>6. Kept'
    <3>1. \A r \in Conns : open'[r] => leaving'[r] = {}
      BY <2>3 DEF Registry, Kept
    <3>2. ASSUME NEW c \in listed'
          PROVE  /\ handler'[c] \in {"append", "reply", "done"}
                 /\ handler'[c] = "reply" /\ open'[SubscriberOf[c]] => c \in unsub'[SubscriberOf[c]]
                 /\ handler'[c] = "done" =>
                       \/ c \in leaving'[SubscriberOf[c]]
                       \/ open'[SubscriberOf[c]] /\ c \in unsub'[SubscriberOf[c]]
      <4>1. /\ handler'[c] = handler[c] /\ c \in listed /\ SubscriberOf[c] \in Conns
        BY <2>1, <2>4, <3>2
      <4>2. CASE SubscriberOf[c] = s
        BY <2>1, <2>3, <2>5, <4>1, <4>2 DEF Registry, Kept
      <4>3. CASE SubscriberOf[c] # s
        BY <2>3, <4>1, <4>3 DEF Registry, Kept
      <4> QED BY <4>2, <4>3
    <3> QED BY <3>1, <3>2 DEF Kept
  <2> QED BY <2>2, <2>6 DEF Registry
<1>4. ASSUME NEW c \in Subscriptions, CancelTaken(s, c)
      PROVE  Registry'
  <2>1. /\ Cancels({c}) /\ leaving' = [leaving EXCEPT ![s] = @ \ {c}]
        /\ UNCHANGED <<closed, handler, got, open, unsub>>
    BY <1>4 DEF CancelTaken
  <2>2. Unmade' /\ ListedChannelsOpen' /\ listed' = listed \ {c}
    BY <1>1, <2>1
  <2>3. \A r \in Conns : leaving'[r] = leaving[r] \/ leaving'[r] = leaving[r] \ {c}
    BY <1>0, <2>1
  <2>4. \A x \in listed' : x \in listed /\ x # c /\ SubscriberOf[x] \in Conns
    BY <1>0, <2>2
  <2>5. Kept'
    BY <2>1, <2>3, <2>4 DEF Registry, Kept
  <2> QED BY <2>2, <2>5 DEF Registry
<1> QED BY <1>2, <1>3, <1>4 DEF ConnStep

\* No step leaves a subscription that nobody will cancel, or a listed one whose
\* channel is closed.
LEMMA RegistryStep == TypeOK /\ Typed /\ Registry /\ [Next]_vars => Registry'
<1> SUFFICES ASSUME TypeOK, Typed, Registry, [Next]_vars PROVE Registry'
  OBVIOUS
<1>1. CASE UNCHANGED vars
  <2>1. UNCHANGED <<closed, listed, ch, chClosed, handler, got, open, unsub, leaving>>
    BY <1>1 DEF vars, subsVars, connVars
  <2> QED BY <2>1 DEF Registry, Unmade, Kept, ListedChannelsOpen
<1>2. ASSUME NEW topic \in TopicNames, Pub(topic)
      PROVE  Registry'
  <2>1. UNCHANGED <<closed, listed, chClosed, handler, got, open, unsub, leaving>>
    BY <1>2 DEF Pub, connVars
  <2>2. \A c \in Subscriptions \ listed : ch'[c] = ch[c]
    BY <1>2 DEF Pub
  <2>3. Unmade'
    BY <2>1, <2>2 DEF Registry, Unmade
  <2> QED BY <2>1, <2>3 DEF Registry, Kept, ListedChannelsOpen
<1>3. ASSUME NEW c \in Subscriptions, HandlerStep(c)
      PROVE  Registry'
  BY <1>3, HandlerKeeps
<1>4. ASSUME NEW c \in Subscriptions, PumpStep(c)
      PROVE  Registry'
  <2>1. UNCHANGED <<closed, listed, chClosed, handler, open, unsub, leaving>>
    BY <1>4 DEF PumpStep, PumpWrites, PumpEnds, connVars
  <2>2. \A x \in Subscriptions : ch[x] = <<>> => ch'[x] = ch[x] /\ got'[x] = got[x]
    BY <1>4 DEF PumpStep, PumpWrites, PumpEnds, Typed
  <2>3. Unmade'
    BY <2>1, <2>2 DEF Registry, Unmade
  <2> QED BY <2>1, <2>3 DEF Registry, Kept, ListedChannelsOpen
<1>5. ASSUME NEW s \in Conns, ConnStep(s)
      PROVE  Registry'
  BY <1>5, ConnKeeps
<1>6. CASE Close
  <2>1. Cancels(listed) /\ UNCHANGED <<handler, got, open, unsub, leaving>>
    BY <1>6 DEF Close, connVars
  <2>2. listed' = {} /\ chClosed' = chClosed \cup listed /\ UNCHANGED ch
    BY <2>1 DEF Cancels
  <2>3. Unmade'
    BY <2>1, <2>2 DEF Registry, Unmade
  <2>4. Kept' /\ ListedChannelsOpen'
    BY <2>1, <2>2 DEF Registry, Kept, ListedChannelsOpen
  <2> QED BY <2>3, <2>4 DEF Registry
<1> QED BY <1>1, <1>2, <1>3, <1>4, <1>5, <1>6 DEF Next

\* What is known of every state so far.
LEMMA RegistryInv == Spec => [](TypeOK /\ Typed /\ Registry)
<1>1. Init => Registry
  BY DEF Init, Registry, Unmade, Kept, ListedChannelsOpen
<1> QED BY <1>1, TypeInit, TypeStep, RegistryStep, PTL DEF Spec

\* Pub never sends on a closed channel, and none is closed twice.
THEOREM NoClosedChannelListed == Spec => []ListedChannelsOpen
<1>1. Registry => ListedChannelsOpen
  BY DEF Registry
<1> QED BY <1>1, RegistryInv, PTL

\* An ended session leaves no subscription in the bus.
THEOREM NoneLeftBehind == Spec => []EndedSessionUnsubscribed
<1>1. TypeOK /\ Registry => EndedSessionUnsubscribed
  <2> SUFFICES ASSUME TypeOK, Registry, NEW s \in Conns, ~open[s], leaving[s] = {}, ReaderFree(s),
                      NEW c \in listed, SubscriberOf[c] = s
               PROVE  FALSE
    BY DEF EndedSessionUnsubscribed
  <2>1. c \in Subscriptions
    BY DEF TypeOK
  <2>2. handler[c] \notin {"append", "reply"}
    BY <2>1 DEF ReaderFree
  <2> QED BY <2>2 DEF Registry, Kept
<1> QED BY <1>1, RegistryInv, PTL

-----------------------------------------------------------------------------
(* What a subscriber receives.                                             *)

\* The messages of one topic have ascending numbers.
Ordered(s, pubs) ==
    \A i, k \in DOMAIN s : i < k /\ pubs[s[i]] = pubs[s[k]] => s[i] < s[k]

\* A new message comes after all those of the past.
LEMMA PublishedOrder ==
    ASSUME NEW pubs \in Seq(TopicNames), NEW topic \in TopicNames, NEW s \in Seq(Messages),
           \A m \in ToSet(s) : m <= Len(pubs), Ordered(s, pubs),
           Len(pubs) + 1 \in Messages
    PROVE  /\ Ordered(s, Append(pubs, topic))
           /\ Ordered(Append(s, Len(pubs) + 1), Append(pubs, topic))
           /\ \A m \in ToSet(s) : m <= Len(Append(pubs, topic))
           /\ \A m \in ToSet(Append(s, Len(pubs) + 1)) : m <= Len(Append(pubs, topic))
<1> DEFINE n == Len(pubs) + 1
           more == Append(pubs, topic)
           t == Append(s, n)
<1>1. /\ Len(pubs) \in Nat /\ Len(s) \in Nat /\ Messages \subseteq Nat \ {0}
      /\ DOMAIN s = 1..Len(s) /\ ToSet(s) = {s[i] : i \in 1..Len(s)} /\ ToSet(s) \subseteq Messages
  BY SeqElems, TopicsAssumption DEF Messages
<1>2. /\ Len(more) = n /\ \A i \in 1..Len(pubs) : more[i] = pubs[i]
      /\ more[n] = topic
  BY AppendProperties
<1>3. /\ t \in Seq(Messages) /\ Len(t) = Len(s) + 1
      /\ \A i \in 1..Len(s) : t[i] = s[i]
      /\ t[Len(s) + 1] = n
  BY AppendProperties
<1> HIDE DEF more, t
<1> DEFINE l == Len(s) + 1
<1>0. l \in Nat /\ \A i \in 1..l : i # l => i \in 1..Len(s)
  BY <1>1
<1>4. DOMAIN t = 1..l /\ ToSet(t) = {t[i] : i \in 1..l} /\ t[l] = n
  BY <1>3, SeqElems
<1>5. n \in Nat /\ n = Len(pubs) + 1
  BY <1>1
<1> HIDE DEF n, l
<1>6. \A i \in 1..Len(s) : s[i] \in 1..Len(pubs) /\ more[s[i]] = pubs[s[i]] /\ s[i] < n
  <2> SUFFICES ASSUME NEW i \in 1..Len(s)
               PROVE  s[i] \in 1..Len(pubs) /\ more[s[i]] = pubs[s[i]] /\ s[i] < n
    OBVIOUS
  <2>1. s[i] \in ToSet(s) /\ s[i] \in Nat \ {0}
    BY <1>1
  <2>2. s[i] <= Len(pubs)
    BY <2>1
  <2> QED BY <1>1, <1>2, <1>5, <2>1, <2>2
<1>7. Ordered(s, more)
  BY <1>1, <1>6 DEF Ordered
<1>8. Ordered(t, more)
  <2> SUFFICES ASSUME NEW i \in 1..l, NEW k \in 1..l, i < k, more[t[i]] = more[t[k]]
               PROVE  t[i] < t[k]
    BY <1>4 DEF Ordered
  <2>1. i \in 1..Len(s) /\ t[i] = s[i]
    BY <1>0, <1>1, <1>3 DEF l
  <2>2. CASE k = l
    BY <1>4, <1>6, <2>1, <2>2
  <2>3. CASE k # l
    <3>1. k \in 1..Len(s) /\ t[k] = s[k]
      BY <1>0, <1>3, <2>3
    <3> QED BY <1>1, <1>7, <2>1, <3>1 DEF Ordered
  <2> QED BY <2>2, <2>3
<1>9. \A m \in ToSet(s) : m <= Len(more)
  BY <1>1, <1>2, <1>6, <1>5
<1>10. \A m \in ToSet(t) : m <= Len(more)
  <2> SUFFICES ASSUME NEW i \in 1..l PROVE t[i] <= Len(more)
    BY <1>4
  <2>1. CASE i = l
    BY <1>2, <1>4, <1>5, <2>1
  <2>2. CASE i # l
    <3>1. i \in 1..Len(s) /\ t[i] = s[i]
      BY <1>0, <1>3, <2>2
    <3> QED BY <1>1, <1>9, <3>1
  <2> QED BY <2>1, <2>2
<1> QED BY <1>7, <1>8, <1>9, <1>10 DEF more, t, n

\* The pump moves the head of the channel, ...
LEMMA MovedSame ==
    ASSUME NEW a \in Seq(Messages), NEW b \in Seq(Messages), b # <<>>
    PROVE  Append(a, Head(b)) \o Tail(b) = a \o b
<1> DEFINE x == Append(a, Head(b)) \o Tail(b)
           y == a \o b
<1>0. Len(a) \in Nat /\ Len(b) \in Nat /\ Len(b) > 0
  BY LenProperties, EmptySeq
<1>1. /\ Tail(b) \in Seq(Messages) /\ Head(b) \in Messages /\ Len(Tail(b)) = Len(b) - 1
      /\ \A i \in 1..Len(b) - 1 : Tail(b)[i] = b[i + 1]
      /\ Head(b) = b[1]
  BY HeadTailProperties
<1>2. /\ Append(a, Head(b)) \in Seq(Messages) /\ Len(Append(a, Head(b))) = Len(a) + 1
      /\ \A i \in 1..Len(a) : Append(a, Head(b))[i] = a[i]
      /\ Append(a, Head(b))[Len(a) + 1] = Head(b)
  BY <1>1, AppendProperties
<1>3. /\ x \in Seq(Messages) /\ Len(x) = Len(a) + Len(b)
      /\ \A i \in 1..Len(x) : x[i] = IF i <= Len(a) + 1 THEN Append(a, Head(b))[i]
                                     ELSE Tail(b)[i - (Len(a) + 1)]
  BY <1>0, <1>1, <1>2, ConcatSet
<1>4. /\ y \in Seq(Messages) /\ Len(y) = Len(a) + Len(b)
      /\ \A i \in 1..Len(y) : y[i] = IF i <= Len(a) THEN a[i] ELSE b[i - Len(a)]
  BY ConcatSet
<1> HIDE DEF x, y
<1>5. \A i \in 1..Len(x) : x[i] = y[i]
  <2> SUFFICES ASSUME NEW i \in 1..Len(x) PROVE x[i] = y[i]
    OBVIOUS
  <2>1. CASE i <= Len(a)
    BY <1>0, <1>2, <1>3, <1>4, <2>1
  <2>2. CASE i = Len(a) + 1
    <3>1. i - Len(a) = 1 /\ ~(i <= Len(a)) /\ i <= Len(a) + 1 /\ i \in 1..Len(y)
      BY <1>0, <1>3, <1>4, <2>2
    <3>2. x[i] = Append(a, Head(b))[i] /\ y[i] = b[1]
      BY <1>3, <1>4, <3>1
    <3> QED BY <1>1, <1>2, <2>2, <3>2
  <2>3. CASE i > Len(a) + 1
    <3> DEFINE k == i - (Len(a) + 1)
    <3>1. k \in 1..Len(b) - 1 /\ k + 1 = i - Len(a)
      BY <1>0, <1>3, <2>3
    <3>2. x[i] = Tail(b)[k] /\ y[i] = b[i - Len(a)]
      BY <1>0, <1>3, <1>4, <2>3
    <3> HIDE DEF k
    <3> QED BY <1>1, <3>1, <3>2
  <2>4. i \in Nat /\ Len(a) \in Nat
    BY <1>0, <1>3
  <2> QED BY <2>1, <2>2, <2>3, <2>4
<1>6. x = y
  BY <1>3, <1>4, <1>5, SeqEqual
<1> QED BY <1>6 DEF x, y

\* ... or drops it.
LEMMA DroppedOrder ==
    ASSUME NEW a \in Seq(Messages), NEW b \in Seq(Messages), b # <<>>, NEW pubs, NEW n,
           Ordered(a \o b, pubs), \A m \in ToSet(a \o b) : m <= n
    PROVE  Ordered(a \o Tail(b), pubs) /\ \A m \in ToSet(a \o Tail(b)) : m <= n
<1> DEFINE x == a \o Tail(b)
           y == a \o b
           from(i) == IF i <= Len(a) THEN i ELSE i + 1
<1>0. Len(a) \in Nat /\ Len(b) \in Nat /\ Len(b) > 0
  BY LenProperties, EmptySeq
<1>1. /\ Tail(b) \in Seq(Messages) /\ Len(Tail(b)) = Len(b) - 1
      /\ \A i \in 1..Len(b) - 1 : Tail(b)[i] = b[i + 1]
  BY HeadTailProperties
<1>2. /\ x \in Seq(Messages) /\ Len(x) = Len(a) + (Len(b) - 1)
      /\ \A i \in 1..Len(x) : x[i] = IF i <= Len(a) THEN a[i] ELSE Tail(b)[i - Len(a)]
  BY <1>1, ConcatSet
<1>3. /\ y \in Seq(Messages) /\ Len(y) = Len(a) + Len(b)
      /\ \A i \in 1..Len(y) : y[i] = IF i <= Len(a) THEN a[i] ELSE b[i - Len(a)]
  BY ConcatSet
<1>4. /\ DOMAIN x = 1..Len(x) /\ DOMAIN y = 1..Len(y)
      /\ ToSet(x) = {x[i] : i \in 1..Len(x)} /\ ToSet(y) = {y[i] : i \in 1..Len(y)}
  BY <1>2, <1>3, SeqElems
<1>5. Ordered(y, pubs) /\ \A m \in ToSet(y) : m <= n
  OBVIOUS
<1> HIDE DEF x, y
<1>6. \A i \in 1..Len(x) : from(i) \in 1..Len(y) /\ x[i] = y[from(i)]
  <2> SUFFICES ASSUME NEW i \in 1..Len(x) PROVE from(i) \in 1..Len(y) /\ x[i] = y[from(i)]
    OBVIOUS
  <2>1. CASE i <= Len(a)
    BY <1>0, <1>2, <1>3, <2>1
  <2>2. CASE ~(i <= Len(a))
    <3> DEFINE k == i - Len(a)
    <3>1. k \in 1..Len(b) - 1 /\ k + 1 = i + 1 - Len(a) /\ ~(i + 1 <= Len(a)) /\ i + 1 \in 1..Len(y)
      BY <1>0, <1>2, <1>3, <2>2
    <3>2. x[i] = Tail(b)[k] /\ y[i + 1] = b[i + 1 - Len(a)]
      BY <1>2, <1>3, <2>2, <3>1
    <3> HIDE DEF k
    <3>3. x[i] = y[i + 1]
      BY <1>1, <3>1, <3>2
    <3> QED BY <2>2, <3>1, <3>3
  <2> QED BY <2>1, <2>2
<1>7. \A i, k \in 1..Len(x) : i < k => from(i) < from(k)
  BY <1>0, <1>2
<1> HIDE DEF from
<1>8. Ordered(x, pubs)
  <2> SUFFICES ASSUME NEW i \in 1..Len(x), NEW k \in 1..Len(x), i < k, pubs[x[i]] = pubs[x[k]]
               PROVE  x[i] < x[k]
    BY <1>4 DEF Ordered
  <2> QED BY <1>4, <1>5, <1>6, <1>7 DEF Ordered
<1>9. \A m \in ToSet(x) : m <= n
  BY <1>4, <1>5, <1>6
<1> QED BY <1>8, <1>9 DEF x

\* What a replay puts into a new channel: messages of different topics.
LEMMA ReplayedOrder ==
    ASSUME TypeOK, Typed, CacheOf, NEW c \in Subscriptions, ch[c] = <<>>,
           NEW pre, NEW ms \in SetToSeqs(Cached(pre))
    PROVE  /\ Ordered(Fits(c, ms), published)
           /\ \A m \in ToSet(Fits(c, ms)) : m <= Len(published)
<1>1. /\ ms \in Seq(Messages) /\ ToSet(ms) = Cached(pre) /\ DOMAIN ms = 1..Len(ms)
      /\ \A i, k \in 1..Len(ms) : i # k => ms[i] # ms[k]
      /\ ToSet(ms) = {ms[i] : i \in 1..Len(ms)} /\ Len(ms) \in Nat
  BY ReplayElems, SeqElems
<1>2. Len(ch[c]) = 0
  OBVIOUS
<1> DEFINE f == Fits(c, ms)
<1>3. /\ f \in Seq(Messages) /\ Len(f) = Shorter(Len(ch[c]) + Len(ms), Buffer)
      /\ \A i \in 1..Len(f) : f[i] = IF i <= Len(ch[c]) THEN ch[c][i] ELSE ms[i - Len(ch[c])]
  BY <1>1, FitsElems
<1>4. DOMAIN f = 1..Len(f) /\ ToSet(f) = {f[i] : i \in 1..Len(f)} /\ Len(f) \in Nat
  BY <1>3, SeqElems
<1> HIDE DEF f
<1>5. \A i \in 1..Len(f) : i \in 1..Len(ms) /\ f[i] = ms[i]
  <2> SUFFICES ASSUME NEW i \in 1..Len(f) PROVE i \in 1..Len(ms) /\ f[i] = ms[i]
    OBVIOUS
  <2>1. Len(f) = Shorter(Len(ms), Buffer) /\ f[i] = ms[i - 0]
    BY <1>1, <1>2, <1>3
  <2>2. i - 0 = i /\ i \in 1..Len(ms)
    BY <1>1, <1>4, <2>1, TopicsAssumption DEF Shorter
  <2> QED BY <2>1, <2>2
<1>6. \A m \in Cached(pre) : \E n \in DOMAIN last : last[n] = m /\ m <= Len(published) /\ published[m] = n
  BY DEF Cached, CacheOf
<1>7. \A m, k \in Cached(pre) : published[m] = published[k] => m = k
  BY <1>6
<1>8. Ordered(f, published)
  <2> SUFFICES ASSUME NEW i \in 1..Len(f), NEW k \in 1..Len(f), i < k,
                      published[f[i]] = published[f[k]]
               PROVE  FALSE
    BY <1>4 DEF Ordered
  <2>1. f[i] = f[k] /\ i # k
    BY <1>1, <1>4, <1>5, <1>7
  <2> QED BY <1>1, <1>5, <2>1
<1>9. \A m \in ToSet(f) : m <= Len(published)
  BY <1>1, <1>4, <1>5, <1>6
<1> QED BY <1>8, <1>9 DEF f

\* Cache, channels and histories keep the order.
OrderInv == CacheOf /\ SentBefore /\ TopicOrder

\* TopicOrder, per subscription.
LEMMA OrderedAll ==
    /\ TopicOrder <=> \A c \in Subscriptions : Ordered(Delivered(c), published)
    /\ TopicOrder' <=> \A c \in Subscriptions : Ordered(Delivered(c)', published')
BY DEF TopicOrder, TopicOf, Ordered

\* A publication.
LEMMA PubOrders ==
    ASSUME TypeOK, Typed, OrderInv, NEW topic \in TopicNames, Pub(topic)
    PROVE  OrderInv'
<1> DEFINE m == Len(published) + 1
<1>1. /\ m \in Messages /\ m \in Nat /\ Len(published) \in Nat /\ published \in Seq(TopicNames)
      /\ published' = Append(published, topic) /\ UNCHANGED got
      /\ Len(published') = m /\ published'[m] = topic
      /\ \A k \in 1..Len(published) : published'[k] = published[k]
  BY TopicsAssumption, AppendProperties DEF Pub, TypeOK, Messages
<1>2. \A c \in Subscriptions : ch'[c] = ch[c] \/ ch'[c] = Fits(c, <<m>>)
  BY DEF Pub, Typed
<1>3. PICK kept \in Evictions(topic) :
         last' = [n \in kept \cup {topic} |-> IF n = topic THEN m ELSE last[n]]
  BY DEF Pub
<1> HIDE DEF m
<1>4. CacheOf'
  <2>1. kept \subseteq DOMAIN last
    BY DEF Evictions
  <2>2. ASSUME NEW n \in DOMAIN last'
        PROVE  last'[n] <= Len(published') /\ published'[last'[n]] = n
    <3>1. CASE n = topic
      BY <1>1, <1>3, <2>2, <3>1
    <3>2. CASE n # topic
      <4>1. n \in DOMAIN last /\ last'[n] = last[n]
        BY <1>3, <2>1, <2>2, <3>2
      <4>2. last[n] \in 1..Len(published) /\ published[last[n]] = n
        BY <1>1, <4>1, TopicsAssumption DEF OrderInv, CacheOf, TypeOK, Messages
      <4> QED BY <1>1, <4>1, <4>2, TopicsAssumption DEF m
    <3> QED BY <3>1, <3>2
  <2> QED BY <2>2 DEF CacheOf
<1>5. ASSUME NEW c \in Subscriptions
      PROVE  /\ Ordered(Delivered(c)', published')
             /\ \A k \in ToSet(Delivered(c)') : k <= Len(published')
  <2>1. /\ got[c] \in Seq(Messages) /\ ch[c] \in Seq(Messages) /\ Delivered(c) \in Seq(Messages)
        /\ \A k \in ToSet(Delivered(c)) : k <= Len(published)
        /\ Ordered(Delivered(c), published)
    BY DeliveredElems, OrderedAll DEF Typed, OrderInv, SentBefore
  <2>2. /\ Ordered(Delivered(c), published')
        /\ Ordered(Append(Delivered(c), m), published')
        /\ \A k \in ToSet(Delivered(c)) : k <= Len(published')
        /\ \A k \in ToSet(Append(Delivered(c), m)) : k <= Len(published')
    BY <1>1, <2>1, PublishedOrder DEF m
  <2>3. CASE ch'[c] = ch[c]
    <3>1. Delivered(c)' = Delivered(c)
      BY <1>1, <2>3 DEF Delivered
    <3> QED BY <2>2, <3>1
  <2>4. CASE ch'[c] = Fits(c, <<m>>) /\ Len(Fits(c, <<m>>)) = Len(ch[c])
    <3>1. Fits(c, <<m>>) = ch[c]
      <4>1. <<m>> \in Seq(Messages) /\ Len(ch[c]) \in Nat
        BY <1>1, <2>1
      <4>2. /\ Fits(c, <<m>>) \in Seq(Messages)
            /\ \A i \in 1..Len(Fits(c, <<m>>)) : Fits(c, <<m>>)[i] =
                  IF i <= Len(ch[c]) THEN ch[c][i] ELSE <<m>>[i - Len(ch[c])]
        BY <4>1, FitsElems
      <4>3. \A i \in 1..Len(Fits(c, <<m>>)) : Fits(c, <<m>>)[i] = ch[c][i]
        BY <2>4, <4>1, <4>2
      <4> QED BY <2>1, <2>4, <4>2, <4>3, SeqEqual
    <3> QED BY <2>3, <2>4, <3>1
  <2>5. CASE ch'[c] = Fits(c, <<m>>) /\ Len(Fits(c, <<m>>)) # Len(ch[c])
    <3>1. <<m>> \in Seq(Messages) /\ Len(<<m>>) = 1 /\ <<m>>[1] = m
      BY <1>1
    <3>2. Fits(c, <<m>>) = Append(ch[c], m)
      <4> DEFINE f == Fits(c, <<m>>)
                 g == Append(ch[c], m)
      <4>1. /\ f \in Seq(Messages) /\ Len(f) = Shorter(Len(ch[c]) + Len(<<m>>), Buffer)
            /\ Len(ch[c]) <= Len(f)
            /\ \A i \in 1..Len(f) : f[i] = IF i <= Len(ch[c]) THEN ch[c][i] ELSE <<m>>[i - Len(ch[c])]
        BY <3>1, FitsElems
      <4>2. /\ g \in Seq(Messages) /\ Len(g) = Len(ch[c]) + 1
            /\ \A i \in 1..Len(ch[c]) : g[i] = ch[c][i]
            /\ g[Len(ch[c]) + 1] = m
        BY <1>1, <2>1, AppendProperties
      <4>3. Len(f) # Len(ch[c]) /\ Len(ch[c]) \in Nat
        BY <2>1, <2>5
      <4> HIDE DEF f, g
      <4>4. Len(f) = Len(ch[c]) + 1
        <5>1. Len(f) <= Len(ch[c]) + 1 /\ Len(f) \in Nat
          BY <3>1, <4>1, <4>3, TopicsAssumption DEF Shorter
        <5> QED BY <4>1, <4>3, <5>1
      <4>5. ASSUME NEW i \in 1..Len(f)
            PROVE  f[i] = g[i]
        <5>1. CASE i <= Len(ch[c])
          BY <4>1, <4>2, <4>3, <5>1
        <5>2. CASE i = Len(ch[c]) + 1
          <6>1. i - Len(ch[c]) = 1 /\ ~(i <= Len(ch[c]))
            BY <4>3, <5>2
          <6>2. f[i] = <<m>>[1]
            BY <4>1, <6>1
          <6> QED BY <3>1, <4>2, <5>2, <6>2
        <5> QED BY <4>3, <4>4, <5>1, <5>2
      <4>6. f = g
        BY <4>1, <4>2, <4>4, <4>5, SeqEqual
      <4> QED BY <4>6 DEF f, g
    <3>3. Delivered(c)' = Append(Delivered(c), m)
      <4>1. Delivered(c)' = got[c] \o Append(ch[c], m)
        BY <1>1, <2>5, <3>2 DEF Delivered
      <4>2. got[c] \o Append(ch[c], m) = Append(got[c] \o ch[c], m)
        <5>1. Append(ch[c], m) = ch[c] \o <<m>>
          BY <1>1, <2>1, AppendIsConcat
        <5>2. Append(got[c] \o ch[c], m) = (got[c] \o ch[c]) \o <<m>>
          BY <1>1, <2>1, AppendIsConcat DEF Delivered
        <5>3. (got[c] \o ch[c]) \o <<m>> = got[c] \o (ch[c] \o <<m>>)
          <6>1. \A a, b, d \in Seq(Messages) : (a \o b) \o d = a \o (b \o d)
            BY ConcatAssociative
          <6> QED BY <2>1, <3>1, <6>1
        <5> QED BY <5>1, <5>2, <5>3
      <4> QED BY <4>1, <4>2 DEF Delivered
    <3> QED BY <2>2, <3>3
  <2> QED BY <1>2, <2>3, <2>4, <2>5
<1>6. TopicOrder' /\ SentBefore'
  BY <1>5, OrderedAll DEF SentBefore
<1> QED BY <1>4, <1>6 DEF OrderInv

\* Every other step: the channel of one subscription at most changes.
LEMMA OrderStep == TypeOK /\ Typed /\ Unmade /\ OrderInv /\ [Next]_vars => OrderInv'
<1> SUFFICES ASSUME TypeOK, Typed, Unmade, OrderInv, [Next]_vars PROVE OrderInv'
  OBVIOUS
<1>1. ASSUME UNCHANGED <<last, published>>,
             \A c \in Subscriptions : /\ Ordered(Delivered(c)', published)
                                      /\ \A k \in ToSet(Delivered(c)') : k <= Len(published)
      PROVE  OrderInv'
  <2>1. CacheOf'
    BY <1>1 DEF OrderInv, CacheOf
  <2>2. TopicOrder' /\ SentBefore'
    BY <1>1, OrderedAll DEF SentBefore
  <2> QED BY <2>1, <2>2 DEF OrderInv
<1>2. \A c \in Subscriptions :
         /\ Ordered(Delivered(c), published)
         /\ \A k \in ToSet(Delivered(c)) : k <= Len(published)
         /\ got[c] \in Seq(Messages) /\ ch[c] \in Seq(Messages)
  BY OrderedAll DEF OrderInv, SentBefore, Typed
<1>3. CASE UNCHANGED <<last, published, ch, got>>
  <2>1. \A c \in Subscriptions : Delivered(c)' = Delivered(c)
    BY <1>3 DEF Delivered
  <2> QED BY <1>1, <1>2, <1>3, <2>1
<1>4. ASSUME NEW topic \in TopicNames, Pub(topic)
      PROVE  OrderInv'
  BY <1>4, PubOrders DEF Typed
<1>5. ASSUME NEW c \in Subscriptions, NEW pre \in SubPrefixes, Sub(c, pre)
      PROVE  OrderInv'
  <2>1. CASE closed
    BY <1>3, <1>5, <2>1 DEF Sub, subsVars
  <2>2. CASE ~closed
    <3>1. PICK ms \in SetToSeqs(Cached(pre)) : ch' = [ch EXCEPT ![c] = Fits(c, ms)]
      BY <1>5, <2>2 DEF Sub
    <3>2. UNCHANGED <<last, got, published>> /\ ch[c] = <<>> /\ got[c] = <<>>
      BY <1>5 DEF Sub, Unmade
    <3>3. /\ Ordered(Fits(c, ms), published) /\ Fits(c, ms) \in Seq(Messages)
          /\ \A m \in ToSet(Fits(c, ms)) : m <= Len(published)
      BY <3>2, ReplayedOrder, ReplayElems, FitsElems DEF OrderInv
    <3>4. Delivered(c)' = Fits(c, ms)
      <4>1. Delivered(c)' = <<>> \o Fits(c, ms)
        BY <3>1, <3>2 DEF Delivered, Typed
      <4> QED BY <3>3, <4>1, ConcatEmptySeq
    <3>5. \A x \in Subscriptions \ {c} : Delivered(x)' = Delivered(x)
      BY <3>1, <3>2 DEF Delivered, Typed
    <3> QED BY <1>1, <1>2, <3>2, <3>3, <3>4, <3>5
  <2> QED BY <2>1, <2>2
<1>6. ASSUME NEW c \in Subscriptions, HandlerStep(c)
      PROVE  OrderInv'
  <2>1. CASE ReadSub(c) \/ AppendUnsub(c)
    BY <1>3, <2>1 DEF ReadSub, AppendUnsub, subsVars
  <2>2. CASE ReplySub(c)
    BY <1>3, <2>2 DEF ReplySub, subsVars, Cancels
  <2> QED BY <1>5, <1>6, <2>1, <2>2 DEF HandlerStep
<1>7. ASSUME NEW c \in Subscriptions, PumpStep(c)
      PROVE  OrderInv'
  <2>0. UNCHANGED <<last, published>>
    BY <1>7 DEF PumpStep, PumpWrites, PumpEnds
  <2>1. CASE UNCHANGED <<ch, got>>
    BY <1>3, <2>0, <2>1
  <2>2. CASE ch[c] # <<>> /\ got' = [got EXCEPT ![c] = Append(@, Head(ch[c]))]
             /\ ch' = [ch EXCEPT ![c] = Tail(@)]
    <3>1. Delivered(c)' = Append(got[c], Head(ch[c])) \o Tail(ch[c])
      BY <2>2 DEF Delivered, Typed
    <3>2. Delivered(c)' = Delivered(c)
      BY <1>2, <2>2, <3>1, MovedSame DEF Delivered
    <3>3. \A x \in Subscriptions \ {c} : Delivered(x)' = Delivered(x)
      BY <2>2 DEF Delivered, Typed
    <3> QED BY <1>1, <1>2, <2>0, <3>2, <3>3
  <2>3. CASE ch[c] # <<>> /\ UNCHANGED got /\ ch' = [ch EXCEPT ![c] = Tail(@)]
    <3>1. Delivered(c)' = got[c] \o Tail(ch[c])
      BY <2>3 DEF Delivered, Typed
    <3>2. Ordered(Delivered(c)', published) /\ \A k \in ToSet(Delivered(c)') : k <= Len(published)
      <4>1. /\ Ordered(got[c] \o ch[c], published)
            /\ \A k \in ToSet(got[c] \o ch[c]) : k <= Len(published)
        BY <1>2 DEF Delivered
      <4> QED BY <1>2, <2>3, <3>1, <4>1, DroppedOrder
    <3>3. \A x \in Subscriptions \ {c} : Delivered(x)' = Delivered(x)
      BY <2>3 DEF Delivered, Typed
    <3> QED BY <1>1, <1>2, <2>0, <3>2, <3>3
  <2> QED BY <1>7, <2>1, <2>2, <2>3 DEF PumpStep, PumpWrites, PumpEnds
<1>8. ASSUME NEW s \in Conns, ConnStep(s)
      PROVE  OrderInv'
  BY <1>3, <1>8 DEF ConnStep, Unsub, CloseSession, CancelTaken, subsVars, Cancels
<1>9. CASE Close
  BY <1>3, <1>9 DEF Close, Cancels
<1>10. CASE UNCHANGED vars
  BY <1>3, <1>10 DEF vars, subsVars
<1> QED BY <1>4, <1>6, <1>7, <1>8, <1>9, <1>10 DEF Next

\* The messages of one topic reach a subscriber in the order of publication.
THEOREM OrderOfTopics == Spec => []TopicOrder
<1>1. Init => OrderInv
  <2> SUFFICES ASSUME Init PROVE OrderInv
    OBVIOUS
  <2>1. CacheOf
    BY DEF Init, CacheOf
  <2>2. ASSUME NEW c \in Subscriptions
        PROVE  DOMAIN Delivered(c) = {} /\ ToSet(Delivered(c)) = {}
    <3>1. Delivered(c) = <<>> \o <<>>
      BY DEF Init, Delivered
    <3>2. Delivered(c) = <<>>
      BY <3>1
    <3> QED BY <3>2 DEF ToSet
  <2>3. SentBefore
    BY <2>2 DEF SentBefore
  <2>4. TopicOrder
    BY <2>2 DEF TopicOrder
  <2> QED BY <2>1, <2>3, <2>4 DEF OrderInv
<1>2. Registry => Unmade
  BY DEF Registry
<1>3. OrderInv => TopicOrder
  BY DEF OrderInv
<1> QED BY <1>1, <1>2, <1>3, RegistryInv, OrderStep, PTL DEF Spec

-----------------------------------------------------------------------------
(* What a subscriber that lost nothing has.                                *)

\* A publication reaches the listed subscriptions that match and have room.
LEMMA PubReaches ==
    ASSUME TypeOK, Typed, LastValueReaches, NEW topic \in TopicNames, Pub(topic)
    PROVE  LastValueReaches'
<1> DEFINE m == Len(published) + 1
           cs == {c \in listed : matchTopic(topic, prefix[c])}
<1>1. m \in Messages /\ <<m>> \in Seq(Messages) /\ Len(<<m>>) = 1 /\ <<m>>[1] = m
  <2>1. m \in Messages
    BY TopicsAssumption DEF Pub, TypeOK, Messages
  <2> HIDE DEF m
  <2> QED BY <2>1
<1>2. /\ ch' = [c \in Subscriptions |-> IF c \in cs THEN Fits(c, <<m>>) ELSE ch[c]]
      /\ dropped' = dropped \cup {c \in cs : Overflows(c, <<m>>)}
      /\ UNCHANGED <<listed, prefix, open, got>>
  BY DEF Pub, connVars
<1>3. PICK kept \in Evictions(topic) :
         last' = [n \in kept \cup {topic} |-> IF n = topic THEN m ELSE last[n]]
  BY DEF Pub
<1>4. kept \subseteq DOMAIN last
  BY DEF Evictions
<1> HIDE DEF m
<1> SUFFICES ASSUME NEW c \in listed', c \notin dropped', NEW n \in DOMAIN last',
                    open'[SubscriberOf[c]], matchTopic(n, prefix'[c])
             PROVE  last'[n] \in ToSet(Delivered(c)')
  BY DEF LastValueReaches
<1>5. c \in Subscriptions /\ c \in listed /\ c \notin dropped /\ open[SubscriberOf[c]]
  BY <1>2 DEF TypeOK
<1>6. /\ got[c] \in Seq(Messages) /\ ch[c] \in Seq(Messages) /\ Len(ch[c]) \in Nat
      /\ ToSet(Delivered(c)) = ToSet(got[c]) \cup ToSet(ch[c])
  BY <1>5, DeliveredElems DEF Typed
<1>7. CASE c \in cs
  <2> DEFINE f == Fits(c, <<m>>)
  <2>1. ch'[c] = f /\ ~Overflows(c, <<m>>)
    BY <1>2, <1>5, <1>7
  <2>0. /\ f \in Seq(Messages) /\ Len(f) = Len(ch[c]) + Len(<<m>>)
        /\ \A i \in 1..Len(f) : f[i] = IF i <= Len(ch[c]) THEN ch[c][i] ELSE <<m>>[i - Len(ch[c])]
    BY <1>1, <1>5, <2>1, FitsElems
  <2>2. /\ f \in Seq(Messages) /\ Len(f) = Len(ch[c]) + 1
        /\ \A i \in 1..Len(f) : f[i] = IF i <= Len(ch[c]) THEN ch[c][i] ELSE <<m>>[i - Len(ch[c])]
    BY <1>1, <2>0
  <2>3. ToSet(f) = {f[i] : i \in 1..Len(f)} /\ ToSet(ch[c]) = {ch[c][i] : i \in 1..Len(ch[c])}
    BY <1>6, <2>2, SeqElems
  <2> HIDE DEF f
  <2>4. ToSet(ch[c]) \subseteq ToSet(f)
    <3> SUFFICES ASSUME NEW i \in 1..Len(ch[c]) PROVE ch[c][i] \in ToSet(f)
      BY <2>3
    <3>1. i \in 1..Len(f) /\ i <= Len(ch[c])
      BY <1>6, <2>2
    <3> QED BY <2>2, <2>3, <3>1
  <2>5. m \in ToSet(f)
    <3> DEFINE k == Len(ch[c]) + 1
    <3>1. k \in 1..Len(f) /\ ~(k <= Len(ch[c])) /\ k - Len(ch[c]) = 1
      BY <1>6, <2>2
    <3> HIDE DEF k
    <3>2. f[k] = <<m>>[1]
      BY <2>2, <3>1
    <3> QED BY <1>1, <2>3, <3>1, <3>2
  <2>6. ToSet(Delivered(c)') = ToSet(got[c]) \cup ToSet(f)
    <3>1. Delivered(c)' = got[c] \o f
      BY <1>2, <2>1 DEF Delivered
    <3> QED BY <1>6, <2>2, <3>1, ConcatSet
  <2>7. CASE n = topic
    BY <1>3, <2>5, <2>6, <2>7
  <2>8. CASE n # topic
    <3>1. n \in DOMAIN last /\ last'[n] = last[n]
      BY <1>3, <1>4, <2>8
    <3>2. last[n] \in ToSet(Delivered(c))
      BY <1>2, <1>5, <3>1 DEF LastValueReaches
    <3> QED BY <1>6, <2>4, <2>6, <3>1, <3>2
  <2> QED BY <2>7, <2>8
<1>8. CASE c \notin cs
  <2>1. n # topic
    BY <1>2, <1>5, <1>8
  <2>2. n \in DOMAIN last /\ last'[n] = last[n]
    BY <1>3, <1>4, <2>1
  <2>3. Delivered(c)' = Delivered(c)
    BY <1>2, <1>5, <1>8 DEF Delivered
  <2>4. last[n] \in ToSet(Delivered(c))
    BY <1>2, <1>5, <2>2 DEF LastValueReaches
  <2> QED BY <2>2, <2>3, <2>4
<1> QED BY <1>7, <1>8

\* A replay that fits puts every cached message that matches into the channel.
LEMMA SubReaches ==
    ASSUME TypeOK, Typed, Unmade, LastValueReaches,
           NEW c \in Subscriptions, NEW pre \in SubPrefixes, Sub(c, pre)
    PROVE  LastValueReaches'
<1>1. CASE closed
  <2>1. UNCHANGED <<last, listed, prefix, ch, got, open, dropped>>
    BY <1>1 DEF Sub, subsVars, connVars
  <2> QED BY <2>1 DEF LastValueReaches, Delivered
<1>2. CASE ~closed
  <2>1. PICK ms \in SetToSeqs(Cached(pre)) :
           /\ ch' = [ch EXCEPT ![c] = Fits(c, ms)]
           /\ dropped' = dropped \cup {x \in {c} : Overflows(x, ms)}
    BY <1>2 DEF Sub
  <2>2. /\ listed' = listed \cup {c} /\ prefix' = [prefix EXCEPT ![c] = pre]
        /\ UNCHANGED <<last, got, open>> /\ ch[c] = <<>> /\ got[c] = <<>> /\ c \notin listed
    BY <1>2 DEF Sub, connVars, Unmade
  <2> SUFFICES ASSUME NEW x \in listed', x \notin dropped', NEW n \in DOMAIN last,
                      open[SubscriberOf[x]], matchTopic(n, prefix'[x])
               PROVE  last[n] \in ToSet(Delivered(x)')
    BY <2>2 DEF LastValueReaches
  <2>3. CASE x = c
    <3>1. prefix'[c] = pre
      BY <2>2 DEF TypeOK
    <3>2. last[n] \in Cached(pre)
      BY <2>3, <3>1 DEF Cached
    <3>3. /\ ms \in Seq(Messages) /\ ToSet(ms) = Cached(pre) /\ Len(ms) \in Nat
          /\ ToSet(ms) = {ms[i] : i \in 1..Len(ms)}
      BY ReplayElems, SeqElems
    <3> DEFINE f == Fits(c, ms)
    <3>4. ~Overflows(c, ms) /\ Len(ch[c]) = 0
      BY <2>1, <2>2, <2>3
    <3>5. /\ f \in Seq(Messages) /\ Len(f) = Len(ch[c]) + Len(ms)
          /\ \A i \in 1..Len(f) : f[i] = IF i <= Len(ch[c]) THEN ch[c][i] ELSE ms[i - Len(ch[c])]
      BY <3>3, <3>4, FitsElems
    <3>6. ToSet(f) = {f[i] : i \in 1..Len(f)}
      BY <3>5, SeqElems
    <3> HIDE DEF f
    <3>7. \A i \in 1..Len(ms) : i \in 1..Len(f) /\ f[i] = ms[i]
      <4> SUFFICES ASSUME NEW i \in 1..Len(ms) PROVE i \in 1..Len(f) /\ f[i] = ms[i]
        OBVIOUS
      <4>1. i \in 1..Len(f) /\ ~(i <= Len(ch[c])) /\ i - Len(ch[c]) = i
        BY <3>3, <3>4, <3>5
      <4> QED BY <3>5, <4>1
    <3>8. ToSet(ms) \subseteq ToSet(f)
      BY <3>3, <3>6, <3>7
    <3>9. Delivered(c)' = f
      <4>1. Delivered(c)' = <<>> \o f
        BY <2>1, <2>2 DEF Delivered, Typed, f
      <4> QED BY <3>5, <4>1, ConcatEmptySeq
    <3> QED BY <2>3, <3>2, <3>3, <3>8, <3>9
  <2>4. CASE x # c
    <3>1. x \in listed /\ x \notin dropped /\ x \in Subscriptions /\ prefix'[x] = prefix[x]
      BY <2>1, <2>2, <2>4 DEF TypeOK
    <3>2. Delivered(x)' = Delivered(x)
      BY <2>1, <2>2, <2>4, <3>1 DEF Delivered, Typed
    <3> QED BY <3>1, <3>2 DEF LastValueReaches
  <2> QED BY <2>3, <2>4
<1> QED BY <1>1, <1>2

\* No step takes the last value of a topic from a subscriber that lost nothing.
LEMMA ReachStep ==
    TypeOK /\ Typed /\ Unmade /\ LastValueReaches /\ [Next]_vars => LastValueReaches'
<1> SUFFICES ASSUME TypeOK, Typed, Unmade, LastValueReaches, [Next]_vars
             PROVE  LastValueReaches'
  OBVIOUS
<1>1. ASSUME UNCHANGED <<last, prefix>>, listed' \subseteq listed, dropped \subseteq dropped',
             \A s \in Conns : open'[s] => open[s],
             \A c \in Subscriptions :
                ToSet(Delivered(c)') = ToSet(Delivered(c)) \/ ~open[SubscriberOf[c]]
      PROVE  LastValueReaches'
  <2> SUFFICES ASSUME NEW c \in listed', c \notin dropped', NEW n \in DOMAIN last',
                      open'[SubscriberOf[c]], matchTopic(n, prefix'[c])
               PROVE  last'[n] \in ToSet(Delivered(c)')
    BY DEF LastValueReaches
  <2>1. c \in Subscriptions /\ c \in listed /\ c \notin dropped /\ SubscriberOf[c] \in Conns
    BY <1>1, TopicsAssumption DEF TypeOK
  <2>2. open[SubscriberOf[c]]
    BY <1>1, <2>1
  <2>3. last[n] \in ToSet(Delivered(c))
    BY <1>1, <2>1, <2>2 DEF LastValueReaches
  <2> QED BY <1>1, <2>1, <2>2, <2>3
<1>2. ASSUME UNCHANGED <<last, prefix, ch, got, dropped>>, listed' \subseteq listed,
             \A s \in Conns : open'[s] => open[s]
      PROVE  LastValueReaches'
  <2>1. \A c \in Subscriptions : ToSet(Delivered(c)') = ToSet(Delivered(c))
    BY <1>2 DEF Delivered
  <2> QED BY <1>1, <1>2, <2>1
<1>3. ASSUME NEW topic \in TopicNames, Pub(topic)
      PROVE  LastValueReaches'
  BY <1>3, PubReaches
<1>4. ASSUME NEW c \in Subscriptions, HandlerStep(c)
      PROVE  LastValueReaches'
  <2>1. CASE ReadSub(c) \/ AppendUnsub(c) \/ ReplySub(c)
    BY <1>2, <2>1 DEF ReadSub, AppendUnsub, ReplySub, Cancels, subsVars, connVars
  <2> QED BY <1>4, <2>1, SubReaches DEF HandlerStep
<1>5. ASSUME NEW c \in Subscriptions, PumpStep(c)
      PROVE  LastValueReaches'
  <2>1. UNCHANGED <<last, prefix, listed, dropped, open>>
    BY <1>5 DEF PumpStep, PumpWrites, PumpEnds, connVars
  <2>2. CASE UNCHANGED <<ch, got>>
    BY <1>2, <2>1, <2>2
  <2>3. CASE ch[c] # <<>> /\ got' = [got EXCEPT ![c] = Append(@, Head(ch[c]))]
             /\ ch' = [ch EXCEPT ![c] = Tail(@)]
    <3>1. Delivered(c)' = Append(got[c], Head(ch[c])) \o Tail(ch[c])
      BY <2>3 DEF Delivered, Typed
    <3>2. Delivered(c)' = Delivered(c)
      BY <2>3, <3>1, MovedSame DEF Delivered, Typed
    <3>3. \A x \in Subscriptions \ {c} : Delivered(x)' = Delivered(x)
      BY <2>3 DEF Delivered, Typed
    <3> QED BY <1>1, <2>1, <3>2, <3>3
  <2>4. CASE ~open[SubscriberOf[c]] /\ UNCHANGED got /\ ch' = [ch EXCEPT ![c] = Tail(@)]
    <3>1. \A x \in Subscriptions \ {c} : Delivered(x)' = Delivered(x)
      BY <2>4 DEF Delivered, Typed
    <3> QED BY <1>1, <2>1, <2>4, <3>1
  <2> QED BY <1>5, <2>2, <2>3, <2>4 DEF PumpStep, PumpWrites, PumpEnds
<1>6. ASSUME NEW s \in Conns, ConnStep(s)
      PROVE  LastValueReaches'
  <2>1. UNCHANGED <<last, prefix, ch, got, dropped>> /\ listed' \subseteq listed
    BY <1>6 DEF ConnStep, Unsub, CloseSession, CancelTaken, Cancels, subsVars
  <2>2. \A r \in Conns : open'[r] => open[r]
    BY <1>6 DEF ConnStep, Unsub, CloseSession, CancelTaken, TypeOK
  <2> QED BY <1>2, <2>1, <2>2
<1>7. CASE Close
  BY <1>2, <1>7 DEF Close, Cancels, connVars
<1>8. CASE UNCHANGED vars
  BY <1>2, <1>8 DEF vars, subsVars, connVars
<1> QED BY <1>3, <1>4, <1>5, <1>6, <1>7, <1>8 DEF Next

\* No last value falls between the replay and the list of subscriptions.
THEOREM LastValueSeen == Spec => []LastValueReaches
<1>1. Init => LastValueReaches
  BY DEF Init, LastValueReaches
<1>2. Registry => Unmade
  BY DEF Registry
<1> QED BY <1>1, <1>2, RegistryInv, ReachStep, PTL DEF Spec
=============================================================================
