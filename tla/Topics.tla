-------------------------------- MODULE Topics --------------------------------
(***************************************************************************)
(* Publish and subscribe: Bus.Pub, Bus.Sub, unsub and Close of mailbox.go  *)
(* with the last-value cache, and the sub and unsub handlers, pumpSub and  *)
(* close of the hub's sessions.  A critical section is one step.  Messages *)
(* are numbered in the order in which Pub takes the bus's mutex.           *)
(***************************************************************************)
EXTENDS Naturals, FiniteSets, Sequences, SequencesExt

CONSTANTS
    TopicNames,      \* topics published, as sequences of letters
    SubPrefixes,     \* prefixes subscribed to, as sequences of letters
    Subscriptions,   \* the calls of Bus.Sub, one channel each
    Conns,           \* sessions
    SubscriberOf,    \* the session that makes each subscription
    Buffer,          \* capacity of a subscription's channel, 64 in the code
    MaxCachedTopics, \* size of the last-value cache, 4096 in the code
    MaxPubs          \* how many messages are published (bound)

ASSUME TopicsAssumption ==
    /\ Buffer \in Nat \ {0} /\ MaxCachedTopics \in Nat \ {0} /\ MaxPubs \in Nat
    /\ SubscriberOf \in [Subscriptions -> Conns]

VARIABLES
    closed,    \* Bus.closed
    last,      \* Bus.last: topic -> message, a function on the cached topics
    listed,    \* Bus.subs: the subscriptions in it
    prefix,    \* the prefix of each subscription
    ch,        \* the messages in each channel
    chClosed,  \* the channels that are closed
    open,      \* ~session.closed
    unsub,     \* session.unsub: the cancel functions of these subscriptions
    leaving,   \* cancel functions a session's close() has taken and not called
    handler,   \* what the sub handler that makes a subscription does next
    pump,      \* what the subscription's pumpSub does
    got,       \* history: the messages pumpSub has written to the client
    published, \* history: the topics of the messages published so far
    dropped    \* history: the subscriptions that lost a message

subsVars == <<listed, prefix, ch, chClosed, dropped>>
connVars == <<open, unsub, leaving>>
vars == <<closed, last, subsVars, connVars, handler, pump, got, published>>

Messages == 1..MaxPubs
TopicOf(m) == published[m]

matchTopic(topic, pre) == IsPrefix(pre, topic)

-----------------------------------------------------------------------------
Init ==
    /\ closed = FALSE
    /\ last = <<>>
    /\ listed = {}
    /\ prefix = [c \in Subscriptions |-> <<>>]
    /\ ch = [c \in Subscriptions |-> <<>>]
    /\ chClosed = {}
    /\ open = [s \in Conns |-> TRUE]
    /\ unsub = [s \in Conns |-> {}]
    /\ leaving = [s \in Conns |-> {}]
    /\ handler = [c \in Subscriptions |-> "new"]
    /\ pump = [c \in Subscriptions |-> "none"]
    /\ got = [c \in Subscriptions |-> <<>>]
    /\ published = <<>>
    /\ dropped = {}

\* the cache before the new entry: an arbitrary one is evicted if it is full
EvictionsLate(topic) ==                          \* mutant: off by one
    IF topic \notin DOMAIN last /\ Cardinality(DOMAIN last) > MaxCachedTopics
    THEN {DOMAIN last \ {old} : old \in DOMAIN last}
    ELSE {DOMAIN last}

Evictions(topic) ==
    IF topic \notin DOMAIN last /\ Cardinality(DOMAIN last) >= MaxCachedTopics
    THEN {DOMAIN last \ {old} : old \in DOMAIN last}
    ELSE {DOMAIN last}

Shorter(n, m) == IF n < m THEN n ELSE m

\* mutants: the oldest message makes room; the replayed one goes in front; no
\* default branch, so that the channel grows
FitsNewest(c, ms) ==
    LET all == ch[c] \o ms
    IN  SubSeq(all, 1 + Len(all) - Shorter(Len(all), Buffer), Len(all))
FitsInFront(c, ms) == SubSeq(ms \o ch[c], 1, Shorter(Len(ms \o ch[c]), Buffer))
FitsAll(c, ms) == ch[c] \o ms

\* the channel of c after a non-blocking send of each of ms, in order
Fits(c, ms) == SubSeq(ch[c] \o ms, 1, Shorter(Len(ch[c] \o ms), Buffer))
Overflows(c, ms) == Len(ch[c] \o ms) > Buffer

Pub(topic) ==
    LET m == Len(published) + 1
        cs == {c \in listed : matchTopic(topic, prefix[c])}
    IN  /\ ~closed /\ m <= MaxPubs
        /\ published' = Append(published, topic)
        /\ \E kept \in Evictions(topic) :
              last' = [n \in kept \cup {topic} |-> IF n = topic THEN m ELSE last[n]]
        /\ ch' = [c \in Subscriptions |-> IF c \in cs THEN Fits(c, <<m>>) ELSE ch[c]]
        /\ dropped' = dropped \cup {c \in cs : Overflows(c, <<m>>)}
        /\ UNCHANGED <<closed, listed, prefix, chClosed, connVars, handler, pump, got>>

\* the session's reader is not inside a sub handler
ReaderFree(s) ==
    \A c \in Subscriptions :
        SubscriberOf[c] = s => handler[c] \notin {"read", "append", "reply"}

(* The session's reader has read a sub frame.                              *)
ReadSub(c) ==
    /\ handler[c] = "new" /\ open[SubscriberOf[c]] /\ ReaderFree(SubscriberOf[c])
    /\ handler' = [handler EXCEPT ![c] = "read"]
    /\ UNCHANGED <<closed, last, subsVars, connVars, pump, got, published>>

\* mutant: only the topic of that very name
CachedExact(pre) == {last[n] : n \in {k \in DOMAIN last : k = pre}}

\* the cached messages that match
Cached(pre) == {last[n] : n \in {k \in DOMAIN last : matchTopic(k, pre)}}

(* Bus.Sub, called by the sub handler: the channel joins the list, and the *)
(* cached messages that match are replayed in the arbitrary order of a map *)
(* range.  On a closed bus the handler ends with ErrClosed.                *)
Sub(c, pre) ==
    /\ handler[c] = "read"
    /\ \/ /\ closed
          /\ handler' = [handler EXCEPT ![c] = "failed"]
          /\ UNCHANGED subsVars
       \/ /\ ~closed
          /\ listed' = listed \cup {c}
          /\ prefix' = [prefix EXCEPT ![c] = pre]
          /\ \E ms \in SetToSeqs(Cached(pre)) :
                /\ ch' = [ch EXCEPT ![c] = Fits(c, ms)]
                /\ dropped' = dropped \cup {x \in {c} : Overflows(x, ms)}
          /\ handler' = [handler EXCEPT ![c] = "append"]
          /\ UNCHANGED chClosed
    /\ UNCHANGED <<closed, last, connVars, pump, got, published>>

(* The handler keeps the cancel function, whether or not the session has   *)
(* been closed since.                                                      *)
AppendUnsub(c) ==
    /\ handler[c] = "append"
    /\ handler' = [handler EXCEPT ![c] = "reply"]
    /\ unsub' = [unsub EXCEPT ![SubscriberOf[c]] = @ \cup {c}]
    /\ UNCHANGED <<closed, last, subsVars, open, leaving, pump, got, published>>

\* unsub under the bus's mutex: the channels of cs that are listed are closed
CancelsUnlisted(cs) ==                           \* mutant: the list is kept
    /\ chClosed' = chClosed \cup (cs \cap listed)
    /\ UNCHANGED <<listed, prefix, ch, dropped>>
CancelsSilently(cs) ==                           \* mutant: no close(s.ch)
    /\ listed' = listed \ cs
    /\ UNCHANGED <<prefix, ch, chClosed, dropped>>

Cancels(cs) ==
    /\ listed' = listed \ cs
    /\ chClosed' = chClosed \cup (cs \cap listed)
    /\ UNCHANGED <<prefix, ch, dropped>>

\* mutant: a failed reply does not cancel
ReplySubLeaks(c) ==
    /\ handler[c] = "reply"
    /\ handler' = [handler EXCEPT ![c] = "done"]
    /\ pump' = [pump EXCEPT ![c] = IF open[SubscriberOf[c]] THEN "run" ELSE "none"]
    /\ UNCHANGED <<closed, last, subsVars, connVars, got, published>>

(* It replies and starts the pump; if the reply fails it cancels.          *)
ReplySub(c) ==
    /\ handler[c] = "reply"
    /\ handler' = [handler EXCEPT ![c] = "done"]
    /\ \/ /\ open[SubscriberOf[c]]
          /\ pump' = [pump EXCEPT ![c] = "run"]
          /\ UNCHANGED subsVars
       \/ /\ ~open[SubscriberOf[c]]
          /\ Cancels({c})
          /\ UNCHANGED pump
    /\ UNCHANGED <<closed, last, connVars, got, published>>

(* The unsub handler calls all cancel functions under the session's mutex. *)
Unsub(s) ==
    /\ open[s] /\ unsub[s] # {} /\ ReaderFree(s)
    /\ Cancels(unsub[s])
    /\ unsub' = [unsub EXCEPT ![s] = {}]
    /\ UNCHANGED <<closed, last, open, leaving, handler, pump, got, published>>

(* session.close takes the cancel functions, then calls them one by one.   *)
CloseSession(s) ==
    /\ open[s]
    /\ open' = [open EXCEPT ![s] = FALSE]
    /\ leaving' = [leaving EXCEPT ![s] = unsub[s]]
    /\ unsub' = [unsub EXCEPT ![s] = {}]
    /\ UNCHANGED <<closed, last, subsVars, handler, pump, got, published>>

CancelTaken(s, c) ==
    /\ c \in leaving[s]
    /\ leaving' = [leaving EXCEPT ![s] = @ \ {c}]
    /\ Cancels({c})
    /\ UNCHANGED <<closed, last, open, unsub, handler, pump, got, published>>

(* pumpSub writes what it receives until the channel is closed and empty,  *)
(* or the session is closed.                                               *)
PumpWrites(c) ==
    /\ pump[c] = "run" /\ ch[c] # <<>> /\ open[SubscriberOf[c]]
    /\ got' = [got EXCEPT ![c] = Append(@, Head(ch[c]))]
    /\ ch' = [ch EXCEPT ![c] = Tail(@)]
    /\ UNCHANGED <<closed, last, listed, prefix, chClosed, dropped, connVars,
                   handler, pump, published>>

PumpEnds(c) ==
    /\ pump[c] = "run"
    /\ pump' = [pump EXCEPT ![c] = "ended"]
    /\ \/ /\ ch[c] = <<>> /\ c \in chClosed
          /\ UNCHANGED ch
       \/ /\ ch[c] # <<>> /\ ~open[SubscriberOf[c]]
          /\ ch' = [ch EXCEPT ![c] = Tail(@)]
    /\ UNCHANGED <<closed, last, listed, prefix, chClosed, dropped, connVars,
                   handler, got, published>>

Close ==
    /\ ~closed
    /\ closed' = TRUE
    /\ Cancels(listed)
    /\ UNCHANGED <<last, connVars, handler, pump, got, published>>

-----------------------------------------------------------------------------
HandlerStep(c) ==
    ReadSub(c) \/ (\E pre \in SubPrefixes : Sub(c, pre)) \/ AppendUnsub(c) \/ ReplySub(c)
PumpStep(c) == PumpWrites(c) \/ PumpEnds(c)
ConnStep(s) == Unsub(s) \/ CloseSession(s) \/ \E c \in Subscriptions : CancelTaken(s, c)

Next ==
    \/ \E topic \in TopicNames : Pub(topic)
    \/ \E c \in Subscriptions : HandlerStep(c) \/ PumpStep(c)
    \/ \E s \in Conns : ConnStep(s)
    \/ Close

Spec == Init /\ [][Next]_vars

(* Handlers, close and pumps run; nobody has to publish, subscribe or      *)
(* leave.                                                                  *)
Fairness ==
    /\ \A c \in Subscriptions :
          /\ WF_vars(handler[c] # "new" /\ HandlerStep(c))
          /\ WF_vars(PumpStep(c))
    /\ \A s \in Conns, c \in Subscriptions : WF_vars(CancelTaken(s, c))

FairSpec == Spec /\ Fairness

-----------------------------------------------------------------------------
(* Properties.                                                             *)

\* Every variable has its type; a channel never holds more than its capacity
\* (the select with a default in Pub and Sub), and the cache no more topics than
\* the limit that "bounds the last-value cache" (mailbox.go:26-27).
TypeOK ==
    /\ closed \in BOOLEAN
    /\ DOMAIN last \subseteq TopicNames /\ \A n \in DOMAIN last : last[n] \in Messages
    /\ Cardinality(DOMAIN last) <= MaxCachedTopics
    /\ listed \subseteq Subscriptions /\ chClosed \subseteq Subscriptions
    /\ prefix \in [Subscriptions -> SubPrefixes \cup {<<>>}]
    /\ \A c \in Subscriptions : ch[c] \in Seq(Messages) /\ Len(ch[c]) <= Buffer
    /\ open \in [Conns -> BOOLEAN]
    /\ unsub \in [Conns -> SUBSET Subscriptions]
    /\ leaving \in [Conns -> SUBSET Subscriptions]
    /\ handler \in [Subscriptions -> {"new", "read", "append", "reply", "done", "failed"}]
    /\ pump \in [Subscriptions -> {"none", "run", "ended"}]
    /\ published \in Seq(TopicNames)
    /\ dropped \subseteq Subscriptions

\* Pub never sends on a closed channel and no channel is closed twice, both of
\* which would panic: a listed channel is open, however Close, unsub frames and
\* ending sessions interleave (Close, unsub, the once in Sub's cancel).
ListedChannelsOpen == listed \cap chClosed = {} /\ (closed => listed = {})

\* A session that has ended leaves no subscription in the bus, whichever step
\* of a sub handler its close() met: before or after Bus.Sub, before or after
\* the append to session.unsub (handle, OpSub, and session.close).
EndedSessionUnsubscribed ==
    \A s \in Conns : ~open[s] /\ leaving[s] = {} /\ ReaderFree(s) =>
        \A c \in listed : SubscriberOf[c] # s

Delivered(c) == got[c] \o ch[c]

\* A subscriber sees the messages of one topic in the order of their
\* publication, the replayed one first: Sub replays and joins the list in one
\* critical section.
TopicOrder ==
    \A c \in Subscriptions : \A i, k \in DOMAIN Delivered(c) :
        i < k /\ TopicOf(Delivered(c)[i]) = TopicOf(Delivered(c)[k]) =>
            Delivered(c)[i] < Delivered(c)[k]

\* A subscriber that lost nothing has, or is about to get, the cached message
\* of every topic that matches: none falls between the replay and the list.
LastValueReaches ==
    \A c \in listed \ dropped : \A n \in DOMAIN last :
        open[SubscriberOf[c]] /\ matchTopic(n, prefix[c]) => last[n] \in ToSet(Delivered(c))

\* The pump of an ended session ends: no goroutine waits for ever on a channel
\* that nobody closes (pumpSub, unsub, close).
PumpsEnd ==
    \A c \in Subscriptions : (~open[SubscriberOf[c]] /\ pump[c] = "run") ~> pump[c] = "ended"
=============================================================================
