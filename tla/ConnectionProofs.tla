--------------------------- MODULE ConnectionProofs ---------------------------
(* Proofs about Connection, for every capacity and liveness: its types, that   *)
(* a client is at a boundary of the stream or knows that it is not, that the   *)
(* hub takes no call behind a torn frame, and that a peer which waits for      *)
(* frames is not declared dead.                                                *)
EXTENDS Connection, Integers, TLAPS, SequenceTheorems

-----------------------------------------------------------------------------
(* The inductive invariant.                                                *)

\* How many goroutines of the session have written a header and not its body.
Due(w) == IF At(w, "body") THEN 1 ELSE 0
BodiesDue == Due("reader") + Due("pump") + Due("heart")

\* The client counts as inside a frame, or as between two.
Whole == ~gone /\ ~desync /\ pc # "lost"

\* f counts, along what the client has not read, the headers whose bodies are
\* still to come.
Balances(f) ==
    /\ f[0] = IF pc = "rest" THEN 1 ELSE 0
    /\ \A i \in 1..Len(toClient) :
          /\ toClient[i].part = "header" => f[i] = f[i - 1] + 1
          /\ toClient[i].part = "body" => f[i] + 1 = f[i - 1]
          /\ toClient[i].part = "torn" => f[i] = f[i - 1]
    /\ f[Len(toClient)] >= BodiesDue

\* No body comes before its header, however the goroutines interleave their writes
\* and whichever of them fail.
Balanced == Whole => \E f \in [0..Len(toClient) -> Nat] : Balances(f)

\* A client that closed its end is done and reads nothing.
Left == gone => toClient = <<>> /\ pc = "out"

\* The i-th chunk that the hub has not read comes behind a header.
Follows(i) == IF i = 1 THEN rd = "rest" ELSE toHub[i - 1].part = "header"

\* There the stream to the hub is no sequence of frames.
Bad(i) == toHub[i].part = "torn" \/ (toHub[i].part = "header" /\ Follows(i))
HasBad == \E i \in 1..Len(toHub) : Bad(i)

\* It ends in a header, read or not.
OpenEnd == Follows(Len(toHub) + 1)

Sending == pc \in {"body", "pongBody"}

\* As long as the hub reads frames, a call behind a torn frame comes behind bytes
\* that are no frame: the tear itself, or a header without its body.
Tear ==
    open /\ rd \in {"read", "rest"} =>
        /\ \A i \in 1..Len(toHub) : toHub[i].kind = "retry" => \E j \in 1..i : Bad(j)
        /\ torn \/ Sending => HasBad \/ OpenEnd
        /\ torn /\ Sending => HasBad

\* A client that tore nothing sends whole frames, and the hub reads them as such.
Aligned ==
    open /\ ~torn /\ ~gone =>
        /\ rd \in {"read", "rest"}
        /\ ~HasBad
        /\ \A i \in 1..Len(toHub) : toHub[i].part = "body" => Follows(i)
        /\ Sending <=> OpenEnd

\* The client is to be pinged, or a ping or its answer is under way.
Pinged ==
    \/ tick \/ gone
    \/ writer["heart"] \in {"header", "body", "failed", "close"}
    \/ \E i \in 1..Len(toClient) : toClient[i] = Chunk("body", "ping")
    \/ pc \in {"pongHeader", "pongBody", "lost"}
    \/ \E i \in 1..Len(toHub) : toHub[i].part = "body"

\* A client that has waited for frames since lastSeen, at a connection nothing tore.
Attentive == open /\ ~absent /\ ~torn /\ ~desync

\* It is never silent for more than two intervals: in the second it is pinged.
Chased == Attentive /\ idle >= 2 => idle = 2 /\ Pinged

ConnInv == TypeOK /\ Balanced /\ Left /\ Tear /\ Aligned /\ Chased

-----------------------------------------------------------------------------
(* Sequences of chunks.                                                    *)

\* A closed direction.
LEMMA Emptied == <<>> \in Seq(Chunks) /\ Len(<<>>) = 0
BY EmptySeq

\* What a write makes of a direction.
LEMMA Appended ==
    ASSUME NEW s \in Seq(Chunks), NEW e \in Chunks
    PROVE  /\ Append(s, e) \in Seq(Chunks) /\ Append(s, e) # <<>>
           /\ Len(s) \in Nat /\ Len(Append(s, e)) = Len(s) + 1
           /\ \A i \in 1..Len(s) : Append(s, e)[i] = s[i]
           /\ Append(s, e)[Len(s) + 1] = e
           /\ s = <<>> <=> Len(s) = 0
BY AppendProperties, LenProperties, EmptySeq

\* What a read leaves of it.
LEMMA Tailed ==
    ASSUME NEW s \in Seq(Chunks), s # <<>>
    PROVE  /\ Tail(s) \in Seq(Chunks) /\ Len(s) \in Nat \ {0}
           /\ Len(Tail(s)) \in Nat /\ Len(Tail(s)) = Len(s) - 1
           /\ Head(s) = s[1] /\ s[1] \in Chunks
           /\ \A i \in 1..Len(s) - 1 : Tail(s)[i] = s[i + 1]
           /\ Tail(s) = <<>> <=> Len(s) = 1
<1>1. /\ Tail(s) \in Seq(Chunks) /\ Len(Tail(s)) = Len(s) - 1
      /\ \A i \in 1..Len(Tail(s)) : Tail(s)[i] = s[i + 1]
  BY HeadTailProperties
<1>2. Len(s) \in Nat \ {0} /\ s[1] \in Chunks
  BY EmptySeq, ElementOfSeq
<1>3. Head(s) = s[1]
  BY <1>2
<1>4. Tail(s) = <<>> <=> Len(Tail(s)) = 0
  BY <1>1, EmptySeq
<1> QED BY <1>1, <1>2, <1>3, <1>4

\* Chunks are headers, bodies or torn ones.
LEMMA ChunkParts ==
    ASSUME NEW part \in {"header", "body", "torn"}, NEW kind \in Kinds
    PROVE  /\ Chunk(part, kind) \in Chunks
           /\ Chunk(part, kind).part = part /\ Chunk(part, kind).kind = kind
BY DEF Chunk, Chunks

\* The chunks of a session's goroutine.
LEMMA WriterChunks ==
    ASSUME NEW w \in Writers, Writing(w)
    PROVE  /\ writer[w] \in {"header", "body"}
           /\ Chunk(writer[w], Replies(w)) \in Chunks
           /\ Chunk(writer[w], Replies(w)).part = writer[w]
           /\ Chunk("torn", "data") \in Chunks /\ Chunk("torn", "data").part = "torn"
<1>1. writer[w] \in {"header", "body"} /\ Replies(w) \in Kinds /\ "data" \in Kinds
  BY DEF Writing, Replies, Kinds
<1> QED BY <1>1, ChunkParts

-----------------------------------------------------------------------------
(* The types.                                                              *)

\* The steps of the session's goroutines, the heartbeat's among them.
LEMMA HubTypes ==
    ASSUME TypeOK, NEW w \in Writers,
           WriterStep(w) \/ PumpReplies \/ HeartStep
    PROVE  TypeOK'
<1> USE DEF TypeOK, Steps
<1>1. Live \in Nat \ {0} /\ Capacity \in Nat \ {0} /\ Len(toClient) \in Nat
  BY ConnectionAssumption, LenProperties
<1>2. ASSUME NEW e \in Chunks, Len(toClient) <= Capacity
       PROVE  Append(toClient, e) \in Seq(Chunks) /\ Len(Append(toClient, e)) <= Capacity + 1
  BY <1>1, <1>2, Appended
<1>3. CASE WriteChunk(w)
  <2> DEFINE e == Chunk(writer[w], Replies(w))
  <2>1. /\ Writing(w) /\ Len(toClient) < Capacity /\ toClient' = Append(toClient, e)
        /\ \E at \in Steps : writer' = [writer EXCEPT ![w] = at]
    BY <1>3 DEF WriteChunk, Goto
  <2>2. e \in Chunks
    BY <2>1, WriterChunks
  <2> HIDE DEF e
  <2>3. toClient' \in Seq(Chunks) /\ Len(toClient') <= Capacity + 1
    BY <1>1, <1>2, <2>1, <2>2
  <2> QED BY <1>3, <2>1, <2>3 DEF WriteChunk, client, call
<1>4. CASE WriteFails(w)
  <2> DEFINE e == Chunk("torn", "data")
  <2>1. /\ Writing(w) /\ writer' = [writer EXCEPT ![w] = "failed"]
        /\ \/ toClient' = toClient
           \/ Len(toClient) <= Capacity /\ toClient' = Append(toClient, e)
    BY <1>4 DEF WriteFails, Goto
  <2>2. e \in Chunks
    BY <2>1, WriterChunks
  <2> HIDE DEF e
  <2>3. toClient' \in Seq(Chunks) /\ Len(toClient') <= Capacity + 1
    <3>1. CASE toClient' = toClient
      BY <3>1
    <3>2. CASE Len(toClient) <= Capacity /\ toClient' = Append(toClient, e)
      BY <1>2, <2>2, <3>2
    <3> QED BY <2>1, <3>1, <3>2
  <2>4. writer' \in [Writers -> Steps]
    BY <2>1
  <2>5. UNCHANGED <<open, limited, rd, idle, tick, client, absent>>
    BY <1>4 DEF WriteFails
  <2> QED BY <2>3, <2>4, <2>5 DEF client, call
<1>5. CASE ClearDeadline(w)
  <2>1. /\ \E at \in Steps : writer' = [writer EXCEPT ![w] = at]
        /\ limited' = FALSE /\ UNCHANGED <<open, toClient, rd, idle, tick, client, absent>>
    BY <1>5 DEF ClearDeadline, Goto
  <2>2. writer' \in [Writers -> Steps]
    BY <2>1
  <2> QED BY <2>1, <2>2 DEF client, call
<1>6. CASE CloseFailed(w)
  <2>1. /\ toHub' = <<>> /\ open' = FALSE /\ idle' = 0 /\ absent' = FALSE
        /\ writer' = [writer EXCEPT ![w] = "none"]
        /\ UNCHANGED <<toClient, limited, rd, tick, call>>
    BY <1>6 DEF CloseFailed, Goto, HubCloses
  <2>2. Len(toHub') <= Capacity + 1 /\ toHub' \in Seq(Chunks) /\ 0 \in 0..Live + 1
    BY <1>1, <2>1, Emptied
  <2> QED BY <2>1, <2>2 DEF call
<1>7. CASE PumpReplies
  BY <1>7 DEF PumpReplies, BeginsReply, Goto, client, call, Writers
<1>8. CASE HeartEnds \/ HeartWaits
  BY <1>8 DEF HeartEnds, HeartWaits, client, call
<1>9. CASE HeartPings
  BY <1>9 DEF HeartPings, BeginsReply, Goto, client, call, Writers
<1>10. CASE HeartCloses
  <2>1. /\ toHub' = <<>> /\ open' = FALSE /\ idle' = 0 /\ absent' = FALSE /\ tick' = FALSE
        /\ UNCHANGED <<toClient, writer, limited, rd, call>>
    BY <1>10 DEF HeartCloses, HubCloses
  <2>2. Len(toHub') <= Capacity + 1 /\ toHub' \in Seq(Chunks) /\ 0 \in 0..Live + 1
    BY <1>1, <2>1, Emptied
  <2> QED BY <2>1, <2>2 DEF call
<1> QED BY <1>3, <1>4, <1>5, <1>6, <1>7, <1>8, <1>9, <1>10 DEF WriterStep, HeartStep

\* The steps of the session's reader.
LEMMA ReaderTypes == ASSUME TypeOK, ReaderStep PROVE TypeOK'
<1> USE DEF TypeOK, Steps
<1>1. Live \in Nat \ {0} /\ Capacity \in Nat \ {0}
  BY ConnectionAssumption
<1>2. toHub # <<>> => /\ Tail(toHub) \in Seq(Chunks) /\ Len(Tail(toHub)) <= Capacity + 1
  <2>1. toHub # <<>> => /\ Tail(toHub) \in Seq(Chunks) /\ Len(toHub) \in Nat
                        /\ Len(Tail(toHub)) = Len(toHub) - 1
    BY Tailed
  <2> QED BY <1>1, <2>1
<1>3. CASE ReadHeader
  BY <1>2, <1>3 DEF ReadHeader, call
<1>4. CASE ReadBody
  <2>1. /\ toHub # <<>> /\ toHub' = Tail(toHub) /\ rd' = "read" /\ idle' = 0 /\ absent' = FALSE
        /\ \/ writer' = writer /\ limited' = limited
           \/ writer' = [writer EXCEPT !["reader"] = "header"] /\ limited' = TRUE
        /\ UNCHANGED <<open, toClient, tick, call>>
    BY <1>4 DEF ReadBody, Seen, BeginsReply, Goto
  <2>2. writer' \in [Writers -> Steps] /\ limited' \in BOOLEAN
    BY <2>1 DEF Writers
  <2>3. 0 \in 0..Live + 1
    BY <1>1
  <2> QED BY <1>2, <2>1, <2>2, <2>3 DEF call
<1>5. CASE ReadGarbage
  BY <1>2, <1>5 DEF ReadGarbage, call
<1>6. CASE ReadFails
  BY <1>6 DEF ReadFails, client, call
<1>7. CASE SessionEnds
  <2>1. /\ toHub' = <<>> /\ open' = FALSE /\ idle' = 0 /\ absent' = FALSE
        /\ UNCHANGED <<toClient, writer, limited, rd, tick, call>>
    BY <1>7 DEF SessionEnds, HubCloses
  <2>2. Len(toHub') <= Capacity + 1 /\ toHub' \in Seq(Chunks) /\ 0 \in 0..Live + 1
    BY <1>1, <2>1, Emptied
  <2> QED BY <2>1, <2>2 DEF call
<1> QED BY <1>3, <1>4, <1>5, <1>6, <1>7 DEF ReaderStep

\* The steps of the client.
LEMMA ClientTypes == ASSUME TypeOK, Call \/ Recv \/ CloseClient \/ ClientWorks PROVE TypeOK'
<1> USE DEF TypeOK, PCs, hub
<1>1. Capacity \in Nat \ {0} /\ Len(toHub) \in Nat /\ Len(toClient) \in Nat
  BY ConnectionAssumption, LenProperties
<1>2. toClient # <<>> => /\ Tail(toClient) \in Seq(Chunks)
                         /\ Len(Tail(toClient)) <= Capacity + 1
  <2>1. toClient # <<>> => /\ Tail(toClient) \in Seq(Chunks)
                           /\ Len(Tail(toClient)) = Len(toClient) - 1
    BY Tailed
  <2> QED BY <1>1, <2>1
<1>3. ASSUME NEW e \in Chunks, Len(toHub) <= Capacity
      PROVE  Append(toHub, e) \in Seq(Chunks) /\ Len(Append(toHub, e)) <= Capacity + 1
  BY <1>1, <1>3, Appended
<1>4. CASE Call
  BY <1>4 DEF Call
<1>5. CASE Recv
  BY <1>5 DEF Recv
<1>6. CASE CloseClient
  BY <1>1, <1>6, Emptied DEF CloseClient, ClientCloses
<1>7. CASE SendHeader
  <2> DEFINE e == Chunk("header", IF pc = "header" THEN CallKind ELSE "pong")
  <2>1. e \in Chunks
    BY ChunkParts DEF CallKind, Kinds
  <2> HIDE DEF e
  <2>2. /\ Len(toHub) < Capacity /\ toHub' = Append(toHub, e)
        /\ pc' \in {"body", "pongBody"} /\ UNCHANGED <<hub, timed, desync, gone, torn, absent>>
    BY <1>7 DEF SendHeader, e
  <2> QED BY <1>1, <1>3, <2>1, <2>2
<1>8. CASE SendBody
  <2> DEFINE e == Chunk("body", IF pc = "body" THEN CallKind ELSE "pong")
  <2>1. e \in Chunks
    BY ChunkParts DEF CallKind, Kinds
  <2> HIDE DEF e
  <2>2. /\ Len(toHub) < Capacity /\ toHub' = Append(toHub, e)
        /\ pc' = "read" /\ UNCHANGED <<hub, timed, desync, gone, torn, absent>>
    BY <1>8 DEF SendBody, e
  <2> QED BY <1>1, <1>3, <2>1, <2>2
<1>9. CASE SendFails
  <2> DEFINE e == Chunk("torn", "call")
  <2>1. e \in Chunks
    BY ChunkParts DEF Kinds
  <2> HIDE DEF e
  <2>2. /\ pc' \in {"out", "read"} /\ (timed' = FALSE \/ timed' = timed)
        /\ \/ Len(toHub) <= Capacity /\ toHub' = Append(toHub, e) /\ torn' = TRUE
           \/ torn' = (torn \/ pc \in {"body", "pongBody"}) /\ toHub' = toHub
        /\ absent' = (absent \/ (open /\ pc \in {"pongHeader", "pongBody"}))
        /\ UNCHANGED <<hub, desync, gone>>
    BY <1>9 DEF SendFails, Returns, e
  <2> QED BY <1>3, <2>1, <2>2
<1>10. CASE TakeHeader
  BY <1>2, <1>10 DEF TakeHeader
<1>11. CASE TakeBody
  BY <1>2, <1>11 DEF TakeBody, Returns
<1>12. CASE TakeGarbage
  BY <1>2, <1>12 DEF TakeGarbage, Returns
<1>13. CASE ReadEnds
  BY <1>13 DEF ReadEnds, Returns
<1> QED BY <1>4, <1>5, <1>6, <1>7, <1>8, <1>9, <1>10, <1>11, <1>12, <1>13 DEF ClientWorks

\* Every step.
LEMMA StepTypes == ASSUME TypeOK, [Next]_vars PROVE TypeOK'
<1>1. CASE Tick
  <2>1. /\ idle' = (IF idle > Live THEN idle ELSE idle + 1) /\ tick' = TRUE
        /\ absent' = (absent \/ pc \notin {"read", "rest"})
        /\ UNCHANGED <<open, toClient, writer, limited, rd, client>>
    BY <1>1 DEF Tick
  <2>2. Live \in Nat \ {0}
    BY ConnectionAssumption
  <2> QED BY <2>1, <2>2 DEF TypeOK, client, call
<1>2. CASE UNCHANGED vars
  BY <1>2 DEF TypeOK, vars, hub, client, call
<1>3. "heart" \in Writers
  BY DEF Writers
<1> QED BY <1>1, <1>2, <1>3, HubTypes, ReaderTypes, ClientTypes DEF Next

-----------------------------------------------------------------------------
(* The stream to the client.                                               *)

\* Nothing is sent to a client that closed its end, and it does nothing more.
LEMMA StepLeft == ASSUME Left, [Next]_vars PROVE Left'
<1> USE DEF Left
<1>1. CASE UNCHANGED <<toClient, pc, gone>>
  BY <1>1
<1>2. ASSUME NEW w \in Writers, WriterStep(w) PROVE Left'
  BY <1>2 DEF WriterStep, WriteChunk, WriteFails, ClearDeadline, CloseFailed, client, call
<1>3. CASE PumpReplies \/ HeartStep
  BY <1>1, <1>3 DEF PumpReplies, HeartStep, HeartEnds, HeartWaits, HeartPings, HeartCloses,
                    client, call
<1>4. CASE ReaderStep
  BY <1>1, <1>4 DEF ReaderStep, ReadHeader, ReadBody, ReadGarbage, ReadFails, SessionEnds,
                    client, call
<1>5. CASE Call \/ Recv \/ CloseClient
  BY <1>5 DEF Call, Recv, CloseClient, ClientCloses, hub
<1>6. CASE ClientWorks
  <2>1. ~gone /\ gone' = gone
    BY <1>6 DEF ClientWorks, SendHeader, SendBody, SendFails, TakeHeader, TakeBody,
                TakeGarbage, ReadEnds
  <2> QED BY <2>1
<1>7. CASE Tick \/ UNCHANGED vars
  BY <1>1, <1>7 DEF Tick, vars, hub, client, call
<1> QED BY <1>2, <1>3, <1>4, <1>5, <1>6, <1>7 DEF Next

\* A goroutine of the session that goes on changes the bodies due by its own.
LEMMA DueAfter ==
    ASSUME TypeOK, NEW w \in Writers, NEW v \in Steps, writer' = [writer EXCEPT ![w] = v]
    PROVE  /\ BodiesDue \in Nat /\ BodiesDue' \in Nat
           /\ BodiesDue' = BodiesDue - Due(w) + (IF v = "body" THEN 1 ELSE 0)
           /\ Due(w) \in 0..1 /\ Due(w) <= BodiesDue
<1>1. \A u \in Writers : Due(u) \in 0..1 /\ Due(u)' \in 0..1
  BY DEF Due
<1>2. Due(w)' = IF v = "body" THEN 1 ELSE 0
  BY DEF Due, At, TypeOK
<1>3. \A u \in Writers : u # w => Due(u)' = Due(u)
  BY DEF Due, At, TypeOK
<1> HIDE DEF Due
<1>4. BodiesDue' = Due("reader")' + Due("pump")' + Due("heart")'
  BY DEF BodiesDue
<1>5. /\ Due("reader") \in 0..1 /\ Due("pump") \in 0..1 /\ Due("heart") \in 0..1
      /\ Due("reader")' \in 0..1 /\ Due("pump")' \in 0..1 /\ Due("heart")' \in 0..1
  BY <1>1 DEF Writers
<1>6. CASE w = "reader"
  <2>1. Due("pump")' = Due("pump") /\ Due("heart")' = Due("heart")
    BY <1>3, <1>6 DEF Writers
  <2> QED BY <1>2, <1>4, <1>5, <1>6, <2>1 DEF BodiesDue
<1>7. CASE w = "pump"
  <2>1. Due("reader")' = Due("reader") /\ Due("heart")' = Due("heart")
    BY <1>3, <1>7 DEF Writers
  <2> QED BY <1>2, <1>4, <1>5, <1>7, <2>1 DEF BodiesDue
<1>8. CASE w = "heart"
  <2>1. Due("reader")' = Due("reader") /\ Due("pump")' = Due("pump")
    BY <1>3, <1>8 DEF Writers
  <2> QED BY <1>2, <1>4, <1>5, <1>8, <2>1 DEF BodiesDue
<1> QED BY <1>6, <1>7, <1>8 DEF Writers

\* What is not read stays as it is counted, if no goroutine gets to a body without
\* its header.
LEMMA BalanceKept ==
    ASSUME TypeOK, Balanced, toClient' = toClient,
           Whole' => Whole /\ (pc' = "rest" <=> pc = "rest"),
           BodiesDue' \in Nat, BodiesDue \in Nat, BodiesDue' <= BodiesDue
    PROVE  Balanced'
<1> SUFFICES ASSUME Whole' PROVE \E f \in [0..Len(toClient') -> Nat] : Balances(f)'
  BY DEF Balanced
<1>1. PICK f \in [0..Len(toClient) -> Nat] : Balances(f)
  BY DEF Balanced
<1>2. Len(toClient) \in Nat /\ f[Len(toClient)] \in Nat
  BY LenProperties DEF TypeOK
<1>3. Balances(f)'
  BY <1>1, <1>2 DEF Balances
<1> QED BY <1>3

\* A goroutine of the session writes a chunk: a header that makes a body due, the
\* body that was due, or a torn one.
LEMMA BalanceGrows ==
    ASSUME TypeOK, Balanced, NEW e \in Chunks, toClient' = Append(toClient, e),
           Whole' => Whole, pc' = pc, BodiesDue' \in Nat, BodiesDue \in Nat,
           e.part = "header" => BodiesDue' <= BodiesDue + 1,
           e.part = "body" => BodiesDue' + 1 <= BodiesDue,
           e.part = "torn" => BodiesDue' <= BodiesDue
    PROVE  Balanced'
<1> SUFFICES ASSUME Whole' PROVE \E f \in [0..Len(toClient') -> Nat] : Balances(f)'
  BY DEF Balanced
<1>1. PICK f \in [0..Len(toClient) -> Nat] : Balances(f)
  BY DEF Balanced
<1> DEFINE n == Len(toClient)
           last == f[n]
           next == IF e.part = "header" THEN last + 1
                   ELSE IF e.part = "body" THEN last - 1 ELSE last
<1>2. /\ n \in Nat /\ Len(toClient') = n + 1 /\ toClient'[n + 1] = e
      /\ \A i \in 1..n : toClient'[i] = toClient[i]
  BY Appended DEF TypeOK
<1>3. last \in Nat /\ last >= BodiesDue
  BY <1>1, <1>2 DEF Balances
<1>4. e.part \in {"header", "body", "torn"}
  BY DEF Chunks
<1>5. /\ next \in Nat /\ next >= BodiesDue'
      /\ e.part = "header" => next = last + 1
      /\ e.part = "body" => next + 1 = last
      /\ e.part = "torn" => next = last
  <2> HIDE DEF last
  <2>1. CASE e.part = "header"
    BY <1>3, <2>1
  <2>2. CASE e.part = "body"
    <3>1. BodiesDue' + 1 <= BodiesDue /\ BodiesDue <= last
      BY <1>3, <2>2
    <3>2. next = last - 1
      BY <2>2
    <3> HIDE DEF next
    <3>3. BodiesDue' + 1 <= last
      BY <1>3, <3>1
    <3>4. next \in Nat /\ next >= BodiesDue' /\ next + 1 = last
      BY <1>3, <3>2, <3>3
    <3> QED BY <2>2, <3>4
  <2>3. CASE e.part = "torn"
    BY <1>3, <2>3
  <2> QED BY <1>4, <2>1, <2>2, <2>3
<1> HIDE DEF last, next
<1>6. PICK g \in [0..n + 1 -> Nat] : g[n + 1] = next /\ \A i \in 0..n : g[i] = f[i]
  <2> DEFINE h == [i \in 0..n + 1 |-> IF i = n + 1 THEN next ELSE f[i]]
  <2>1. /\ h \in [0..n + 1 -> Nat] /\ h[n + 1] = next
        /\ \A i \in 0..n : h[i] = f[i]
    BY <1>1, <1>2, <1>5
  <2> HIDE DEF h
  <2> QED BY <2>1
<1>7. g[0] = IF pc' = "rest" THEN 1 ELSE 0
  BY <1>1, <1>2, <1>6 DEF Balances
<1>8. ASSUME NEW i \in 1..n + 1
      PROVE  /\ toClient'[i].part = "header" => g[i] = g[i - 1] + 1
             /\ toClient'[i].part = "body" => g[i] + 1 = g[i - 1]
             /\ toClient'[i].part = "torn" => g[i] = g[i - 1]
  <2>1. CASE i = n + 1
    <3>1. g[i - 1] = last /\ g[i] = next /\ toClient'[i] = e
      BY <1>2, <1>6, <2>1 DEF last
    <3> QED BY <1>5, <3>1
  <2>2. CASE i # n + 1
    <3>1. i \in 1..n /\ i - 1 \in 0..n /\ i \in 0..n
      BY <1>2, <2>2
    <3>2. g[i - 1] = f[i - 1] /\ g[i] = f[i] /\ toClient'[i] = toClient[i]
      BY <1>2, <1>6, <3>1
    <3> QED BY <1>1, <3>1, <3>2 DEF Balances
  <2> QED BY <2>1, <2>2
<1>9. Balances(g)'
  BY <1>2, <1>5, <1>6, <1>7, <1>8 DEF Balances
<1> QED BY <1>2, <1>6, <1>9

\* The client takes a header at a boundary, or the body behind it.
LEMMA BalanceShrinks ==
    ASSUME TypeOK, Balanced, toClient # <<>>, toClient' = Tail(toClient),
           Whole' => /\ Whole
                     /\ \/ pc # "rest" /\ pc' = "rest" /\ Head(toClient).part = "header"
                        \/ pc = "rest" /\ pc' # "rest" /\ Head(toClient).part = "body",
           writer' = writer
    PROVE  Balanced'
<1> SUFFICES ASSUME Whole' PROVE \E f \in [0..Len(toClient') -> Nat] : Balances(f)'
  BY DEF Balanced
<1>1. PICK f \in [0..Len(toClient) -> Nat] : Balances(f)
  BY DEF Balanced
<1> DEFINE n == Len(toClient)
<1>2. /\ n \in Nat \ {0} /\ Len(toClient') = n - 1 /\ Head(toClient) = toClient[1]
      /\ \A i \in 1..n - 1 : toClient'[i] = toClient[i + 1]
  BY Tailed DEF TypeOK
<1>3. PICK g \in [0..n - 1 -> Nat] : \A i \in 0..n - 1 : g[i] = f[i + 1]
  <2> DEFINE h == [i \in 0..n - 1 |-> f[i + 1]]
  <2>1. h \in [0..n - 1 -> Nat] /\ \A i \in 0..n - 1 : h[i] = f[i + 1]
    BY <1>1, <1>2
  <2> HIDE DEF h
  <2> QED BY <2>1
<1>4. g[0] = IF pc' = "rest" THEN 1 ELSE 0
  <2>1. /\ f[0] = IF pc = "rest" THEN 1 ELSE 0
        /\ toClient[1].part = "header" => f[1] = f[1 - 1] + 1
        /\ toClient[1].part = "body" => f[1] + 1 = f[1 - 1]
        /\ f[1] \in Nat /\ g[0] = f[0 + 1]
    BY <1>1, <1>2, <1>3 DEF Balances
  <2> QED BY <1>2, <2>1
<1>5. ASSUME NEW i \in 1..n - 1
      PROVE  /\ toClient'[i].part = "header" => g[i] = g[i - 1] + 1
             /\ toClient'[i].part = "body" => g[i] + 1 = g[i - 1]
             /\ toClient'[i].part = "torn" => g[i] = g[i - 1]
  <2>1. /\ i + 1 \in 1..n /\ (i + 1) - 1 = i /\ i - 1 \in 0..n - 1 /\ i \in 0..n - 1
        /\ (i - 1) + 1 = i
    BY <1>2
  <2>2. g[i - 1] = f[i] /\ g[i] = f[i + 1] /\ toClient'[i] = toClient[i + 1]
    BY <1>2, <1>3, <2>1
  <2>3. /\ toClient[i + 1].part = "header" => f[i + 1] = f[i] + 1
        /\ toClient[i + 1].part = "body" => f[i + 1] + 1 = f[i]
        /\ toClient[i + 1].part = "torn" => f[i + 1] = f[i]
    BY <1>1, <2>1 DEF Balances
  <2> QED BY <2>2, <2>3
<1>6. g[n - 1] >= BodiesDue'
  <2>1. g[n - 1] = f[n]
    BY <1>2, <1>3
  <2>2. BodiesDue' = BodiesDue
    BY DEF BodiesDue, Due, At
  <2> QED BY <1>1, <2>1, <2>2 DEF Balances
<1>7. Balances(g)'
  BY <1>2, <1>4, <1>5, <1>6 DEF Balances
<1> QED BY <1>2, <1>3, <1>7

\* Every step.
LEMMA StepBalanced == ASSUME TypeOK, Balanced, [Next]_vars PROVE Balanced'
<1>0. /\ BodiesDue \in Nat
      /\ writer' = writer => BodiesDue' = BodiesDue
  <2>1. \A u \in Writers : Due(u) \in 0..1
    BY DEF Due
  <2>2. Due("reader") \in 0..1 /\ Due("pump") \in 0..1 /\ Due("heart") \in 0..1
    BY <2>1 DEF Writers
  <2>3. BodiesDue \in Nat
    BY <2>2 DEF BodiesDue
  <2> QED BY <2>3 DEF BodiesDue, Due, At
<1>1. ASSUME toClient' = toClient, writer' = writer,
             Whole' => Whole /\ (pc' = "rest" <=> pc = "rest")
      PROVE  Balanced'
  <2>1. BodiesDue' = BodiesDue
    BY <1>0, <1>1
  <2>2. BodiesDue' \in Nat /\ BodiesDue' <= BodiesDue
    BY <1>0, <2>1
  <2> QED BY <1>0, <1>1, <2>2, BalanceKept
<1>2. ASSUME NEW w \in Writers, NEW v \in Steps, v # "body", toClient' = toClient,
             writer' = [writer EXCEPT ![w] = v], UNCHANGED <<gone, desync, pc>>
      PROVE  Balanced'
  <2>1. /\ BodiesDue \in Nat /\ BodiesDue' \in Nat /\ Due(w) \in 0..1
        /\ BodiesDue' = BodiesDue - Due(w) + 0
    BY <1>2, DueAfter
  <2>2. BodiesDue' <= BodiesDue
    BY <2>1
  <2> QED BY <1>2, <2>1, <2>2, BalanceKept DEF Whole
<1>3. ASSUME NEW w \in Writers, WriterStep(w) PROVE Balanced'
  <2>1. CASE WriteChunk(w)
    <3> DEFINE e == Chunk(writer[w], Replies(w))
               v == IF At(w, "header") THEN "body" ELSE "clear"
    <3>1. /\ Writing(w) /\ toClient' = Append(toClient, e)
          /\ writer' = [writer EXCEPT ![w] = v] /\ UNCHANGED <<gone, desync, pc>>
      BY <2>1 DEF WriteChunk, Goto, client, call
    <3>2. e \in Chunks /\ e.part = writer[w] /\ writer[w] \in {"header", "body"}
      BY <3>1, WriterChunks
    <3>3. v \in Steps
      BY DEF Steps
    <3> HIDE DEF e
    <3>4. /\ BodiesDue \in Nat /\ BodiesDue' \in Nat
          /\ BodiesDue' = BodiesDue - Due(w) + (IF v = "body" THEN 1 ELSE 0)
      BY <3>1, <3>3, DueAfter
    <3>5. CASE writer[w] = "header"
      <4>1. BodiesDue' = BodiesDue - 0 + 1
        BY <3>4, <3>5 DEF Due, At
      <4>2. BodiesDue' <= BodiesDue + 1
        BY <3>4, <4>1
      <4> QED BY <3>1, <3>2, <3>4, <3>5, <4>2, BalanceGrows DEF Whole
    <3>6. CASE writer[w] = "body"
      <4>1. BodiesDue' = BodiesDue - 1 + 0
        BY <3>4, <3>6 DEF Due, At
      <4>2. BodiesDue' + 1 <= BodiesDue
        BY <3>4, <4>1
      <4> QED BY <3>1, <3>2, <3>4, <3>6, <4>2, BalanceGrows DEF Whole
    <3> QED BY <3>2, <3>5, <3>6
  <2>2. CASE WriteFails(w)
    <3> DEFINE e == Chunk("torn", "data")
    <3>1. /\ Writing(w)
          /\ toClient' = toClient \/ toClient' = Append(toClient, e)
          /\ writer' = [writer EXCEPT ![w] = "failed"] /\ UNCHANGED <<gone, desync, pc>>
      BY <2>2 DEF WriteFails, Goto, client, call
    <3>2. e \in Chunks /\ e.part = "torn" /\ "failed" \in Steps
      BY <3>1, WriterChunks DEF Steps
    <3> HIDE DEF e
    <3>3. /\ BodiesDue \in Nat /\ BodiesDue' \in Nat /\ Due(w) \in 0..1
          /\ BodiesDue' = BodiesDue - Due(w) + 0
      BY <3>1, <3>2, DueAfter
    <3>4. BodiesDue' <= BodiesDue
      BY <3>3
    <3>5. CASE toClient' = toClient
      BY <1>2, <3>1, <3>2, <3>5
    <3>6. CASE toClient' = Append(toClient, e)
      BY <3>1, <3>2, <3>3, <3>4, <3>6, BalanceGrows DEF Whole
    <3> QED BY <3>1, <3>5, <3>6
  <2>3. CASE ClearDeadline(w)
    <3>1. /\ toClient' = toClient /\ UNCHANGED <<gone, desync, pc>>
          /\ \E v \in {"none", "close"} : writer' = [writer EXCEPT ![w] = v]
      BY <2>3 DEF ClearDeadline, Goto, client, call
    <3> QED BY <1>2, <3>1 DEF Steps
  <2>4. CASE CloseFailed(w)
    <3>1. /\ toClient' = toClient /\ UNCHANGED <<gone, desync, pc>>
          /\ writer' = [writer EXCEPT ![w] = "none"]
      BY <2>4 DEF CloseFailed, Goto, call
    <3> QED BY <1>2, <3>1 DEF Steps
  <2> QED BY <1>3, <2>1, <2>2, <2>3, <2>4 DEF WriterStep
<1>4. CASE PumpReplies
  <2>1. /\ toClient' = toClient /\ UNCHANGED <<gone, desync, pc>>
        /\ writer' = [writer EXCEPT !["pump"] = "header"]
    BY <1>4 DEF PumpReplies, BeginsReply, Goto, client, call
  <2> QED BY <1>2, <2>1 DEF Steps, Writers
<1>5. CASE ReaderStep
  <2>1. CASE ReadBody
    <3>1. /\ toClient' = toClient /\ UNCHANGED <<gone, desync, pc>>
          /\ writer' = writer \/ writer' = [writer EXCEPT !["reader"] = "header"]
      BY <2>1 DEF ReadBody, BeginsReply, Goto, call
    <3> QED BY <1>1, <1>2, <3>1 DEF Steps, Writers, Whole
  <2>2. CASE ReadHeader \/ ReadGarbage \/ ReadFails \/ SessionEnds
    <3>1. UNCHANGED <<toClient, writer, gone, desync, pc>>
      BY <2>2 DEF ReadHeader, ReadGarbage, ReadFails, SessionEnds, client, call
    <3> QED BY <1>1, <3>1 DEF Whole
  <2> QED BY <1>5, <2>1, <2>2 DEF ReaderStep
<1>6. CASE HeartStep
  <2>1. CASE HeartPings
    <3>1. /\ toClient' = toClient /\ UNCHANGED <<gone, desync, pc>>
          /\ writer' = [writer EXCEPT !["heart"] = "header"]
      BY <2>1 DEF HeartPings, BeginsReply, Goto, client, call
    <3> QED BY <1>2, <3>1 DEF Steps, Writers
  <2>2. CASE HeartEnds \/ HeartWaits \/ HeartCloses
    <3>1. UNCHANGED <<toClient, writer, gone, desync, pc>>
      BY <2>2 DEF HeartEnds, HeartWaits, HeartCloses, client, call
    <3> QED BY <1>1, <3>1 DEF Whole
  <2> QED BY <1>6, <2>1, <2>2 DEF HeartStep
<1>7. CASE Call \/ Recv
  <2>1. UNCHANGED <<toClient, writer, gone, desync>> /\ pc = "out" /\ pc' \in {"header", "read"}
    BY <1>7 DEF Call, Recv, hub
  <2> QED BY <1>1, <2>1 DEF Whole
<1>8. CASE CloseClient
  BY <1>8 DEF CloseClient, ClientCloses, Balanced, Whole
<1>9. CASE ClientWorks
  <2>1. CASE SendHeader \/ SendBody \/ SendFails
    <3>1. /\ UNCHANGED <<toClient, writer, gone, desync>>
          /\ pc \in {"header", "body", "pongHeader", "pongBody"}
          /\ pc' \in {"body", "pongBody", "read", "out"}
      BY <2>1 DEF SendHeader, SendBody, SendFails, Returns, hub
    <3> QED BY <1>1, <3>1 DEF Whole
  <2>2. CASE TakeHeader
    <3>1. /\ toClient # <<>> /\ toClient' = Tail(toClient) /\ UNCHANGED <<writer, gone, desync>>
          /\ pc = "read" /\ pc' = "rest" /\ Head(toClient).part = "header"
      BY <2>2 DEF TakeHeader
    <3> QED BY <3>1, BalanceShrinks DEF Whole
  <2>3. CASE TakeBody
    <3>1. /\ toClient # <<>> /\ toClient' = Tail(toClient) /\ UNCHANGED <<writer, gone, desync>>
          /\ pc = "rest" /\ pc' \in {"pongHeader", "out"} /\ Head(toClient).part = "body"
      BY <2>3 DEF TakeBody, Returns
    <3> QED BY <3>1, BalanceShrinks DEF Whole
  <2>4. CASE TakeGarbage
    <3>1. pc' = "lost" \/ desync' = TRUE
      BY <2>4 DEF TakeGarbage
    <3> QED BY <3>1 DEF Balanced, Whole
  <2>5. CASE ReadEnds
    <3>1. /\ UNCHANGED <<toClient, writer, gone>> /\ pc' = "out"
          /\ desync' = (desync \/ pc # "read")
      BY <2>5 DEF ReadEnds, Returns, hub
    <3> QED BY <1>1, <3>1 DEF Whole
  <2> QED BY <1>9, <2>1, <2>2, <2>3, <2>4, <2>5 DEF ClientWorks
<1>10. CASE Tick \/ UNCHANGED vars
  <2>1. UNCHANGED <<toClient, writer, gone, desync, pc>>
    BY <1>10 DEF Tick, vars, hub, client, call
  <2> QED BY <1>1, <2>1 DEF Whole
<1> QED BY <1>3, <1>4, <1>5, <1>6, <1>7, <1>8, <1>9, <1>10 DEF Next

-----------------------------------------------------------------------------
(* The stream to the hub.                                                  *)

\* The client writes.
LEMMA StreamGrows ==
    ASSUME TypeOK, NEW e \in Chunks, toHub' = Append(toHub, e), rd' = rd,
           NEW n, n = Len(toHub)
    PROVE  /\ n \in Nat /\ Len(toHub') = n + 1 /\ toHub'[n + 1] = e
           /\ \A i \in 1..n : toHub'[i] = toHub[i]
           /\ \A i \in 1..n : (Follows(i)' <=> Follows(i)) /\ (Bad(i)' <=> Bad(i))
           /\ Follows(n + 1)' <=> OpenEnd
           /\ Bad(n + 1)' <=> e.part = "torn" \/ (e.part = "header" /\ OpenEnd)
           /\ OpenEnd' <=> e.part = "header"
           /\ HasBad' <=> HasBad \/ Bad(n + 1)'
<1>1. /\ n \in Nat /\ Len(toHub') = n + 1 /\ toHub'[n + 1] = e
      /\ \A i \in 1..n : toHub'[i] = toHub[i]
  BY Appended DEF TypeOK
<1>2. ASSUME NEW i \in 1..n + 1 PROVE Follows(i)' <=> Follows(i)
  <2>1. CASE i = 1
    BY <2>1 DEF Follows
  <2>2. CASE i # 1
    <3>1. i - 1 \in 1..n
      BY <1>1, <2>2
    <3> QED BY <1>1, <2>2, <3>1 DEF Follows
  <2> QED BY <2>1, <2>2
<1>3. n + 1 \in 1..n + 1 /\ (n + 1) + 1 # 1 /\ ((n + 1) + 1) - 1 = n + 1
  BY <1>1
<1>4. Follows(n + 1)' <=> OpenEnd
  BY <1>2, <1>3 DEF OpenEnd
<1>5. OpenEnd' <=> e.part = "header"
  BY <1>1, <1>3 DEF OpenEnd, Follows
<1>6. \A i \in 1..n : (Follows(i)' <=> Follows(i)) /\ (Bad(i)' <=> Bad(i))
  <2> TAKE i \in 1..n
  <2>1. i \in 1..n + 1 /\ toHub'[i] = toHub[i]
    BY <1>1
  <2>2. Follows(i)' <=> Follows(i)
    BY <1>2, <2>1
  <2>3. Bad(i)' <=> Bad(i)
    BY <2>1, <2>2 DEF Bad
  <2> QED BY <2>2, <2>3
<1>7. Bad(n + 1)' <=> e.part = "torn" \/ (e.part = "header" /\ OpenEnd)
  BY <1>1, <1>4 DEF Bad
<1>8. HasBad' <=> HasBad \/ Bad(n + 1)'
  <2>1. ASSUME HasBad' PROVE HasBad \/ Bad(n + 1)'
    <3>1. PICK i \in 1..n + 1 : Bad(i)'
      BY <1>1, <2>1 DEF HasBad
    <3>2. CASE i = n + 1
      BY <3>1, <3>2
    <3>3. CASE i # n + 1
      <4>1. i \in 1..n
        BY <1>1, <3>3
      <4>2. Bad(i)
        BY <1>6, <3>1, <4>1
      <4> QED BY <4>1, <4>2 DEF HasBad
    <3> QED BY <3>2, <3>3
  <2>2. ASSUME HasBad PROVE HasBad'
    <3>1. PICK i \in 1..n : Bad(i)
      BY <2>2 DEF HasBad
    <3>2. i \in 1..n + 1 /\ Bad(i)'
      BY <1>1, <1>6, <3>1
    <3> QED BY <1>1, <3>2 DEF HasBad
  <2>3. ASSUME Bad(n + 1)' PROVE HasBad'
    BY <1>1, <1>3, <2>3 DEF HasBad
  <2> QED BY <2>1, <2>2, <2>3
<1> QED BY <1>1, <1>4, <1>5, <1>6, <1>7, <1>8

\* The hub reads the header of a frame, or the body behind it.
LEMMA StreamShrinks ==
    ASSUME TypeOK, toHub # <<>>, toHub' = Tail(toHub), rd \in {"read", "rest"},
           IF rd = "read" THEN Head(toHub).part = "header" /\ rd' = "rest"
                          ELSE Head(toHub).part = "body" /\ rd' = "read",
           NEW n, n = Len(toHub)
    PROVE  /\ n \in Nat \ {0} /\ Len(toHub') = n - 1 /\ Head(toHub) = toHub[1]
           /\ \A i \in 1..n - 1 : toHub'[i] = toHub[i + 1]
           /\ \A i \in 1..n - 1 : (Follows(i)' <=> Follows(i + 1)) /\ (Bad(i)' <=> Bad(i + 1))
           /\ ~Bad(1) /\ (HasBad' <=> HasBad) /\ (OpenEnd' <=> OpenEnd)
<1>1. /\ n \in Nat \ {0} /\ Len(toHub') = n - 1 /\ Head(toHub) = toHub[1]
      /\ \A i \in 1..n - 1 : toHub'[i] = toHub[i + 1]
  BY Tailed DEF TypeOK
<1>2. rd' = "rest" <=> toHub[1].part = "header"
  BY <1>1
<1>3. ASSUME NEW i \in 1..n PROVE Follows(i)' <=> Follows(i + 1)
  <2>1. i + 1 # 1 /\ (i + 1) - 1 = i
    BY <1>1
  <2>2. CASE i = 1
    BY <1>2, <2>1, <2>2 DEF Follows
  <2>3. CASE i # 1
    <3>1. i - 1 \in 1..n - 1 /\ (i - 1) + 1 = i
      BY <1>1, <2>3
    <3>2. toHub'[i - 1] = toHub[i]
      BY <1>1, <3>1
    <3> QED BY <2>1, <2>3, <3>2 DEF Follows
  <2> QED BY <2>2, <2>3
<1>4. OpenEnd' <=> OpenEnd
  <2>1. n \in 1..n /\ Len(toHub') + 1 = n
    BY <1>1
  <2>2. Follows(n)' <=> Follows(n + 1)
    BY <1>3, <2>1
  <2> QED BY <2>1, <2>2 DEF OpenEnd
<1>5. ~Bad(1)
  BY <1>1 DEF Bad, Follows
<1>6. ASSUME NEW i \in 1..n - 1 PROVE Bad(i)' <=> Bad(i + 1)
  <2>1. i \in 1..n
    BY <1>1
  <2>2. Follows(i)' <=> Follows(i + 1)
    BY <1>3, <2>1
  <2> QED BY <1>1, <2>2 DEF Bad
<1>7. HasBad' <=> HasBad
  <2>1. ASSUME HasBad' PROVE HasBad
    <3>1. PICK i \in 1..n - 1 : Bad(i)'
      BY <1>1, <2>1 DEF HasBad
    <3>2. i + 1 \in 1..n /\ Bad(i + 1)
      BY <1>1, <1>6, <3>1
    <3> QED BY <3>2 DEF HasBad
  <2>2. ASSUME HasBad PROVE HasBad'
    <3>1. PICK i \in 1..n : Bad(i)
      BY <2>2 DEF HasBad
    <3>2. i # 1
      BY <1>5, <3>1
    <3>3. i - 1 \in 1..n - 1 /\ (i - 1) + 1 = i
      BY <1>1, <3>2
    <3>4. Bad(i - 1)'
      BY <1>6, <3>1, <3>3
    <3> QED BY <1>1, <3>3, <3>4 DEF HasBad
  <2> QED BY <2>1, <2>2
<1>8. \A i \in 1..n - 1 : (Follows(i)' <=> Follows(i + 1)) /\ (Bad(i)' <=> Bad(i + 1))
  <2> TAKE i \in 1..n - 1
  <2>1. i \in 1..n
    BY <1>1
  <2> QED BY <1>3, <1>6, <2>1
<1> QED BY <1>1, <1>4, <1>5, <1>7, <1>8

\* What the client writes keeps the calls behind a torn frame where they are.
LEMMA TearGrows ==
    ASSUME TypeOK, Tear, NEW e \in Chunks, toHub' = Append(toHub, e), rd' = rd, open' = open,
           open /\ rd \in {"read", "rest"} =>
               /\ e.kind = "retry" => HasBad'
               /\ torn' \/ Sending' => HasBad' \/ OpenEnd'
               /\ torn' /\ Sending' => HasBad'
    PROVE  Tear'
<1> SUFFICES ASSUME open, rd \in {"read", "rest"}
             PROVE  \A i \in 1..Len(toHub') : toHub'[i].kind = "retry" =>
                        \E j \in 1..i : Bad(j)'
  BY DEF Tear
<1>1. PICK n : n = Len(toHub)
  OBVIOUS
<1>2. /\ n \in Nat /\ Len(toHub') = n + 1 /\ toHub'[n + 1] = e
      /\ \A i \in 1..n : toHub'[i] = toHub[i]
      /\ \A i \in 1..n : Bad(i)' <=> Bad(i)
  BY <1>1, StreamGrows
<1> TAKE i \in 1..Len(toHub')
<1>3. CASE i = n + 1
  <2>1. e.kind = "retry" => HasBad'
    OBVIOUS
  <2> QED BY <1>2, <1>3, <2>1 DEF HasBad
<1>4. CASE i # n + 1
  <2>1. i \in 1..n /\ toHub'[i] = toHub[i]
    BY <1>2, <1>4
  <2>2. SUFFICES ASSUME toHub[i].kind = "retry" PROVE \E j \in 1..i : Bad(j)'
    BY <2>1
  <2>3. PICK j \in 1..i : Bad(j)
    BY <1>1, <2>1, <2>2 DEF Tear
  <2>4. j \in 1..n
    BY <1>2, <2>1
  <2> QED BY <1>2, <2>3, <2>4
<1> QED BY <1>3, <1>4

\* What the hub reads as a frame does too.
LEMMA TearShrinks ==
    ASSUME TypeOK, Tear, toHub # <<>>, toHub' = Tail(toHub), rd \in {"read", "rest"},
           IF rd = "read" THEN Head(toHub).part = "header" /\ rd' = "rest"
                          ELSE Head(toHub).part = "body" /\ rd' = "read",
           UNCHANGED <<open, torn, pc>>
    PROVE  Tear'
<1> SUFFICES ASSUME open PROVE Tear'
  BY DEF Tear
<1>1. PICK n : n = Len(toHub)
  OBVIOUS
<1>2. /\ n \in Nat \ {0} /\ Len(toHub') = n - 1
      /\ \A i \in 1..n - 1 : toHub'[i] = toHub[i + 1]
      /\ \A i \in 1..n - 1 : Bad(i)' <=> Bad(i + 1)
      /\ ~Bad(1) /\ (HasBad' <=> HasBad) /\ (OpenEnd' <=> OpenEnd)
  BY <1>1, StreamShrinks
<1>3. \A i \in 1..Len(toHub') : toHub'[i].kind = "retry" => \E j \in 1..i : Bad(j)'
  <2> TAKE i \in 1..Len(toHub')
  <2>1. i \in 1..n - 1 /\ i + 1 \in 1..n /\ toHub'[i] = toHub[i + 1]
    BY <1>2
  <2>2. SUFFICES ASSUME toHub[i + 1].kind = "retry" PROVE \E j \in 1..i : Bad(j)'
    BY <2>1
  <2>3. PICK j \in 1..i + 1 : Bad(j)
    BY <1>1, <2>1, <2>2 DEF Tear
  <2>4. j # 1
    BY <1>2, <2>3
  <2>5. j - 1 \in 1..i /\ j - 1 \in 1..n - 1 /\ (j - 1) + 1 = j
    BY <1>2, <2>1, <2>3, <2>4
  <2>6. Bad(j - 1)'
    BY <1>2, <2>3, <2>5
  <2> QED BY <2>5, <2>6
<1>4. (torn' <=> torn) /\ (Sending' <=> Sending)
  BY DEF Sending
<1> QED BY <1>2, <1>3, <1>4 DEF Tear

\* Every step.
LEMMA StepTear == ASSUME TypeOK, Tear, [Next]_vars PROVE Tear'
<1>1. ASSUME UNCHANGED <<open, toHub, rd, torn>>, Sending' => Sending PROVE Tear'
  BY <1>1 DEF Tear, HasBad, OpenEnd, Bad, Follows
<1>2. ASSUME ~open' \/ rd' \notin {"read", "rest"} PROVE Tear'
  BY <1>2 DEF Tear
<1>3. ASSUME NEW w \in Writers, WriterStep(w) PROVE Tear'
  <2>1. CASE CloseFailed(w)
    BY <1>2, <2>1 DEF CloseFailed, HubCloses
  <2>2. CASE WriteChunk(w) \/ WriteFails(w) \/ ClearDeadline(w)
    <3>1. UNCHANGED <<open, toHub, rd, torn, pc>>
      BY <2>2 DEF WriteChunk, WriteFails, ClearDeadline, client, call
    <3> QED BY <1>1, <3>1 DEF Sending
  <2> QED BY <1>3, <2>1, <2>2 DEF WriterStep
<1>4. CASE PumpReplies \/ HeartEnds \/ HeartWaits \/ HeartPings \/ Tick \/ UNCHANGED vars
  <2>1. UNCHANGED <<open, toHub, rd, torn, pc>>
    BY <1>4 DEF PumpReplies, HeartEnds, HeartWaits, HeartPings, Tick, vars, hub, client, call
  <2> QED BY <1>1, <2>1 DEF Sending
<1>5. CASE HeartCloses \/ SessionEnds
  BY <1>2, <1>5 DEF HeartCloses, SessionEnds, HubCloses
<1>6. CASE ReadHeader
  <2>1. /\ toHub # <<>> /\ toHub' = Tail(toHub) /\ Head(toHub).part = "header"
        /\ rd = "read" /\ rd' = "rest" /\ UNCHANGED <<open, torn, pc>>
    BY <1>6 DEF ReadHeader, call
  <2> QED BY <2>1, TearShrinks
<1>7. CASE ReadBody
  <2>1. /\ toHub # <<>> /\ toHub' = Tail(toHub) /\ Head(toHub).part = "body"
        /\ rd = "rest" /\ rd' = "read" /\ UNCHANGED <<open, torn, pc>>
    BY <1>7 DEF ReadBody, call
  <2> QED BY <2>1, TearShrinks
<1>8. CASE ReadGarbage \/ ReadFails
  BY <1>2, <1>8 DEF ReadGarbage, ReadFails
<1>9. CASE Call \/ Recv \/ CloseClient
  <2>1. UNCHANGED <<open, toHub, rd, torn>> /\ ~Sending'
    BY <1>9 DEF Call, Recv, CloseClient, hub, Sending
  <2> QED BY <1>1, <2>1
<1>10. CASE ClientWorks
  <2>1. CASE SendHeader
    <3> DEFINE e == Chunk("header", IF pc = "header" THEN CallKind ELSE "pong")
    <3>1. /\ e \in Chunks /\ e.part = "header"
          /\ e.kind = (IF pc = "header" THEN CallKind ELSE "pong")
      BY ChunkParts DEF CallKind, Kinds
    <3>2. e.kind = "retry" => torn
      BY <3>1 DEF CallKind
    <3> HIDE DEF e
    <3>3. toHub' = Append(toHub, e) /\ UNCHANGED <<open, rd, torn>>
      BY <2>1 DEF SendHeader, hub, e
    <3>4. PICK n : n = Len(toHub)
      OBVIOUS
    <3>5. OpenEnd' /\ (HasBad' <=> HasBad \/ OpenEnd)
      BY <3>1, <3>3, <3>4, StreamGrows
    <3>6. open /\ rd \in {"read", "rest"} /\ torn => HasBad'
      BY <3>5 DEF Tear
    <3> QED BY <3>1, <3>2, <3>3, <3>5, <3>6, TearGrows
  <2>2. CASE SendBody
    <3> DEFINE e == Chunk("body", IF pc = "body" THEN CallKind ELSE "pong")
    <3>1. /\ e \in Chunks /\ e.part = "body"
          /\ e.kind = (IF pc = "body" THEN CallKind ELSE "pong")
      BY ChunkParts DEF CallKind, Kinds
    <3>2. e.kind = "retry" => torn
      BY <3>1 DEF CallKind
    <3> HIDE DEF e
    <3>3. toHub' = Append(toHub, e) /\ UNCHANGED <<open, rd, torn>> /\ Sending /\ ~Sending'
      BY <2>2 DEF SendBody, hub, e, Sending
    <3>4. PICK n : n = Len(toHub)
      OBVIOUS
    <3>5. HasBad => HasBad'
      BY <3>1, <3>3, <3>4, StreamGrows
    <3>6. open /\ rd \in {"read", "rest"} /\ torn => HasBad'
      BY <3>3, <3>5 DEF Tear
    <3> QED BY <3>1, <3>2, <3>3, <3>6, TearGrows
  <2>3. CASE SendFails
    <3> DEFINE e == Chunk("torn", "call")
    <3>1. e \in Chunks /\ e.part = "torn" /\ e.kind = "call"
      BY ChunkParts DEF Kinds
    <3> HIDE DEF e
    <3>2. /\ \/ toHub' = Append(toHub, e)
             \/ toHub' = toHub /\ torn' = (torn \/ Sending)
          /\ ~Sending' /\ UNCHANGED <<open, rd>>
      BY <2>3 DEF SendFails, Returns, hub, e, Sending
    <3>3. CASE toHub' = Append(toHub, e)
      <4>1. PICK n : n = Len(toHub)
        OBVIOUS
      <4>2. HasBad'
        BY <3>1, <3>2, <3>3, <4>1, StreamGrows
      <4> QED BY <3>1, <3>2, <3>3, <4>2, TearGrows
    <3>4. CASE toHub' = toHub /\ torn' = (torn \/ Sending)
      <4>1. (HasBad' <=> HasBad) /\ (OpenEnd' <=> OpenEnd)
        BY <3>2, <3>4 DEF HasBad, OpenEnd, Bad, Follows
      <4>2. Tear => /\ open' = open /\ rd' = rd
                    /\ open /\ rd \in {"read", "rest"} =>
                        \A i \in 1..Len(toHub') :
                          toHub'[i].kind = "retry" => \E j \in 1..i : Bad(j)'
        BY <3>2, <3>4 DEF Tear, Bad, Follows
      <4> QED BY <3>2, <3>4, <4>1, <4>2 DEF Tear
    <3> QED BY <3>2, <3>3, <3>4
  <2>4. CASE TakeHeader \/ TakeBody \/ TakeGarbage \/ ReadEnds
    <3>1. UNCHANGED <<open, toHub, rd, torn>> /\ ~Sending'
      BY <2>4 DEF TakeHeader, TakeBody, TakeGarbage, ReadEnds, Returns, hub, Sending
    <3> QED BY <1>1, <3>1
  <2> QED BY <1>10, <2>1, <2>2, <2>3, <2>4 DEF ClientWorks
<1> QED BY <1>3, <1>4, <1>5, <1>6, <1>7, <1>8, <1>9, <1>10 DEF Next, ReaderStep, HeartStep

\* The hub reads no garbage from a client that tore nothing and is there.
LEMMA NoGarbage == ASSUME TypeOK, Aligned, open, ~torn, ~gone, ReadGarbage PROVE FALSE
<1>1. toHub # <<>> /\ (rd = "lost" \/ ~IsFrame)
  BY DEF ReadGarbage
<1>2. /\ Len(toHub) \in Nat \ {0} /\ Head(toHub) = toHub[1]
      /\ toHub[1].part \in {"header", "body", "torn"}
  BY <1>1, Tailed DEF TypeOK, Chunks
<1>3. 1 \in 1..Len(toHub)
  BY <1>2
<1>4. /\ rd \in {"read", "rest"} /\ ~Bad(1)
      /\ toHub[1].part = "body" => rd = "rest"
  BY <1>3 DEF Aligned, HasBad, Follows
<1>5. toHub[1].part # "torn" /\ (toHub[1].part = "header" => rd # "rest")
  BY <1>4 DEF Bad, Follows
<1> QED BY <1>1, <1>2, <1>4, <1>5 DEF IsFrame

\* Every step: the client alternates between headers and bodies, and so does the
\* session's reader.
LEMMA StepAligned == ASSUME TypeOK, Aligned, [Next]_vars PROVE Aligned'
<1>1. ASSUME UNCHANGED <<open, toHub, rd, torn, gone>>, Sending' <=> Sending PROVE Aligned'
  BY <1>1 DEF Aligned, HasBad, OpenEnd, Bad, Follows
<1>2. ASSUME ~open' \/ torn' \/ gone' PROVE Aligned'
  BY <1>2 DEF Aligned
<1>3. ASSUME NEW w \in Writers, WriterStep(w) PROVE Aligned'
  <2>1. CASE CloseFailed(w)
    BY <1>2, <2>1 DEF CloseFailed, HubCloses
  <2>2. CASE WriteChunk(w) \/ WriteFails(w) \/ ClearDeadline(w)
    <3>1. UNCHANGED <<open, toHub, rd, torn, gone, pc>>
      BY <2>2 DEF WriteChunk, WriteFails, ClearDeadline, client, call
    <3> QED BY <1>1, <3>1 DEF Sending
  <2> QED BY <1>3, <2>1, <2>2 DEF WriterStep
<1>4. CASE PumpReplies \/ HeartEnds \/ HeartWaits \/ HeartPings \/ Tick \/ UNCHANGED vars
  <2>1. UNCHANGED <<open, toHub, rd, torn, gone, pc>>
    BY <1>4 DEF PumpReplies, HeartEnds, HeartWaits, HeartPings, Tick, vars, hub, client, call
  <2> QED BY <1>1, <2>1 DEF Sending
<1>5. CASE HeartCloses \/ SessionEnds
  BY <1>2, <1>5 DEF HeartCloses, SessionEnds, HubCloses
<1>6. CASE ReadHeader \/ ReadBody
  <2>1. /\ toHub # <<>> /\ toHub' = Tail(toHub) /\ UNCHANGED <<open, torn, gone, pc>>
        /\ \/ rd = "read" /\ Head(toHub).part = "header" /\ rd' = "rest"
           \/ rd = "rest" /\ Head(toHub).part = "body" /\ rd' = "read"
    BY <1>6 DEF ReadHeader, ReadBody, call
  <2>2. PICK n : n = Len(toHub)
    OBVIOUS
  <2>3. /\ n \in Nat \ {0} /\ Len(toHub') = n - 1
        /\ \A i \in 1..n - 1 : toHub'[i] = toHub[i + 1]
        /\ \A i \in 1..n - 1 : Follows(i)' <=> Follows(i + 1)
        /\ (HasBad' <=> HasBad) /\ (OpenEnd' <=> OpenEnd)
    BY <2>1, <2>2, StreamShrinks
  <2>4. SUFFICES ASSUME open, ~torn, ~gone
                 PROVE  \A i \in 1..n - 1 : toHub'[i].part = "body" => Follows(i)'
    BY <2>1, <2>3 DEF Aligned, Sending
  <2> TAKE i \in 1..n - 1
  <2>5. i + 1 \in 1..n /\ toHub'[i] = toHub[i + 1] /\ (Follows(i)' <=> Follows(i + 1))
    BY <2>3
  <2> QED BY <2>2, <2>4, <2>5 DEF Aligned
<1>7. CASE ReadGarbage
  <2>1. ~(open /\ ~torn /\ ~gone)
    BY <1>7, NoGarbage
  <2> QED BY <1>7, <2>1 DEF ReadGarbage, call, Aligned
<1>8. CASE ReadFails
  BY <1>2, <1>8 DEF ReadFails, client, call
<1>9. CASE Call \/ Recv \/ CloseClient
  <2>1. /\ UNCHANGED <<open, toHub, rd, torn>> /\ ~Sending' /\ ~Sending
        /\ gone' = gone \/ gone'
    BY <1>9 DEF Call, Recv, CloseClient, ClientCloses, hub, Sending
  <2> QED BY <1>1, <1>2, <2>1
<1>10. CASE ClientWorks
  <2>1. CASE SendHeader \/ SendBody
    <3>1. PICK e \in Chunks :
            /\ toHub' = Append(toHub, e) /\ UNCHANGED <<open, rd, torn, gone>>
            /\ \/ ~Sending /\ Sending' /\ e.part = "header"
               \/ Sending /\ ~Sending' /\ e.part = "body"
      <4>1. CASE SendHeader
        <5> DEFINE e == Chunk("header", IF pc = "header" THEN CallKind ELSE "pong")
        <5>1. e \in Chunks /\ e.part = "header"
          BY ChunkParts DEF CallKind, Kinds
        <5> HIDE DEF e
        <5>2. toHub' = Append(toHub, e) /\ UNCHANGED <<open, rd, torn, gone>>
          BY <4>1 DEF SendHeader, hub, e
        <5>3. ~Sending /\ Sending'
          BY <4>1 DEF SendHeader, Sending
        <5> QED BY <5>1, <5>2, <5>3
      <4>2. CASE SendBody
        <5> DEFINE e == Chunk("body", IF pc = "body" THEN CallKind ELSE "pong")
        <5>1. e \in Chunks /\ e.part = "body"
          BY ChunkParts DEF CallKind, Kinds
        <5> HIDE DEF e
        <5>2. toHub' = Append(toHub, e) /\ UNCHANGED <<open, rd, torn, gone>>
          BY <4>2 DEF SendBody, hub, e
        <5>3. Sending /\ ~Sending'
          BY <4>2 DEF SendBody, Sending
        <5> QED BY <5>1, <5>2, <5>3
      <4> QED BY <2>1, <4>1, <4>2
    <3>2. PICK n : n = Len(toHub)
      OBVIOUS
    <3>3. /\ n \in Nat /\ Len(toHub') = n + 1 /\ toHub'[n + 1] = e
          /\ \A i \in 1..n : toHub'[i] = toHub[i]
          /\ \A i \in 1..n : Follows(i)' <=> Follows(i)
          /\ Follows(n + 1)' <=> OpenEnd
          /\ HasBad' <=> HasBad \/ e.part = "torn" \/ (e.part = "header" /\ OpenEnd)
          /\ OpenEnd' <=> e.part = "header"
      BY <3>1, <3>2, StreamGrows
    <3>4. SUFFICES ASSUME open, ~torn, ~gone PROVE Aligned'
      BY <3>1 DEF Aligned
    <3>5. /\ rd \in {"read", "rest"} /\ ~HasBad /\ (Sending <=> OpenEnd)
          /\ \A i \in 1..n : toHub[i].part = "body" => Follows(i)
      BY <3>2, <3>4 DEF Aligned
    <3>6. \A i \in 1..n + 1 : toHub'[i].part = "body" => Follows(i)'
      <4> TAKE i \in 1..n + 1
      <4>1. CASE i = n + 1
        BY <3>1, <3>3, <3>5, <4>1
      <4>2. CASE i # n + 1
        <5>1. i \in 1..n
          BY <3>3, <4>2
        <5> QED BY <3>3, <3>5, <5>1
      <4> QED BY <4>1, <4>2
    <3>7. rd' \in {"read", "rest"} /\ ~HasBad' /\ (Sending' <=> OpenEnd')
      BY <3>1, <3>3, <3>5
    <3> QED BY <3>3, <3>6, <3>7 DEF Aligned
  <2>2. CASE SendFails
    <3>1. /\ \/ torn'
             \/ UNCHANGED <<open, toHub, rd, torn, gone>> /\ ~Sending
          /\ ~Sending'
      BY <2>2 DEF SendFails, Returns, hub, Sending, TypeOK
    <3> QED BY <1>1, <1>2, <3>1
  <2>3. CASE TakeHeader \/ TakeBody \/ TakeGarbage \/ ReadEnds
    <3>1. UNCHANGED <<open, toHub, rd, torn, gone>> /\ ~Sending' /\ ~Sending
      BY <2>3 DEF TakeHeader, TakeBody, TakeGarbage, ReadEnds, Returns, hub, Sending
    <3> QED BY <1>1, <3>1
  <2> QED BY <1>10, <2>1, <2>2, <2>3 DEF ClientWorks
<1> QED BY <1>3, <1>4, <1>5, <1>6, <1>7, <1>8, <1>9, <1>10 DEF Next, ReaderStep, HeartStep

-----------------------------------------------------------------------------
(* The heartbeat.                                                          *)

\* When nobody at work can move and the client waits for frames, nothing is under
\* way.
LEMMA Quiet ==
    ASSUME TypeOK, Waiting, open, ~gone, pc \in {"read", "rest"}
    PROVE  /\ \A w \in Writers : writer[w] = "none"
           /\ ~tick /\ toClient = <<>> /\ toHub = <<>>
<1>1. toClient = <<>>
  BY DEF Waiting, ClientMoves
<1>2. Len(toClient) < Capacity
  BY <1>1, Emptied, ConnectionAssumption
<1>3. \A w \in Writers : writer[w] = "none"
  <2> TAKE w \in Writers
  <2>1. ~WriterMoves(w)
    BY DEF Waiting
  <2>2. writer[w] \in Steps
    BY DEF TypeOK
  <2> QED BY <1>2, <2>1, <2>2 DEF WriterMoves, Writing, Steps
<1>4. ~tick /\ rd # "end"
  BY <1>3 DEF Waiting, At, Writers
<1>5. toHub = <<>>
  BY <1>3, <1>4 DEF Waiting, ReaderMoves, ReaderFree, At, Writers
<1> QED BY <1>1, <1>3, <1>4, <1>5

\* What makes a step keep the heartbeat's promise.
LEMMA PingedKept ==
    ASSUME Chased, idle' = idle, Attentive' => Attentive, Attentive' /\ Pinged => Pinged'
    PROVE  Chased'
BY DEF Chased

\* The goroutines of the session.
LEMMA WriterChased ==
    ASSUME TypeOK, Chased, NEW w \in Writers, WriterStep(w) PROVE Chased'
<1>1. CASE WriteChunk(w)
  <2> DEFINE e == Chunk(writer[w], Replies(w))
             v == IF At(w, "header") THEN "body" ELSE "clear"
  <2>1. /\ Writing(w) /\ toClient' = Append(toClient, e)
        /\ writer' = [writer EXCEPT ![w] = v]
        /\ UNCHANGED <<open, tick, gone, pc, toHub, idle, absent, torn, desync>>
    BY <1>1 DEF WriteChunk, Goto, client, call
  <2>2. e \in Chunks /\ writer[w] \in {"header", "body"}
    BY <2>1, WriterChunks
  <2>3. w = "heart" /\ writer[w] = "body" => e = Chunk("body", "ping")
    BY DEF Replies
  <2> HIDE DEF e
  <2>4. /\ Len(toClient) \in Nat /\ Len(toClient') = Len(toClient) + 1
        /\ \A i \in 1..Len(toClient) : toClient'[i] = toClient[i]
        /\ toClient'[Len(toClient) + 1] = e
    BY <2>1, <2>2, Appended DEF TypeOK
  <2>5. ASSUME Pinged PROVE Pinged'
    <3>1. CASE w = "heart"
      <4>1. CASE writer[w] = "header"
        BY <2>1, <3>1, <4>1 DEF Pinged, At, TypeOK
      <4>2. CASE writer[w] = "body"
        <5>1. Len(toClient) + 1 \in 1..Len(toClient')
          BY <2>4
        <5>2. toClient'[Len(toClient) + 1] = Chunk("body", "ping")
          BY <2>3, <2>4, <3>1, <4>2
        <5> QED BY <5>1, <5>2 DEF Pinged
      <4> QED BY <2>2, <4>1, <4>2
    <3>2. CASE w # "heart"
      <4>1. writer'["heart"] = writer["heart"]
        BY <2>1, <3>2 DEF TypeOK
      <4>2. CASE \E i \in 1..Len(toClient) : toClient[i] = Chunk("body", "ping")
        <5>1. \E i \in 1..Len(toClient') : toClient'[i] = Chunk("body", "ping")
          BY <2>4, <4>2
        <5> QED BY <5>1 DEF Pinged
      <4>3. CASE ~\E i \in 1..Len(toClient) : toClient[i] = Chunk("body", "ping")
        BY <2>1, <2>5, <4>1, <4>3 DEF Pinged
      <4> QED BY <4>2, <4>3
    <3> QED BY <3>1, <3>2
  <2> QED BY <2>1, <2>5, PingedKept DEF Attentive
<1>2. CASE WriteFails(w)
  <2> DEFINE e == Chunk("torn", "data")
  <2>1. /\ Writing(w)
        /\ toClient' = toClient \/ toClient' = Append(toClient, e)
        /\ writer' = [writer EXCEPT ![w] = "failed"]
        /\ UNCHANGED <<open, tick, gone, pc, toHub, idle, absent, torn, desync>>
    BY <1>2 DEF WriteFails, Goto, client, call
  <2>2. e \in Chunks
    BY <2>1, WriterChunks
  <2> HIDE DEF e
  <2>3. (\E i \in 1..Len(toClient) : toClient[i] = Chunk("body", "ping"))
           => \E i \in 1..Len(toClient') : toClient'[i] = Chunk("body", "ping")
    <3>1. CASE toClient' = Append(toClient, e)
      <4>1. /\ Len(toClient) \in Nat /\ Len(toClient') = Len(toClient) + 1
            /\ \A i \in 1..Len(toClient) : toClient'[i] = toClient[i]
        BY <2>2, <3>1, Appended DEF TypeOK
      <4> QED BY <4>1
    <3> QED BY <2>1, <3>1
  <2>4. writer'["heart"] \in {writer["heart"], "failed"}
    BY <2>1 DEF TypeOK
  <2> QED BY <2>1, <2>3, <2>4, PingedKept DEF Attentive, Pinged
<1>3. CASE ClearDeadline(w)
  <2>1. /\ UNCHANGED <<open, tick, gone, pc, toHub, toClient, idle, absent, torn, desync>>
        /\ \/ writer[w] = "clear" /\ writer' = [writer EXCEPT ![w] = "none"]
           \/ writer[w] = "failed" /\ writer' = [writer EXCEPT ![w] = "close"]
    BY <1>3 DEF ClearDeadline, Goto, At, client, call
  <2>2. writer["heart"] \in {"header", "body", "failed", "close"}
           => writer'["heart"] \in {"header", "body", "failed", "close"}
    BY <2>1 DEF TypeOK, Writers
  <2> QED BY <2>1, <2>2, PingedKept DEF Attentive, Pinged
<1>4. CASE CloseFailed(w)
  BY <1>4 DEF CloseFailed, HubCloses, Chased, Attentive
<1> QED BY <1>1, <1>2, <1>3, <1>4 DEF WriterStep

\* Every step: an interval in which the client is silent begins only when no ping
\* and no pong is under way.
LEMMA StepChased ==
    ASSUME TypeOK, Left, Aligned, Chased, [Next]_vars PROVE Chased'
<1>1. ASSUME UNCHANGED <<toClient, toHub, writer, tick, gone, pc, idle>>,
             Attentive' => Attentive
      PROVE  Chased'
  BY <1>1, PingedKept DEF Pinged
<1>2. ASSUME ~open' \/ absent' \/ torn' \/ desync' PROVE Chased'
  BY <1>2 DEF Chased, Attentive
<1>3. CASE PumpReplies \/ HeartEnds \/ ReadFails \/ UNCHANGED vars
  <2>1. /\ UNCHANGED <<toClient, toHub, gone, pc, idle, absent, torn, desync>>
        /\ open' = open /\ (tick' = tick \/ ~open)
        /\ writer' = writer \/ writer' = [writer EXCEPT !["pump"] = "header"]
    BY <1>3 DEF PumpReplies, BeginsReply, Goto, HeartEnds, ReadFails, vars, hub, client, call
  <2>2. writer'["heart"] = writer["heart"]
    BY <2>1 DEF TypeOK, Writers
  <2> QED BY <1>2, <2>1, <2>2, PingedKept DEF Attentive, Pinged
<1>4. CASE HeartWaits
  BY <1>4 DEF HeartWaits, Chased, TypeOK
<1>5. CASE HeartPings
  <2>1. /\ writer' = [writer EXCEPT !["heart"] = "header"]
        /\ UNCHANGED <<open, idle, absent, torn, desync>>
    BY <1>5 DEF HeartPings, BeginsReply, Goto, client, call
  <2>2. Pinged'
    BY <2>1 DEF Pinged, TypeOK, Writers
  <2> QED BY <2>1, <2>2, PingedKept DEF Attentive
<1>6. CASE HeartCloses \/ SessionEnds
  BY <1>2, <1>6 DEF HeartCloses, SessionEnds, HubCloses
<1>7. CASE ReadHeader
  <2>1. /\ toHub # <<>> /\ toHub' = Tail(toHub) /\ Head(toHub).part = "header"
        /\ UNCHANGED <<open, toClient, writer, idle, tick, pc, gone, absent, torn, desync>>
    BY <1>7 DEF ReadHeader, call
  <2>2. /\ Len(toHub) \in Nat \ {0} /\ Len(toHub') = Len(toHub) - 1 /\ Head(toHub) = toHub[1]
        /\ \A i \in 1..Len(toHub) - 1 : toHub'[i] = toHub[i + 1]
    BY <2>1, Tailed DEF TypeOK
  <2>3. ASSUME NEW i \in 1..Len(toHub), toHub[i].part = "body"
        PROVE  \E j \in 1..Len(toHub') : toHub'[j].part = "body"
    <3>1. i # 1
      BY <2>1, <2>2, <2>3
    <3>2. i - 1 \in 1..Len(toHub) - 1 /\ (i - 1) + 1 = i
      BY <2>2, <3>1
    <3> QED BY <2>2, <2>3, <3>2
  <2> QED BY <2>1, <2>3, PingedKept DEF Attentive, Pinged
<1>8. CASE ReadBody
  <2>1. idle' = 0
    BY <1>8 DEF ReadBody, Seen
  <2> QED BY <2>1 DEF Chased
<1>9. CASE ReadGarbage
  <2>1. torn \/ gone
    BY <1>9, NoGarbage DEF ReadGarbage
  <2>2. UNCHANGED <<open, idle, absent, torn, desync, gone>>
    BY <1>9 DEF ReadGarbage, call
  <2> QED BY <1>2, <2>1, <2>2, PingedKept DEF Attentive, Pinged
<1>10. CASE Tick
  <2>1. /\ idle' = (IF idle > Live THEN idle ELSE idle + 1) /\ tick' = TRUE /\ Waiting /\ open
        /\ absent' = (absent \/ pc \notin {"read", "rest"})
        /\ UNCHANGED <<open, torn, desync, gone, pc>>
    BY <1>10 DEF Tick, client, call
  <2>2. SUFFICES ASSUME Attentive', idle' >= 2 PROVE idle' = 2 /\ Pinged'
    BY DEF Chased
  <2>3. Attentive /\ pc \in {"read", "rest"} /\ ~gone
    BY <2>1, <2>2 DEF Attentive, Left
  <2>4. ~Pinged
    <3>1. /\ \A w \in Writers : writer[w] = "none"
          /\ ~tick /\ toClient = <<>> /\ toHub = <<>>
      BY <2>1, <2>3, Quiet
    <3>2. writer["heart"] = "none"
      BY <3>1 DEF Writers
    <3>3. Len(toClient) = 0 /\ Len(toHub) = 0
      BY <3>1, Emptied
    <3> QED BY <2>3, <3>1, <3>2, <3>3 DEF Pinged
  <2>5. ~(idle >= 2)
    BY <2>3, <2>4 DEF Chased
  <2>6. idle' = 2
    BY <2>1, <2>2, <2>5, ConnectionAssumption DEF TypeOK
  <2> QED BY <2>1, <2>6 DEF Pinged
<1>11. CASE Call \/ Recv
  <2>1. /\ UNCHANGED <<open, toClient, toHub, writer, tick, gone, idle, absent, torn, desync>>
        /\ pc = "out"
    BY <1>11 DEF Call, Recv, hub
  <2> QED BY <2>1, PingedKept DEF Attentive, Pinged
<1>12. CASE CloseClient
  <2>1. gone' /\ UNCHANGED <<open, idle, absent, torn, desync>>
    BY <1>12 DEF CloseClient, ClientCloses
  <2> QED BY <2>1, PingedKept DEF Attentive, Pinged
<1>13. CASE ClientWorks
  <2>1. CASE SendHeader
    <3> DEFINE e == Chunk("header", IF pc = "header" THEN CallKind ELSE "pong")
    <3>1. e \in Chunks
      BY ChunkParts DEF CallKind, Kinds
    <3> HIDE DEF e
    <3>2. /\ toHub' = Append(toHub, e)
          /\ UNCHANGED <<open, toClient, writer, tick, gone, idle, absent, torn, desync>>
          /\ \/ pc = "header" /\ pc' = "body"
             \/ pc = "pongHeader" /\ pc' = "pongBody"
      BY <2>1 DEF SendHeader, hub, e
    <3>3. /\ Len(toHub) \in Nat /\ Len(toHub') = Len(toHub) + 1
          /\ \A i \in 1..Len(toHub) : toHub'[i] = toHub[i]
      BY <3>1, <3>2, Appended DEF TypeOK
    <3>4. (\E i \in 1..Len(toHub) : toHub[i].part = "body")
             => \E i \in 1..Len(toHub') : toHub'[i].part = "body"
      BY <3>3
    <3> QED BY <3>2, <3>4, PingedKept DEF Attentive, Pinged
  <2>2. CASE SendBody
    <3> DEFINE e == Chunk("body", IF pc = "body" THEN CallKind ELSE "pong")
    <3>1. e \in Chunks /\ e.part = "body"
      BY ChunkParts DEF CallKind, Kinds
    <3> HIDE DEF e
    <3>2. toHub' = Append(toHub, e) /\ UNCHANGED <<open, idle, absent, torn, desync>>
      BY <2>2 DEF SendBody, hub, e
    <3>3. /\ Len(toHub) + 1 \in 1..Len(toHub') /\ toHub'[Len(toHub) + 1] = e
      BY <3>1, <3>2, Appended DEF TypeOK
    <3>4. Pinged'
      BY <3>1, <3>3 DEF Pinged
    <3> QED BY <3>2, <3>4, PingedKept DEF Attentive
  <2>3. CASE SendFails
    <3>1. /\ UNCHANGED <<open, toClient, writer, tick, gone, idle, desync>>
          /\ absent' = (absent \/ (open /\ pc \in {"pongHeader", "pongBody"}))
          /\ torn' \/ (toHub' = toHub /\ torn' = torn)
          /\ pc \in {"header", "body", "pongHeader", "pongBody"}
      BY <2>3 DEF SendFails, hub, TypeOK
    <3>2. CASE open /\ ~torn' /\ pc \in {"header", "body"}
      <4>1. toHub' = toHub /\ pc \notin {"pongHeader", "pongBody", "lost"}
        BY <3>1, <3>2
      <4>2. Pinged => Pinged'
        BY <3>1, <4>1 DEF Pinged
      <4>3. Attentive' => Attentive
        BY <3>1, <3>2 DEF Attentive
      <4> QED BY <3>1, <4>2, <4>3, PingedKept
    <3>3. CASE ~open
      BY <1>2, <3>1, <3>3
    <3>4. CASE pc \in {"pongHeader", "pongBody"}
      BY <1>2, <3>1, <3>3, <3>4
    <3> QED BY <1>2, <3>1, <3>2, <3>3, <3>4
  <2>4. CASE TakeHeader \/ TakeBody
    <3>1. /\ toClient # <<>> /\ toClient' = Tail(toClient) /\ pc \in {"read", "rest"}
          /\ UNCHANGED <<open, toHub, writer, tick, gone, idle, absent, torn, desync>>
          /\ Head(toClient) = Chunk("body", "ping") => pc' = "pongHeader"
      BY <2>4 DEF TakeHeader, TakeBody, Chunk
    <3>2. /\ Len(toClient) \in Nat \ {0} /\ Len(toClient') = Len(toClient) - 1
          /\ Head(toClient) = toClient[1]
          /\ \A i \in 1..Len(toClient) - 1 : toClient'[i] = toClient[i + 1]
      BY <3>1, Tailed DEF TypeOK
    <3>3. ASSUME NEW i \in 1..Len(toClient), toClient[i] = Chunk("body", "ping")
          PROVE  Pinged'
      <4>1. CASE i = 1
        BY <3>1, <3>2, <3>3, <4>1 DEF Pinged
      <4>2. CASE i # 1
        <5>1. i - 1 \in 1..Len(toClient) - 1 /\ (i - 1) + 1 = i
          BY <3>2, <4>2
        <5>2. i - 1 \in 1..Len(toClient') /\ toClient'[i - 1] = Chunk("body", "ping")
          BY <3>2, <3>3, <5>1
        <5> QED BY <5>2 DEF Pinged
      <4> QED BY <4>1, <4>2
    <3>4. ASSUME Pinged PROVE Pinged'
      <4>1. CASE \E i \in 1..Len(toClient) : toClient[i] = Chunk("body", "ping")
        BY <3>3, <4>1
      <4>2. CASE ~\E i \in 1..Len(toClient) : toClient[i] = Chunk("body", "ping")
        BY <3>1, <3>4, <4>2 DEF Pinged
      <4> QED BY <4>1, <4>2
    <3> QED BY <3>1, <3>4, PingedKept DEF Attentive
  <2>5. CASE TakeGarbage
    <3>1. /\ UNCHANGED <<open, idle, absent, torn>>
          /\ desync' \/ (pc' = "lost" /\ desync' = desync)
      BY <2>5 DEF TakeGarbage, TypeOK
    <3> QED BY <1>2, <3>1, PingedKept DEF Attentive, Pinged
  <2>6. CASE ReadEnds
    <3>1. /\ UNCHANGED <<open, toClient, toHub, writer, tick, gone, idle, absent, torn>>
          /\ desync' = (desync \/ pc # "read")
      BY <2>6 DEF ReadEnds, hub
    <3>2. CASE pc = "read"
      BY <3>1, <3>2, PingedKept DEF Attentive, Pinged
    <3> QED BY <1>2, <3>1, <3>2
  <2> QED BY <1>13, <2>1, <2>2, <2>3, <2>4, <2>5, <2>6 DEF ClientWorks
<1>14. ASSUME NEW w \in Writers, WriterStep(w) PROVE Chased'
  BY <1>14, WriterChased
<1> QED BY <1>3, <1>4, <1>5, <1>6, <1>7, <1>8, <1>9, <1>10, <1>11, <1>12, <1>13, <1>14
        DEF Next, ReaderStep, HeartStep

-----------------------------------------------------------------------------
(* The theorems.                                                           *)

\* A new connection.
LEMMA InitConn == Init => ConnInv
<1> SUFFICES ASSUME Init PROVE ConnInv
  OBVIOUS
<1> USE DEF Init
<1>1. /\ toClient = <<>> /\ toHub = <<>> /\ toClient \in Seq(Chunks) /\ toHub \in Seq(Chunks)
      /\ Len(toClient) = 0 /\ Len(toHub) = 0
  BY Emptied
<1>2. TypeOK
  <2>1. Live \in Nat \ {0} /\ Capacity \in Nat \ {0}
    BY ConnectionAssumption
  <2>2. idle \in 0..Live + 1 /\ Len(toClient) <= Capacity + 1 /\ Len(toHub) <= Capacity + 1
    BY <1>1, <2>1
  <2>3. writer \in [Writers -> Steps]
    BY DEF Steps
  <2> QED BY <1>1, <2>2, <2>3 DEF TypeOK, PCs
<1>3. Balanced
  <2> DEFINE h == [i \in 0..0 |-> 0]
  <2>1. h \in [0..0 -> Nat] /\ h[0] = 0
    OBVIOUS
  <2>2. BodiesDue = 0
    BY DEF BodiesDue, Due, At, Writers
  <2> HIDE DEF h
  <2>3. Balances(h)
    BY <1>1, <2>1, <2>2 DEF Balances
  <2> QED BY <1>1, <2>1, <2>3 DEF Balanced
<1>4. Left
  BY DEF Left
<1>5. ~HasBad /\ ~OpenEnd /\ ~Sending
  BY <1>1 DEF HasBad, OpenEnd, Follows, Sending
<1>6. Tear /\ Aligned
  BY <1>1, <1>5 DEF Tear, Aligned
<1>7. Chased
  BY DEF Chased
<1> QED BY <1>2, <1>3, <1>4, <1>6, <1>7 DEF ConnInv

\* The invariant is inductive.
LEMMA ConnInductive == Spec => []ConnInv
<1>1. ConnInv /\ [Next]_vars => ConnInv'
  BY StepTypes, StepBalanced, StepLeft, StepTear, StepAligned, StepChased DEF ConnInv
<1> QED BY <1>1, InitConn, PTL DEF Spec

\* Every variable has its type, and no direction of the connection holds more than
\* its capacity and the part of one write that failed.
THEOREM ConnectionTypes == Spec => []TypeOK
<1>1. ConnInv => TypeOK
  BY DEF ConnInv
<1> QED BY <1>1, ConnInductive, PTL

\* A client that is not marked and not inside a frame reads a frame next: no body
\* comes to it before its header, whatever deadlines passed and however the
\* goroutines of the session interleaved their writes (ReadCounted, desync).
THEOREM ClientAtBoundary == Spec => []AtBoundary
<1>1. ConnInv => AtBoundary
  <2> SUFFICES ASSUME ConnInv, ~desync, pc \notin {"rest", "lost"}, toClient # <<>>,
                      Head(toClient).part = "body"
               PROVE  FALSE
    BY DEF AtBoundary
  <2> USE DEF ConnInv
  <2>1. Whole
    BY DEF Whole, Left
  <2>2. PICK f \in [0..Len(toClient) -> Nat] : Balances(f)
    BY <2>1 DEF Balanced
  <2>3. Len(toClient) \in Nat \ {0} /\ Head(toClient) = toClient[1]
    BY Tailed DEF TypeOK
  <2>4. 1 \in 1..Len(toClient) /\ 1 \in 0..Len(toClient)
    BY <2>3
  <2>5. f[0] = 0 /\ f[1] + 1 = f[1 - 1] /\ f[1] \in Nat
    BY <2>2, <2>3, <2>4 DEF Balances
  <2> QED BY <2>5
<1> QED BY <1>1, ConnInductive, PTL

\* A call that the client writes behind a frame it tore is never taken for a
\* frame: run returns on the bytes before it (wire.Read, SetWriteDeadline).
THEOREM NoCallAfterTear == Spec => NothingAfterTear
<1>1. ConnInv /\ [Next]_vars
        => [rd = "rest" /\ rd' = "read" => Head(toHub).kind # "retry"]_vars
  <2> SUFFICES ASSUME ConnInv, Next, rd = "rest", rd' = "read", Head(toHub).kind = "retry"
               PROVE  FALSE
    OBVIOUS
  <2>1. ReadBody
    <3>1. ASSUME NEW w \in Writers, WriterStep(w) PROVE rd' = rd
      BY <3>1 DEF WriterStep, WriteChunk, WriteFails, ClearDeadline, CloseFailed
    <3>2. CASE PumpReplies \/ HeartStep \/ Tick
      BY <3>2 DEF PumpReplies, HeartStep, HeartEnds, HeartWaits, HeartPings, HeartCloses, Tick
    <3>3. CASE Call \/ Recv \/ CloseClient
      BY <3>3 DEF Call, Recv, CloseClient, hub
    <3>4. CASE ClientWorks
      BY <3>4 DEF ClientWorks, SendHeader, SendBody, SendFails, TakeHeader, TakeBody,
                  TakeGarbage, ReadEnds, hub
    <3>5. CASE ReaderStep
      BY <3>5 DEF ReaderStep, ReadHeader, ReadGarbage, ReadFails, SessionEnds
    <3> QED BY <3>1, <3>2, <3>3, <3>4, <3>5 DEF Next
  <2>2. open /\ toHub # <<>> /\ Head(toHub).part = "body"
    BY <2>1 DEF ReadBody
  <2>3. /\ Len(toHub) \in Nat \ {0} /\ Head(toHub) = toHub[1]
    BY <2>2, Tailed DEF ConnInv, TypeOK
  <2>4. 1 \in 1..Len(toHub)
    BY <2>3
  <2>5. PICK j \in 1..1 : Bad(j)
    BY <2>2, <2>3, <2>4 DEF ConnInv, Tear
  <2>6. Bad(1)
    BY <2>5
  <2> QED BY <2>2, <2>3, <2>6 DEF Bad
<1> QED BY <1>1, ConnInductive, PTL DEF Spec, NothingAfterTear

\* A peer that waits for frames is not declared dead by the heartbeat, if Liveness
\* is more than 1: with 1, the idle time that calls for a ping already means death,
\* and heartbeat asks for death first.
THEOREM AttentivePeerSpared == ASSUME Live >= 2 PROVE Spec => AttentiveSpared
<1>1. ConnInv /\ [Next]_vars
        => [open /\ ~open' /\ tick /\ ~tick' => absent \/ torn \/ desync]_vars
  <2> SUFFICES ASSUME ConnInv, Next, open, ~open', tick, ~tick', Attentive
               PROVE  FALSE
    BY DEF Attentive
  <2>1. idle > Live
    <3>1. ASSUME NEW w \in Writers, WriterStep(w) PROVE tick' = tick
      BY <3>1 DEF WriterStep, WriteChunk, WriteFails, ClearDeadline, CloseFailed
    <3>2. CASE PumpReplies \/ HeartEnds \/ HeartWaits \/ HeartPings \/ Tick
      BY <3>2 DEF PumpReplies, HeartEnds, HeartWaits, HeartPings, Tick
    <3>3. CASE Call \/ Recv \/ CloseClient
      BY <3>3 DEF Call, Recv, CloseClient, hub
    <3>4. CASE ClientWorks
      BY <3>4 DEF ClientWorks, SendHeader, SendBody, SendFails, TakeHeader, TakeBody,
                  TakeGarbage, ReadEnds, hub
    <3>5. CASE ReaderStep
      BY <3>5 DEF ReaderStep, ReadHeader, ReadBody, ReadGarbage, ReadFails, SessionEnds, hub
    <3>6. CASE HeartCloses
      BY <3>6 DEF HeartCloses
    <3> QED BY <3>1, <3>2, <3>3, <3>4, <3>5, <3>6 DEF Next, HeartStep
  <2>2. idle \in Int /\ Live \in Nat /\ Live >= 2
    BY ConnectionAssumption DEF ConnInv, TypeOK
  <2>3. idle >= 2 /\ idle # 2
    BY <2>1, <2>2
  <2> QED BY <2>3 DEF ConnInv, Chased
<1> QED BY <1>1, ConnInductive, PTL DEF Spec, AttentiveSpared
==============================================================================
