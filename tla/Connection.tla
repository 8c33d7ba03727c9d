----------------------------- MODULE Connection ------------------------------
(***************************************************************************)
(* One connection between a session of the hub and a client: frames as the *)
(* two writes of wire.Write, the goroutines of the session that write to   *)
(* it without a common lock (reply), the write deadline they share, the    *)
(* heartbeat, and the client's one goroutine with its deadlines and its    *)
(* desync flag.  Frames are reduced to what the two ends do about them.    *)
(***************************************************************************)
EXTENDS Naturals, Sequences

CONSTANTS
    Capacity,  \* writes that one direction holds before a writer blocks
    Live       \* Hub.Liveness: silent intervals until the session ends

ASSUME ConnectionAssumption == Capacity \in Nat \ {0} /\ Live \in Nat \ {0}

VARIABLES
    open,     \* ~session.closed, and the hub's end of the connection
    toClient, \* what the hub has written and the client has not read
    writer,   \* where each goroutine of the session is in reply
    limited,  \* the hub's connection has a write deadline
    rd,       \* where wire.Read of the session's reader is: at a boundary,
              \* inside a frame, reading what is no frame, returned an error
    idle,     \* ticks since session.lastSeen; ServeConn sets it just before
              \* the first interval, which counts for one
    tick,     \* the heartbeat's ticker has fired and was not received
    toHub,    \* what the client has written and the hub has not read
    pc,       \* where the client is
    timed,    \* its call has a deadline
    desync,   \* Client.desync
    gone,     \* the client has closed its end
    absent,   \* history: since lastSeen, an interval began while the client
              \* was not waiting for frames, or it failed to write a pong
    torn      \* history: a write of the client failed part way

hub == <<open, toClient, writer, limited, rd, idle, tick>>
call == <<pc, timed, desync, gone, torn>>
client == <<toHub, call>>
vars == <<hub, client, absent>>

\* the frame handler (reply of handle), pumpSub or a job goroutine, heartbeat
Writers == {"reader", "pump", "heart"}

Kinds == {"ping", "data",          \* of the hub
          "pong", "call", "retry"} \* of the client; retry: a call after a failed write

\* one Write call: the header of a frame, its body, or a part of either
Chunks == [part : {"header", "body", "torn"}, kind : Kinds]
Chunk(part, kind) == [part |-> part, kind |-> kind]

\* what a goroutine of the session writes
Replies(w) == IF w = "heart" THEN "ping" ELSE "data"

\* reply: not in it, writing the header or the body, clearing the deadline,
\* clearing it after a failed write, calling close()
Steps == {"none", "header", "body", "clear", "failed", "close"}

PCs == {"out",                    \* between calls
        "header", "body",         \* Write of a call
        "read", "rest",           \* ReadCounted: at a boundary, inside a frame,
        "lost",                   \* and with bytes that are no frame
        "pongHeader", "pongBody"} \* Write of a pong

Init ==
    /\ open = TRUE /\ toClient = <<>> /\ toHub = <<>>
    /\ writer = [w \in Writers |-> "none"]
    /\ limited = FALSE
    /\ rd = "read" /\ idle = 1 /\ tick = FALSE
    /\ pc = "out" /\ timed = FALSE
    /\ desync = FALSE /\ gone = FALSE /\ absent = FALSE /\ torn = FALSE

At(w, at) == writer[w] = at
Goto(w, at) == writer' = [writer EXCEPT ![w] = at]

Writing(w) == writer[w] \in {"header", "body"}

\* One end closes its connection; what it has not read is dropped.  Nobody asks
\* how long a closed session was idle.
HubCloses == open' = FALSE /\ toHub' = <<>> /\ idle' = 0 /\ absent' = FALSE
ClientCloses == gone' = TRUE /\ toClient' = <<>>

-----------------------------------------------------------------------------
(* reply, by any goroutine of the session.                                 *)

\* It finds the session open and sets the deadline; otherwise ErrClosed.
BeginsReply(w) ==
    /\ At(w, "none") /\ open
    /\ Goto(w, "header")
    /\ limited' = TRUE

\* mutant: a failed write is tried again
WriteRepeats(w) ==
    /\ Writing(w) /\ (~open \/ gone \/ limited)
    /\ \/ UNCHANGED toClient
       \/ toClient' = Append(toClient, Chunk("torn", "data"))
    /\ UNCHANGED <<open, writer, limited, rd, idle, tick, client, absent>>

(* wire.Write: two writes, each of which blocks while the connection is    *)
(* full.  Writes of several goroutines do not mix, frames may.             *)
WriteChunk(w) ==
    /\ Writing(w) /\ open /\ ~gone
    /\ Len(toClient) < Capacity
    /\ toClient' = Append(toClient, Chunk(writer[w], Replies(w)))
    /\ Goto(w, IF At(w, "header") THEN "body" ELSE "clear")
    /\ UNCHANGED <<open, limited, rd, idle, tick, client, absent>>

(* A write ends with an error, possibly part way.                          *)
WriteFails(w) ==
    /\ Writing(w) /\ (~open \/ gone \/ limited)
    /\ \/ UNCHANGED toClient
       \/ open /\ ~gone /\ Len(toClient) <= Capacity
          /\ toClient' = Append(toClient, Chunk("torn", "data"))
    /\ Goto(w, "failed")
    /\ UNCHANGED <<open, limited, rd, idle, tick, client, absent>>

(* The deadline is cleared for the whole connection, another goroutine's   *)
(* write included.                                                         *)
ClearDeadline(w) ==
    /\ At(w, "clear") \/ At(w, "failed")
    /\ limited' = FALSE
    /\ Goto(w, IF At(w, "clear") THEN "none" ELSE "close")
    /\ UNCHANGED <<open, toClient, rd, idle, tick, client, absent>>

(* A failed write closes the session.                                      *)
CloseFailed(w) ==
    /\ At(w, "close")
    /\ HubCloses
    /\ Goto(w, "none")
    /\ UNCHANGED <<toClient, limited, rd, tick, call>>

(* A subscription has a message, or a job goroutine a job.                 *)
PumpReplies ==
    /\ BeginsReply("pump")
    /\ UNCHANGED <<open, toClient, rd, idle, tick, client, absent>>

-----------------------------------------------------------------------------
(* run: read a frame, touch, handle.                                       *)
ReaderFree == At("reader", "none") /\ rd # "end"

\* touch
Seen == idle' = 0 /\ absent' = FALSE

ReadHeader ==
    /\ ReaderFree /\ rd = "read" /\ open /\ toHub # <<>>
    /\ Head(toHub).part = "header"
    /\ toHub' = Tail(toHub)
    /\ rd' = "rest"
    /\ UNCHANGED <<open, toClient, writer, limited, idle, tick, call, absent>>

\* mutant: a pong is not taken for a sign of life
TouchedByCalls ==
    /\ ReaderFree /\ rd = "rest" /\ open /\ toHub # <<>>
    /\ Head(toHub).part = "body"
    /\ toHub' = Tail(toHub)
    /\ rd' = "read"
    /\ \/ /\ Head(toHub).kind # "pong" /\ BeginsReply("reader") /\ Seen
       \/ Head(toHub).kind = "pong" /\ UNCHANGED <<writer, limited, idle, absent>>
    /\ UNCHANGED <<open, toClient, tick, call>>

(* A pong is answered with nothing, a call with a reply (sooner or later:  *)
(* a take that waits is a reply of "pump").                                *)
ReadBody ==
    /\ ReaderFree /\ rd = "rest" /\ open /\ toHub # <<>>
    /\ Head(toHub).part = "body"
    /\ toHub' = Tail(toHub)
    /\ rd' = "read"
    /\ Seen
    /\ \/ Head(toHub).kind # "pong" /\ BeginsReply("reader")
       \/ UNCHANGED <<writer, limited>>
    /\ UNCHANGED <<open, toClient, tick, call>>

(* Anything else is no frame.  The error ends run, at once or when the     *)
(* bytes of the torn frame's body are complete.                            *)
IsFrame == Head(toHub).part = (IF rd = "read" THEN "header" ELSE "body")

ReadSkips ==                                     \* mutant: and reads on
    /\ ReaderFree /\ open /\ toHub # <<>>
    /\ ~IsFrame
    /\ toHub' = Tail(toHub)
    /\ rd' = "read"
    /\ UNCHANGED <<open, toClient, writer, limited, idle, tick, call, absent>>

ReadGarbage ==
    /\ ReaderFree /\ open /\ toHub # <<>>
    /\ rd = "lost" \/ ~IsFrame
    /\ toHub' = Tail(toHub)
    /\ rd' \in {"lost", "end"}
    /\ UNCHANGED <<open, toClient, writer, limited, idle, tick, call, absent>>

(* The connection is closed at either end.                                 *)
ReadFails ==
    /\ ReaderFree /\ (~open \/ (gone /\ toHub = <<>>))
    /\ rd' = "end"
    /\ UNCHANGED <<open, toClient, writer, limited, idle, tick, client, absent>>

(* run has returned: ServeConn closes the session.                         *)
SessionEnds ==
    /\ rd = "end" /\ open
    /\ HubCloses
    /\ UNCHANGED <<toClient, writer, limited, rd, tick, call>>

-----------------------------------------------------------------------------
(* heartbeat, at a tick.                                                   *)

HeartEnds ==
    /\ tick /\ At("heart", "none") /\ ~open
    /\ tick' = FALSE
    /\ UNCHANGED <<open, toClient, writer, limited, rd, idle, client, absent>>

\* mutant: the goroutine returns where it should wait for the next tick
HeartStops ==
    /\ tick /\ At("heart", "none") /\ open
    /\ idle <= 1
    /\ tick' = FALSE
    /\ Goto("heart", "stopped")
    /\ UNCHANGED <<open, toClient, limited, rd, idle, client, absent>>

\* A frame is read inside an interval, so that there are less whole intervals in
\* idleLocked than in idle.
HeartWaits ==
    /\ tick /\ At("heart", "none") /\ open
    /\ idle <= 1
    /\ tick' = FALSE
    /\ UNCHANGED <<open, toClient, writer, limited, rd, idle, client, absent>>

HeartPings ==
    /\ tick /\ idle > 1 /\ idle <= Live
    /\ BeginsReply("heart")
    /\ tick' = FALSE
    /\ UNCHANGED <<open, toClient, rd, idle, client, absent>>

HeartCloses ==
    /\ tick /\ At("heart", "none") /\ open
    /\ idle > Live
    /\ HubCloses /\ tick' = FALSE
    /\ UNCHANGED <<toClient, writer, limited, rd, call>>

-----------------------------------------------------------------------------
(* The client.                                                             *)

\* The call returns; a deferred function clears its deadline.
Returns == pc' = "out" /\ timed' = FALSE

(* roundTripTimeout, with a deadline or without; a desynchronised client   *)
(* refuses.                                                                *)
Call ==
    /\ pc = "out" /\ ~gone /\ ~desync
    /\ pc' = "header" /\ timed' \in BOOLEAN
    /\ UNCHANGED <<hub, toHub, desync, gone, torn, absent>>

(* Recv only reads, whatever desync says.                                  *)
Recv ==
    /\ pc = "out" /\ ~gone
    /\ pc' = "read"
    /\ UNCHANGED <<hub, toHub, timed, desync, gone, torn, absent>>

(* Close, by a client that failed or is done.                              *)
CloseClient ==
    /\ pc = "out" /\ ~gone
    /\ ClientCloses
    /\ UNCHANGED <<open, writer, limited, rd, idle, tick,
                   toHub, pc, timed, desync, torn, absent>>

CallKind == IF torn THEN "retry" ELSE "call"

SendHeader ==
    /\ pc \in {"header", "pongHeader"} /\ open /\ Len(toHub) < Capacity
    /\ toHub' = Append(toHub, Chunk("header", IF pc = "header" THEN CallKind ELSE "pong"))
    /\ pc' = IF pc = "header" THEN "body" ELSE "pongBody"
    /\ UNCHANGED <<hub, timed, desync, gone, torn, absent>>

SendBody ==
    /\ pc \in {"body", "pongBody"} /\ open /\ Len(toHub) < Capacity
    /\ toHub' = Append(toHub, Chunk("body", IF pc = "body" THEN CallKind ELSE "pong"))
    /\ pc' = "read"
    /\ UNCHANGED <<hub, timed, desync, gone, torn, absent>>

(* A write fails because the deadline passed or the hub closed.  That ends *)
(* the call and marks nothing, however much of the frame is on its way; a  *)
(* failed pong is ignored, and it is the next read that ends the call.     *)
SendFails ==
    /\ pc \in {"header", "body", "pongHeader", "pongBody"} /\ (timed \/ ~open)
    /\ IF open \/ pc \in {"header", "body"}
       THEN Returns
       ELSE pc' = "read" /\ UNCHANGED timed
    /\ \/ /\ open /\ Len(toHub) <= Capacity
          /\ toHub' = Append(toHub, Chunk("torn", "call"))
          /\ torn' = TRUE
       \/ /\ torn' = (torn \/ pc \in {"body", "pongBody"})
          /\ UNCHANGED toHub
    /\ absent' = (absent \/ (open /\ pc \in {"pongHeader", "pongBody"}))
    /\ UNCHANGED <<hub, desync, gone>>

(* ReadCounted: a header, ...                                              *)
TakeHeader ==
    /\ pc = "read" /\ toClient # <<>>
    /\ Head(toClient).part = "header"
    /\ toClient' = Tail(toClient)
    /\ pc' = "rest"
    /\ UNCHANGED <<open, writer, limited, rd, idle, tick,
                   toHub, timed, desync, gone, torn, absent>>

(* ... its body: a ping is answered and the call reads on, anything else   *)
(* is what the call returns, ...                                           *)
TakeBody ==
    /\ pc = "rest" /\ toClient # <<>>
    /\ Head(toClient).part = "body"
    /\ toClient' = Tail(toClient)
    /\ IF Head(toClient).kind = "ping"
       THEN pc' = "pongHeader" /\ UNCHANGED timed
       ELSE Returns
    /\ UNCHANGED <<open, writer, limited, rd, idle, tick,
                   toHub, desync, gone, torn, absent>>

(* ... or bytes that are no frame, which end in an error once there are    *)
(* as many as the last header announced.                                   *)
TakeGarbage ==
    /\ pc \in {"read", "rest", "lost"} /\ toClient # <<>>
    /\ pc = "read" => Head(toClient).part # "header"
    /\ pc = "rest" => Head(toClient).part # "body"
    /\ toClient' = Tail(toClient)
    /\ \/ pc # "read" /\ pc' = "lost" /\ UNCHANGED <<timed, desync>>
       \/ Returns /\ desync' = TRUE
    /\ UNCHANGED <<open, writer, limited, rd, idle, tick, toHub, gone, torn, absent>>

\* mutant: the bytes of the header are not counted
ReadEndsUncounted ==
    /\ pc \in {"read", "rest", "lost"} /\ (timed \/ (~open /\ toClient = <<>>))
    /\ Returns
    /\ desync' = (desync \/ pc = "lost")
    /\ UNCHANGED <<hub, toHub, gone, torn, absent>>

(* A read that ends by the deadline or the end of the connection marks the *)
(* client if it had consumed a part of a frame.                            *)
ReadEnds ==
    /\ pc \in {"read", "rest", "lost"} /\ (timed \/ (~open /\ toClient = <<>>))
    /\ Returns
    /\ desync' = (desync \/ pc # "read")
    /\ UNCHANGED <<hub, toHub, gone, torn, absent>>

-----------------------------------------------------------------------------
(* Time.  A deadline may pass at any moment of what it bounds: a write of  *)
(* the hub, a call.  Intervals are seconds and steps are not: one begins   *)
(* when nobody at work can move.                                           *)

WriterMoves(w) ==
    \/ writer[w] \in {"clear", "failed", "close"}
    \/ Writing(w) /\ (~open \/ gone \/ Len(toClient) < Capacity)

ReaderMoves == ReaderFree /\ (toHub # <<>> \/ ~open \/ gone)

ClientMoves ==
    \/ pc \in {"read", "rest", "lost"} /\ (~open \/ toClient # <<>>)
    \/ pc \in {"header", "body", "pongHeader", "pongBody"}
       /\ (~open \/ Len(toHub) < Capacity)

Waiting ==
    /\ \A w \in Writers : ~WriterMoves(w)
    /\ ~ReaderMoves /\ ~ClientMoves
    /\ ~(tick /\ At("heart", "none")) /\ ~(rd = "end" /\ open)

Tick ==
    /\ Waiting /\ open
    /\ tick' = TRUE
    /\ idle' = IF idle > Live THEN idle ELSE idle + 1
    /\ absent' = (absent \/ pc \notin {"read", "rest"})
    /\ UNCHANGED <<open, toClient, writer, limited, rd, client>>

-----------------------------------------------------------------------------
WriterStep(w) ==
    WriteChunk(w) \/ WriteFails(w) \/ ClearDeadline(w) \/ CloseFailed(w)

ReaderStep == ReadHeader \/ ReadBody \/ ReadGarbage \/ ReadFails \/ SessionEnds

HeartStep == HeartEnds \/ HeartWaits \/ HeartPings \/ HeartCloses

ClientWorks ==
    \/ SendHeader \/ SendBody \/ SendFails
    \/ TakeHeader \/ TakeBody \/ TakeGarbage \/ ReadEnds

Next ==
    \/ \E w \in Writers : WriterStep(w)
    \/ PumpReplies \/ ReaderStep \/ HeartStep
    \/ Call \/ Recv \/ CloseClient \/ ClientWorks
    \/ Tick

Spec == Init /\ [][Next]_vars

(* The goroutines of the hub run, and the client's inside a call, and time *)
(* passes.  Nothing makes the client call.                                 *)
Fairness ==
    /\ \A w \in Writers : WF_vars(WriterStep(w))
    /\ WF_vars(ReaderStep) /\ WF_vars(HeartStep) /\ WF_vars(ClientWorks)
    /\ WF_vars(Tick)

FairSpec == Spec /\ Fairness

-----------------------------------------------------------------------------
(* Properties.                                                             *)

\* Every variable has its type; no more than the capacity is under way, but for
\* the part of a write that failed.
TypeOK ==
    /\ open \in BOOLEAN /\ limited \in BOOLEAN
    /\ toClient \in Seq(Chunks) /\ Len(toClient) <= Capacity + 1
    /\ toHub \in Seq(Chunks) /\ Len(toHub) <= Capacity + 1
    /\ writer \in [Writers -> Steps]
    /\ rd \in {"read", "rest", "lost", "end"}
    /\ idle \in 0..Live + 1 /\ tick \in BOOLEAN
    /\ pc \in PCs
    /\ timed \in BOOLEAN /\ desync \in BOOLEAN
    /\ gone \in BOOLEAN /\ absent \in BOOLEAN /\ torn \in BOOLEAN

\* What desync is for: a client that is not marked and not inside a frame is at a
\* boundary of the stream, so that its next call reads a frame, whatever timed
\* out, was torn by a deadline of the hub, or was interleaved by the goroutines
\* of the session ("zero bytes consumed means the next Read can still
\* resynchronize", ReadCounted).
AtBoundary ==
    ~desync /\ pc \notin {"rest", "lost"} /\ toClient # <<>> =>
        Head(toClient).part # "body"

\* The client does not mark a call whose write failed part way, and its next
\* call writes behind the torn frame: the hub never takes such a call for a
\* frame, it ends the session (run returns on the first error of wire.Read).
NothingAfterTear ==
    [][rd = "rest" /\ rd' = "read" => Head(toHub).kind # "retry"]_vars

\* A peer is declared dead only after an interval began in which it was not
\* reading, or a pong that it could not write: one that waits for frames is
\* pinged in time, and its pong counts
\* ("any inbound frame is liveness").  The exceptions are a client that tore a
\* frame, as the hub may take its pongs for the rest of it, and one that reads on
\* when it is desynchronised, as it takes pings for the rest of a frame.
AttentiveSpared ==
    [][open /\ ~open' /\ tick /\ ~tick' => absent \/ torn \/ desync]_vars

\* The heartbeat itself is in a blocked write whose deadline another goroutine
\* cleared.
HeartLost == Writing("heart") /\ ~limited

\* A peer that falls silent for good is dropped ("death after ~3 missed"), also
\* one that reads nothing and blocks every write, unless the heartbeat lost its
\* deadline and no other goroutine sets one.
SilentDropped == <>[](pc = "out") => <>[](~open \/ HeartLost)

-----------------------------------------------------------------------------
(* What the repository says and the code does not do (a run that expects a *)
(* violation).                                                             *)

\* "magic, length, JSON": what the hub sends is a sequence of frames, a header
\* is followed by its body or by the end of a failed write.
FramesWhole ==
    \A i \in 1..Len(toClient) - 1 :
        toClient[i].part = "header" => toClient[i + 1].part # "header"
=============================================================================
