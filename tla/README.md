# zmqcat in TLA+

zmqcat is a message bus: a hub keeps named work queues ("mailboxes") and
topics, and clients talk to it over a local socket or a Tailcat tunnel. These
modules model the parts of it where goroutines, failing disks, crashes and ending
sessions meet, TLC checks them on small instances, and TLAPS proves their safety for every
instance. Paths below are relative to the repository.

Contents: 1 the system; 2 the modules; 3 the runs, their bounds and the fairness;
4 where the code and its documentation disagree; 5 the proofs; 6 what is not
modelled; 7 the plan.

## 1. The system

| Part | Source | State | Operations | What makes it right |
|---|---|---|---|---|
| Work queues of the bus | `internal/mailbox/mailbox.go` | per mailbox a queue and a list of waiting channels; leases (`inflight`); an index of message ids (`dedup`) | `Put`, `Take`, `TryTake`, `Reserve`, `TryReserve`, `Hold`, `Requeue`, `Ack`, `Nack`, `ExpireLeases`, `Close` | a job is in one place; it leaves only by an ack; the index counts what is queued or leased; order |
| Durable store | same file | one JSON file with queues and leases | `OpenPersistent`, `persistLocked` | the file holds what was accepted and not what was acknowledged |
| Topics | same file | subscriptions with buffered channels, last-value cache | `Pub`, `Sub`, cancel, `Close` | no send on a closed channel, order within a topic, replay without a gap |
| Sessions of the hub | `internal/hub/hub.go` | per connection: `closed`, tracked deliveries, message id to delivery id (`repAck`), cancel functions | one reader that handles frames, a goroutine per `take`, `ready` and `reserve`, one per subscription, heartbeat, `close` | a delivery is settled once, by ack or by the nack of `close`; a dead worker gives back |
| Req/rep | same file | `Hub.pending`: scoped request id to requester | `req`, `rep`, expiry on the next `req`, `clearPending` | a reply reaches the requester that waits |
| Session numbers | same file | `Hub.sids`, `session.sid` | `ServeConn`, `scopedID` | ids of different connections differ |
| Heartbeat, frame writing | same file | `session.lastSeen`, the connection and its one write deadline | `heartbeat`, `touch`, `reply` | a silent peer is dropped, an attentive one is not |
| Client | `client.go` | connection, id counter, desync flag | `roundTrip`, `Request` (Lazy Pirate), `Recv`, `Close` | an answer belongs to its request; the client knows when it lost the stream |
| Frames | `internal/wire/wire.go` | none | `Write`, `ReadCounted` | frames do not interleave |
| Node, addresses, command | `node.go`, `internal/addr`, `cmd/zmqcat` | listener, closers, tunnel, the socket file, splices | `Serve`, `Join`, `Close`, `Hub.Close`, forwarding | a node is found at its path; `Close` ends the sessions; both ends of a splice end |
| Example clients, packaging | `examples/`, `nix/`, `.grok/` | | | |

How they interact. The hub calls the bus; each bus method is one critical section
under `Bus.mu`, except `Take` and `Reserve`, which release the mutex between
popping a job (or joining the waiters), receiving it from a channel, `Hold`, and
`Requeue` if `Hold` fails. Waiters get their jobs through channels of capacity one
from whoever puts, nacks, requeues or expires a job. A session's fields are under
`session.mu`, which is not held while the bus is called by the job handlers, so
that between any two critical sections of a handler every other goroutine may
run: another frame's goroutine, heartbeat, `Hub.Close`, and `session.close`
itself, which takes the lists in one critical section and then nacks and cancels
one by one. The sweeper goroutine expires leases once a second; `takeChan` and
`TryTake` also do, without saving. `persistLocked` rewrites the whole file
(temporary file, fsync, rename).

What is hard: the window between leaving the queue and `Hold`; a job handed to a
waiter whose context is done at that moment; the undo of a pop whose save failed
after expired leases were requeued in the same call; calls that still work on a
closed bus; a session that ends between two critical sections of a handler; a
lease that elapses under its holder; a frame that is two writes of goroutines without a
common lock, cut off by deadlines they share; a process that ends and is started
again, with a file of jobs and of a socket left behind. `PROJECT.json` lists these as hazards with
the line of each and the properties aimed at it.

## 2. The modules

### Mailbox

One mailbox of the bus and its file. Mailboxes of one bus share the mutex and the
file only, and no method touches two boxes except expiry and `Close`, which treat
each alike; one box is therefore enough.

| Variable | Code |
|---|---|
| `closed`, `q`, `waiters` | `Bus.closed`, `box.q`, `box.waiters` (a waiter is named by its goroutine: each has one channel at a time) |
| `inflight`, `dedup` | `Bus.inflight` (delivery id to job, `NoJob` where absent), `Bus.dedup` |
| `disk` | the queue and leases in the file |
| `pc`, `hand` | where a goroutine inside `Take`/`TryTake` + `Hold` + `Requeue` is, and the job in its channel or variable |
| `issued`, `elapsed` | ids `newID` has produced; deliveries whose `Expires` is past |
| `fate`, `restarts` | history: what became of each `Put` and job; how many crashes |

A job is one call of `Put` with its message; two jobs with the same id are a
request and its retry. Actions: `Put` (`PutMerges`, `PutHandsOff`, `PutQueues`,
`PutRefused`), `TakeChan`, `TryTake`, `Receive`, `TakeFails`, `Cancel`
(`cancelWaiter`), `Hold`, `HoldFails`, `Requeue`, `Ack`, `Nack`, `ExpireLeases`,
`Close`, `LeaseElapses` (time) and `Restart` (a crash, or the end of a closed
process, and `OpenPersistent`). `deliverLocked` over several jobs, as
`requeueExpiredLocked` does it in the arbitrary order of a map range, is
`QueueAfter`/`HandAfter`/`WaitersAfter` over `ExpiredJobs`. `Saved` and `SaveFails`
are the two results of `persistLocked`; a crash inside a save leaves the old or
the new file because of the rename, so it is a crash before or after the step.

Abstracted: bodies, names, senders, times; the checks of names and sizes; the
lease's length (a lease may elapse at any time after it starts).

### WorkQueue and MailboxImplements

`WorkQueue` is the abstract specification of a mailbox: for each job one of seven
lives (fresh, merged, ready, held, leased, acked, gone), and what may change them.
There is no queue, waiter, delivery id, index or file in it. `Accept`, `Merge`,
`Lease`, `PutBack`, `Finish`, `Shut` and `Recover` are what `Put`, `Hold`, `Requeue`,
`Ack`, `Close` and `OpenPersistent` mean for a job; `Circulate` is every call in which
jobs move between leases, queue and takers, the expiry of several leases inside a
`Take` that then pops included. A job of an open bus leaves it only by `Finish`, an
acknowledged one never changes again, `Merge` needs a job of the same id.
`MailboxImplements` maps a state of `Mailbox` to it: `LifeOf(j)` is where the job is
found, or, when it is nowhere, what became of it. `KeepsPromise` (`WQ!Spec`) and
`KeepsFairPromise` (with the end of every lease) are properties of the mailbox runs.

### Scoped

`Mailbox` with the ids as the hub makes them: `sids` is `Hub.sids`, `sid` the number of
each connection's session, `PutScoped` a put whose id is made of that number and
the client's. `RestartProcess` starts the numbers again, and keeps what the file has.

### Connection

One connection, from the session's goroutines to the client's one goroutine.

| Variable | Code |
|---|---|
| `open`, `gone` | not `session.closed`, with the hub's end; the client's end is closed |
| `toClient`, `toHub` | results of `Write` calls under way: a header, a body, or a part of one |
| `writer`, `limited` | where the reader's handler, a pump or job goroutine, and the heartbeat are in `reply`; whether the connection has a write deadline |
| `rd`, `idle`, `tick` | where `wire.Read` of `run` is; intervals since `lastSeen`; the ticker has fired |
| `pc`, `timed`, `desync` | where the client is in `roundTripTimeout` or `readSkipPing`; its deadline; `Client.desync` |
| `absent`, `torn` | history: the client was not reading; a write of the client failed part way |

A direction holds `Capacity` writes and then blocks, as a socket's buffers do. A
deadline may pass at any moment of what it bounds. An interval of the heartbeat
(`Tick`) begins only when nobody can move: intervals are seconds, steps are
microseconds. A frame counts for the interval in which it is read, so `idle` is one
more than the whole intervals in `idleLocked`. Bytes that are no frame make the
reader return at once or after some more (`ReadGarbage`, `TakeGarbage`), as the length
in a mistaken header decides.

### Node

Processes that serve (`Serves`) or join (`Joins`), each started once; a restart is
another process on the same path.

| Variable | Code |
|---|---|
| `life` | how far `Serve`, `Join` or `Close` is |
| `closers`, `listener`, `tailcat` | `Node.closers`; the listener and its accept loop; the tunnel's end |
| `file` | the process whose socket is found at each path |
| `sessions`, `copied` | `Hub.sessions`; what `Hub.Close` copied and has not closed |
| `at`, `conn`, `sess`, `gone` | a client's connection at a node, its session at the hub behind, and whether the client left |
| `late`, `shared` | history: sessions that began after the copy; nodes that met another on their path |

`addr.Listen` is two steps (`RemoveFile`, `Listen`); `Node.Close` runs the closers one
by one in reverse order, that of the hub in the three parts of `Hub.Close` and the
removal of the socket; Go's listener unlinks its path a second time. A client of a
serving node gets a session; one of a joining node a splice, whose other end does.
`SessionEnds` is any end of a session; it is fair only if the peer is lost. A
store that cannot be opened ends `newLocal` before the accept loop; `StartFails`
stands for it, with connections that may have been accepted meanwhile.

### Sessions

The hub over one mailbox; it extends `Mailbox` and joins each step of the bus with
what the hub changes. `open`, `tracked`, `repAck` are the session's fields,
`toNack` the ids `close` has copied and not nacked yet, `cancelled` the session's
context, `reader` where the frame handler of the session is and `work` where each
job goroutine is. `seen` and `taken` record the deliveries whose ids
the client was sent and those that were written to it for a take, which tells no id.
A client may send any frame at any time. An ack or nack frame names any id that some
client was ever sent (`Known`), also after that client's session ended: the handlers do
not look whose delivery it is (`hub.go:334-345`), a client keeps its ids when it
reconnects and may pass them on, and an id that nobody was sent is 96 random bits. So
the lease of one session may be settled by another, whose own list is then cleaned while
the holder's keeps the id. The hub's bus is in memory here (`Durable = FALSE`): no
session survives a restart, so a crash only concerns `Mailbox`.

`reply` is one step: it succeeds on an open session, and may fail on one that is
open (the peer is gone; it then closes the session) or closed.

### Topics

`Bus.Pub`, `Bus.Sub`, cancel and `Close` with the last-value cache, and the parts
of the sessions that use them: the sub handler in its four steps (read, `Sub`,
append to `session.unsub`, reply and start of the pump), the unsub handler, the
pump, `close` with its one-by-one cancels. Messages are numbered in the order in
which `Pub` takes the mutex; topics and prefixes are sequences of letters and a
subscription matches as `matchPrefix` says.

### ReqRep

Requests and replies over one service: `Client.Request` with its retries, the req
and rep handlers of the hub, `Hub.pending`, and workers that loop over `Ready` and
`Rep`.

| Variable | Code |
|---|---|
| `open` | not `session.closed`, of clients and workers |
| `cur`, `desync` | the `Request` in progress of a client's one goroutine; `Client.desync` |
| `inbox`, `answers` | req frames, and rep and err frames, on a connection |
| `hpc` | where the req handler of a session is: the frame is read, the entry set, `Put` done, the entry dropped |
| `pending` | `Hub.pending`: no entry, an entry, or one past its `expires` |
| `queued`, `job`, `lease` | copies of a request in the queue, in a worker's hands, leased |
| `wpc`, `found` | where a worker and its rep handler are; whether the handler found an entry |
| `clearing` | sessions whose `close` has not reached `clearPending` |
| `used`, `faults` | history and bound: requests begun, failures so far |

`Mailbox` and `Sessions` have the queue and the leases in detail. Here they are
reduced to what a requester can tell: how many jobs of a request are queued, who
has one and whether the bus holds a lease of it. What dedup looks at, `Indexed`, is
that a job is queued or leased, which `DedupExact` of `Mailbox` justifies. The order of
the queue, the order of waiters and failing saves are left out; any queued job and
any waiter may be chosen. The number of attempts is left open: a client may retry
or abandon at any deadline. A retry is sent after the hub has read the attempt
before (the frames of a connection are handled in order, so a second unread
copy of a frame would do what the first does). A deadline inside a frame sets `desync`
and ends the call; one between frames does not.

### MC modules and proofs

`MCMailbox`, `MCScoped`, `MCSessions`, `MCTopics`, `MCReqRep`, `MCConnection` and `MCNode` give the constants values; the cfg files
choose among them. The proofs about `Mailbox` are in `MailboxProofs` (types, waiters, where
jobs are, the order of the queue) and `PromiseProofs` (the index of ids, `WorkQueue`);
`ScopedProofs`, `SessionsProofs`, `TopicsProofs`, `NodeProofs`, `ConnectionProofs` and
`ReqRepProofs` are about the module of that name. Section 5 describes them.
Definitions marked "mutant" in a module are variants of the definition after them
with a plausible bug; no specification uses them, they serve to see that each
property notices such a bug.

## 3. The runs

| Run | Instance | Shows |
|---|---|---|
| `MCMailbox` | 3 jobs (one a retry), 3 takers, 3 deliveries, queue bound 1, durable, 1 restart; 21 000 states | all safety properties of a mailbox on a disk that works; it implements `WorkQueue` |
| `MCMailboxFaults` | 2 jobs of one id, 2 takers, 2 deliveries, saves may fail, 1 restart, fair; 11 000 states | an exact index and no return of what was acknowledged under failing saves; hands empty; it implements `WorkQueue` with its liveness |
| `MCOneSession` | 1 session, 2 job goroutines, 1 job, 2 deliveries, fair; 595 000 states | the session's bookkeeping; when a take returns; a dead worker gives back |
| `MCTwoSessions` | 2 sessions with a goroutine each for ready and reserve, 2 jobs, 2 deliveries; 3 000 000 states after symmetry | who may end a lease, with frames that name the other session's deliveries; what a rep settles |
| `MCTopics` | 1 session with 2 subscriptions, 2 topics, 3 publications, cache 1, channels of 2, fair; 280 000 states | order within topics, replay without a gap; channels are closed once, subscriptions do not outlive their session, pumps end |
| `MCConnection` | a connection that holds one write per direction, the default liveness of 3, fair; 1 730 000 states | the client knows where it is in the stream; the hub takes nothing behind a torn frame; who is dropped and who is not |
| `MCNode` | 2 serving processes on one path, 1 joining the first from another, a client on each path, fair; 437 000 states | a lone node is found, `Close` ends the sessions, both ends learn |
| `MCReqRep` | 1 client with 2 requests, 2 workers, queue bound 1, connection of 1 frame, 1 failure, fair; 1 090 000 states | entries of the pending table have a job, replies reach who waits, retries recover |

The other four runs expect a violation, see section 4.

Properties, by the question they answer:

- Is a job in exactly one place? `SinglePlace` (at most one) and, while the bus is
  open, `NoJobLost` (at least one). Is it nowhere before it was accepted and after
  its ack, in the file too? `OnlyUnackedInside`. What does a crash keep?
  `QueuedOrLeasedIsSaved`.
- Does deduplication do what it says? `DedupExact` (the index counts what is
  queued or leased); `KeepsPromise` includes that a put is swallowed only beside a job
  of its id that is not acknowledged.
- Order and bounds: `QueueKeepsOrder`, `OldestWaiterFirst`, `PutNeverOverfills`.
- Can a send on a waiter's channel block or panic, does anyone wait unlisted?
  `WaitersWait`. Can a job lie in the queue beside a waiting taker?
  `StrandedOnlyByCancel`: only after a cancelled `Take` (section 4).
- Is all of it what a mailbox promises? `KeepsPromise`, `KeepsFairPromise`.
- Sessions: `LeaseWatched` (a lease that no goroutine is still about to track is in
  one list of one session, from which its end or `close` nacks it), `ClaimExclusive` (never
  both ack and nack), `HolderKeepsLease` (the lease of an open holder ends by its own
  rep, by time, or by a frame that names it, whoever sends that; by nothing else another
  session does), `RepNamesLease` (a rep settles the job of its message, once),
  `TakenReturnsOnlyByClose` (what was written for a take leaves the bus, but for a close
  before the claim).
- Topics: `ListedChannelsOpen`, `EndedSessionUnsubscribed`, `TopicOrder`,
  `LastValueReaches`.
- Requests: `PendingHasJob` (an entry never waits for nobody, whatever a retry is
  merged with), `WaiterRegistered` (without failures, a waiting client has an entry
  or an answer), `RetryRecovers` (a client that retries is answered).
- Connections: `AtBoundary` (a client that is not marked is at the start of a frame,
  through deadlines, torn and interleaved frames), `NothingAfterTear` (the hub takes no
  call that follows a torn one), `AttentiveSpared` and `SilentDropped` (the two sides
  of the heartbeat).
- Nodes: `AloneServes` (the path of a node that met no other is its own, whatever
  earlier processes left there), `CloseEndsSessions`, `PeerLearns`.
- Progress: `KeepsFairPromise` (every lease ends), `HandsEmpty`, `DeadWorkerGivesBack`, `PumpsEnd`,
  `RetryRecovers`, `SilentDropped`, `PeerLearns`.

Bounds. The number of delivery ids (`Deliveries`) bounds how often jobs are
delivered; `DeliveryLeft` keeps a taker from starting a call that could find none
left. `MaxRestarts` bounds the crashes and `MaxPubs` the publications. Two
deliveries of a job suffice for a redelivery to race with the end of the first;
three jobs at a queue bound of one make a full queue, a retry, and jobs that come
back to a full queue; three takers make two waiters beside a job in hand. Where
symmetry is used, takers and delivery ids are interchangeable in the model and the
properties checked are safety properties.

In `MCTwoSessions` each session can hold a delivery of its own and name the other's,
before and after a redelivery. `LeasedWork` keeps its states few: no session sends a
take, and the bus is not closed under them; both are in `MCOneSession`, and in the
theorems, which have no bounds. Besides the delivery ids, its two sessions with their
goroutines, and its two jobs with their message ids, are interchangeable. One session
would not tell apart who settles a lease, and one job would not show a rep that settles
the job of another message.

In `ReqRep`, `Capacity` is how many frames a connection holds for a client that
does not read before the hub's write fails, and `MaxFaults` how many sessions end,
leases lapse and entries elapse. Two requests of one client, the second after the
first was answered or abandoned, give a full queue, an answer and a job that outlive
their request, and an entry expired by the req of another request. Two clients
are beyond TLC: the instance exceeds four million states.

In `Connection`, `Capacity` 1 makes every second write block until the other end
reads, so header and body are always torn apart; the safety properties also hold at 2
(11 million states, too many for a run). `Live` is the default of the code: with 1
the heartbeat would close before it pings. Calls, pings and deadlines are unbounded.
In `Node`, two serving processes on one path make a crash with a restart, a second
process that takes the path from a live one, and the close of the first behind it; a
direct and a spliced client are two sessions of one hub, one of which may be late.

`CHECK_DEADLOCK FALSE` is in every cfg: a closed bus with no leases has no next
step, and neither has one whose delivery ids are used up; a closed connection stays
closed; processes that have ended do nothing.

Fairness. Weak fairness only, of what the Go scheduler and the clock do by
themselves: a goroutine that can run runs (`TakerProceeds`, `JobProceeds`,
`HandleProceeds`, handlers and pumps in `Topics`), the ticker of the sweeper fires
(`ExpireLeases`), a lease's time passes in `Mailbox` (`LeaseElapses`), `close`
nacks and cancels all it copied, the goroutine waiting on the session's context
closes the session, a read on a closed connection fails. No fairness for anything
a client does, for the disk, for a context of `Take` being cancelled in `Mailbox`,
nor, in `Sessions`, for a lease to elapse, so that `DeadWorkerGivesBack` is about
the nack of `close` and not about the sweeper. `ReqRep` is the exception: that a
retry recovers is a promise to a client that goes on retrying and reading, in a
service with a worker that loops, so these are fair there (`Retry`, `ReadFrame`,
`WorkerStep`), with the nack or expiry of a dead worker's lease (`LeaseReturns`).
Nothing makes a client begin or abandon a request, a connection break or an entry
elapse. In `Connection` the goroutines of the hub are fair, a client inside a call
goes on with it, and time passes; nothing makes it call. In `Node` accepted
connections are registered, sessions whose peer is lost end and splices whose copier
returned end; nobody has to close a node, and nothing is assumed of a dial through
Tailcat or of news that a broken tunnel cannot bring. That a session behind a
broken tunnel ends is the work of the heartbeat, and so assumes that it is enabled (the
default).

## 4. Code and documentation

| Run | What the repository says | What the code does |
|---|---|---|
| `MCClosedFile` | "jobs survive a restart" (`README.md:82`) | `Close` empties the queues in memory only; `Nack`, `Ack` and a cancelled `Take` work on the closed bus and save, which writes the empty queues to the file. `Hub.Close` closes the bus and then the sessions, whose `close` nacks |
| `MCAnswer` | "`req` / `rep` with a correlation `id`" (`README.md:107`) | `roundTripTimeout` returns the first frame that is no ping, whatever its id; the late answer of an abandoned `Request` is what the next one returns |
| `MCScoped` | "two clients that pick the same id cannot deduplicate one another; ids are only compared within one connection" (`README.md:178`) | `h.sids` starts at 0 in every process, the ids in a durable bus outlive it: after a restart a put is merged with a job of another connection that had the same number |
| `MCFrames` | "magic "ZMQC" \| uint32be length \| JSON" (`README.md:168`) | `wire.Write` makes two writes and the goroutines of a session call it without a common lock: the header of one frame is followed by that of another |

Other places where the models had to be told an exception, or a property says what
remains of a promise:

- `README.md:178`, "`take` and `reserve` block until a message is available":
  `cancelWaiter` puts its job in front of the queue and wakes no other waiter, so that
  one blocks beside a job. `StrandedOnlyByCancel` says that nothing else does this;
  `RetryRecovers` exempts it, as every retry is then merged with that job.
- `README.md:198`, "persist queued and in-flight messages": a job that `Put` hands to a
  waiter is in no file until `Hold`, hence the name `QueuedOrLeasedIsSaved`.
- `hub.go:173`, "False means close() already copied inflight and will Nack": an id
  tracked after `close` copied the list is nacked by nobody and waits for its lease.
  `LeaseWatched` finds it in the list of the closed session; `DeadWorkerGivesBack` is
  about deliveries that were sent, which this one never is.
- `README.md:108`, "death after ~3 missed": `reply` clears the deadline of the
  connection, also of a heartbeat in the middle of its write (`hub.go:557-560`). A peer that
  reads nothing is then not dropped until some other goroutine writes;
  `SilentDropped` exempts that state (`HeartLost`), and is violated without.
- `client.go:249`: a write that fails part way returns an error and leaves `desync`
  unset, although the stream to the hub is torn. `NothingAfterTear` shows that the hub
  takes nothing wrong from it, only that the session is lost.
- `README.md:105`, "slow subscribers drop that delivery only": a subscriber that reads nothing
  also blocks the pump's write, and the elapsed deadline closes the session.
- `node.go:76-88`: the tunnel is closed before the hub's sessions, so that nothing
  may tell the clients behind it (`PeerLearns` exempts them); a node that closes removes
  the socket at its path twice, also that of a successor (`AloneServes` is about nodes
  that met no other); a connection accepted during `Hub.Close` is served afterwards
  (`CloseEndsSessions` exempts it).

- `README.md:200`, "`take` is at-most-once: it acknowledges as soon as the frame is
  written": the ack needs `claimInflight` after the write (`hub.go:453-465`). A `close` that
  runs between the two, from the heartbeat or `Hub.Close`, copies the delivery, the claim
  fails, and the nack brings a job back that the client already has: it is delivered
  twice. The code contradicts the sentence. `TakenReturnsOnlyByClose` says that nothing
  but this, or a lease that elapses in between, brings such a job back; without its
  disjunct `d \in toNack[s]` TLC finds the redelivery in `MCOneSession`, in eleven states.
- `README.md:200`, "the job stays leased until acknowledged": also by somebody else. An ack or
  nack is obeyed on any session (`hub.go:334-345`; "mailbox-level identity/ACLs are
  not yet implemented", `README.md:202`). `HolderKeepsLease` allows it in its disjunct
  `SettledByFrame`, which names whoever sent the frame.

Two more that no document denies. A retry whose `Put` is refused removes the entry
under its id, although the first attempt registered it and a worker may be at its job
(`hub.go:361-366`); the requester has the error and has to retry again, which is why
`WaiterRegistered` holds. An elapsed entry, also one set by a handler whose session
ended before, stays in `Hub.pending` until some req is handled.

Jobs that come back (nack, expiry, requeue, cancelled take) are queued beyond the
bound of `NewWithLimits`; `PutNeverOverfills` states the bound that does hold.

## 5. The proofs

The theorems hold for every value of the constants: any number of jobs, takers,
deliveries, sessions, subscriptions, nodes, clients and workers, any limits, with or
without a file, with or without failing saves. They assume what the modules name as
assumptions (a null value is not a job, a map of ids is a function, delivery ids are finitely
many, limits are numbers) and nothing else, but for one hypothesis given below. TLC
evaluates these assumptions in every run. Every invariant and every action
property of the passing runs is proved, and the refinement `KeepsPromise`.

Each proof has the same shape: an inductive invariant, checked by TLC on the run's instance
before it was proved; lemmas on what the operators of the model return, by position for
sequences and by bijections for counts; one lemma per conjunct or per actor with a case for
each action; and a temporal step that puts them together.

### Mailbox

| Theorem | Property | Why it is not inductive alone |
|---|---|---|
| `MailboxProofs!TypeCorrect` | `TypeOK` | `Hold` and `Requeue` store `hand[t]` as a job: `HandsFull` says that there is one |
| `MailboxProofs!WaitersAgree` | `WaitersWait` | it is, with the types |
| `MailboxProofs!OldestServed` | `OldestWaiterFirst` | from `WaitersWait`: who is listed has no job, so the first hands that fill are the front of the list |
| `MailboxProofs!EachJobOnce` | `SinglePlace` | a put needs that a fresh job is nowhere, which is `OnlyUnackedInside` |
| `MailboxProofs!AckedGone` | `OnlyUnackedInside` | an ack needs that the job was in one place, which is `SinglePlace`; a bus without a file needs `FileIfDurable` |
| `MailboxProofs!NoneLost` | `NoJobLost` | a hand-off overwrites nobody's job because of `WaitersWait`; a lease overwrites none because ids are new (`LeasesIssued`) |
| `MailboxProofs!MemorySaved` | `QueuedOrLeasedIsSaved` | it is: a job that enters queue or leases does so in a step that saves |
| `MailboxProofs!NoneStranded` | `StrandedOnlyByCancel` | `deliverLocked` leaves a waiter only if it handed out every job |
| `MailboxProofs!OverfilledByReturns` | `PutNeverOverfills` | what moves was located, what is located is not fresh |
| `MailboxProofs!OrderOfQueue` | `QueueKeepsOrder` | every step but a put shifts the queue by n >= -1 places (`Moved`, `QueueSteps`); positions are unique by `SinglePlace` |
| `PromiseProofs!IndexExact` | `DedupExact` | counting: copies of a concatenation add up, a reversal keeps them, the leases that expire count as the sequence of their jobs does in any order |
| `PromiseProofs!PromiseKept` | `KeepsPromise` | below |

`PlacementInv` (types, `HandsFull`, `SinglePlace`, `OnlyUnackedInside`, `FileIfDurable`)
carries most of it. The proof separates what moves from who moves it: `DeliverOnce`
says that `deliverLocked` puts each of some jobs that are nowhere else in one place,
`PopOnce` the same of a pop, `ExpiredOnce` that expired leases give up different jobs;
`MoveStep` concludes for every step that only moves jobs, whether its save succeeds or not.

`PromiseKept` is the refinement of `WorkQueue` under the mapping of `MailboxImplements`:
`PromiseInit` maps the initial states, `PromiseStep` every step to one of `WorkQueue` or to
none. `LifeIs` turns the nested mapping into one clause per life, which needs that no job is
in two places; a step in which jobs only change places is `Circulate` (`Circulates`), which
needs that none is lost; a merged put needs a living job of its id, which is what an
exact index says; a closed bus needs that it gains no waiter (`ClosedAlone`); a restart turns
every job that is not in the file into one that is gone. `KeepsFairPromise` adds liveness to
it and is checked by TLC only.

### Scoped

`OwnInOneLife` and `OwnInMemory` are the part of `README.md:178` that holds: a put is merged
only beside a job of its own connection as long as the process lives, so in every
behaviour of a bus without a file (`MergedWithOwn`). `MCScoped` shows that a restart of a
durable bus breaks it. Both have the hypothesis that each job is put on a connection
(`ConnOf \in [Jobs -> Conns]`). `Numbered` says that open sessions have different
numbers, none above `Hub.sids`; `Apart`, that the number in the id of a job that was put
is one that no connection but the job's has or will have. With `DedupExact` an id that is
indexed is that of a queued or leased job, which was put (`OnlyUnackedInside`); its number
is that of the session which puts now, and so is its connection. `ScopedIsMailbox`
(`ScopedSpec => Spec`) is why both are at hand.

### Sessions

`SessionsProofs!HubIsMailbox` is `SessionsSpec => Spec`: each step of the hub is a step of the
mailbox or leaves it alone, so that all of the above holds under the hub. It needs the
invariant, as a goroutine calls `Hold`, `Ack` and `Requeue` with what it remembers from
earlier steps. With `PromiseKept` it gives `HubKeepsPromise`: a job lives the life of
`WorkQueue` whatever the sessions do. `HubInv` is, besides what holds of the bus:

- `Steady`: types; the step of a goroutine fits its taker's, its delivery and its kind of frame.
- `Owned`: a delivery is in the bookkeeping of one session only: its lists, its
  goroutines, what its client was sent. A frame that names another session's delivery
  changes the bus and takes the id from no list but the sender's, which never had it.
- `Local`: in a session a delivery is in one role. A goroutine or reader that is about
  to list or to ack one is not also on a list, no two goroutines have the same, and what
  was written for a take is neither told to a client nor awaiting a rep.
- `Watched`: every lease is on a list, or in the hands of somebody who will list or settle it.
- `WorkJob`, `Reps`: the delivery of a goroutine leases its job or nothing any more; an
  entry of `repAck` is under the message of the job it leases, and no reader has it yet.

From it follow `SessionTypes` (`SessionsTypeOK`), `LeasesWatched` (`LeaseWatched`),
`ClaimsExclusive` (`ClaimExclusive`), `RepsNameLeases` (`RepNamesLease`) and, for
steps, `TakesReturnOnlyByClose` (`TakenReturnsOnlyByClose`) and `HoldersKeepLeases`
(`HolderKeepsLease`). The last two rest on `LeaseFates`, which lists who can end a
lease: time, a frame that names it, a rep or a take that claimed it, and a close that
copied it. `Owned` makes the proof modular: a step changes
one session (`Alone`), and the invariant of the others stands.

### Topics

`TypeCorrect` (`TypeOK`, with a finite cache). `Registry` is the invariant behind
`NoClosedChannelListed` (`ListedChannelsOpen`) and `NoneLeftBehind`
(`EndedSessionUnsubscribed`): who is listed is in the hands of its sub handler, in the
unsub list of its session or in the copy of `close` (`Kept`), and what `Bus.Sub` has not made
is nowhere (`Unmade`). `OrderOfTopics` (`TopicOrder`) needs that channels and cache have only
messages of the past (`SentBefore`, `CacheOf`). `LastValueSeen` (`LastValueReaches`) is
inductive with these.

### Connection

`Balanced` is the invariant of the stream to the client: there is a count along the unread
chunks, of headers whose bodies are still to come, that never falls below zero and
ends at or above the number of goroutines that have written a header and not its body. It
is stated with a function of positions, not with a recursive count. From it,
`ClientAtBoundary` (`AtBoundary`). `Tear` says that behind a torn frame a call comes behind
bytes that are no frame, of which `NoCallAfterTear` (`NothingAfterTear`) is the consequence;
`Aligned` is the same stream when nothing was torn. `Chased` says that an attentive
peer is silent for at most two intervals, in the second of which a ping or its answer is
under way: `AttentivePeerSpared` (`AttentiveSpared`). `ConnectionTypes` (`TypeOK`).

`AttentivePeerSpared` has the hypothesis `Live >= 2`. With `Liveness` 1 the property is
false of the code: `heartbeat` compares the idle time with the time of death before
it looks whether a ping is due, and at a liveness of 1 both are the same interval. The default is 3.

### Node

`NodeInv`: what the list of closers may be at each stage of a process (`Shape`); that two
live processes on a path have met (`Apart`); what a node that met nobody finds at its path
(`FileOf`); that the hub's tables have sessions that began (`Begun`); and that an open
session is in the hub's table, in `Hub.Close`'s copy, or came after it (`Tracked`). Theorems:
`NodeTypes` (`TypeOK`), `FoundAlone` (`AloneServes`), `ClosedForAll` (`CloseEndsSessions`).

### ReqRep

`TableInv`. `EntriesHaveJobs` (`PendingHasJob`) needs a stronger statement than the
property: a worker that has lost its lease does not count as having the job, as its
session may end before its rep (`Kept`, `Covered`), and leases are those of workers at work
(`Placed`). `WaitersRegistered` (`WaiterRegistered`) needs that what a client sends, waits for and
has handled is its own (`Belongs`), that the last attempt it wrote is the one it waits for
(`Latest`), and that without failures sessions are open and no entry is old (`Calm`).
`ReqRepTypes` (`ReqRepTypeOK`).

### Only model-checked

Liveness, which TLAPS does not reach here: `KeepsFairPromise`, `HandsEmpty`,
`DeadWorkerGivesBack`, `PumpsEnd`, `SilentDropped`, `PeerLearns`, `RetryRecovers`. The
properties of section 4 are false as they stand; what holds of `MergedWithOwn` is proved.

## 6. What is not modelled

Parsing of addresses and flags, and the commands that are one client call
(`internal/addr` but for `Listen`, `cmd/zmqcat` but for `serve` and `join`): no state,
nothing concurrent. What the client's calls make of the frame they got. The
content of frames: JSON, versions and sizes are reduced to whether bytes are a
frame. Forwarded ports: the same splice as that of a joining node between other
ends. Tailcat itself is external: a tunnel is there or not. A file that cannot be
read or parsed ends `OpenPersistent` with an error and is left out. Example clients and
packaging.

Two compositions are argued and not checked. `ReqRep` reduces the queue to counts per
request; it could be stated over `WorkQueue`, but copies of a request have no identity
there, and two clients with copies told apart are out of reach of TLC. `Sessions` and
`ReqRep` take `reply` as one step, which `Connection` opens up: a frame that is torn or
interleaved ends the session of a reader, which both allow at any time.

## 7. The plan

The safety of the modelled components is proved. What is left to prove, most useful first:

1. for the liveness properties, the safety half of their arguments: which step is
   possible in each state that has to be left, stated without ENABLED;
2. for the other properties of section 4 that are false, the condition under which
   they hold, as `OwnInMemory` does for `MergedWithOwn`.
