-------------------------------- MODULE Node ---------------------------------
(***************************************************************************)
(* The processes of a bus: nodes that serve a hub and nodes that join one  *)
(* through Tailcat, the unix sockets at which local clients find them,     *)
(* what becomes of a client's connection on its way to a session, and how  *)
(* nodes are closed, crash and are started again on the same socket path.  *)
(***************************************************************************)
EXTENDS Sequences, SequencesExt

CONSTANTS
    Serves,   \* processes that call Serve, each once
    Joins,    \* processes that call Join, each once
    ServerOf, \* the serving node whose token each joining node has
    Paths,    \* socket paths
    PathOf,   \* the Config.Listen of each node
    Clients,  \* local clients, each with one connection
    Target,   \* the path each client dials
    NoNode    \* stands for no node

Nodes == Serves \cup Joins

ASSUME NodeAssumption ==
    /\ NoNode \notin Nodes /\ Serves \cap Joins = {}
    /\ ServerOf \in [Joins -> Serves] /\ PathOf \in [Nodes -> Paths]
    /\ Target \in [Clients -> Paths]

VARIABLES
    life,       \* how far each process is
    closers,    \* Node.closers
    listener,   \* the node's listener: open, with an accept loop, or none
    tailcat,    \* its tailcat server or client is open
    file,       \* the node whose socket is found at a path
    sessions,   \* Hub.sessions, named by the client at the other end
    copied,     \* the sessions Hub.Close has copied and not closed yet
    at,         \* the node whose socket a client is connected to
    conn,       \* the connection of the client, at that node
    sess,       \* its session at a hub, directly or through a splice
    gone,       \* clients that closed their end
    late,       \* history: sessions that began after Hub.Close made its copy
    shared      \* history: nodes that met another one on their path

nodeVars == <<life, closers, listener, tailcat>>
hubVars == <<sessions, copied, sess, late>>
connVars == <<at, conn, gone>>
vars == <<nodeVars, file, hubVars, connVars, shared>>

Lives == {"new",
          "bind",    \* addr.Listen removed the file, net.Listen comes next
          "start",   \* the listener is open; Serve or Join goes on
          "up",      \* Serve or Join returned a node
          "closing", \* in Node.Close
          "copied",  \* in Hub.Close of Node.Close, after the copy
          "closed",  \* Close returned
          "failed",  \* addr.Listen returned an error
          "exited"}  \* the process crashed or ended

Conns == {"none",
          "queued",   \* connected, in the listener's backlog
          "accepted", \* by a serving node
          "dial",     \* accepted by a joining node, spliceDial dials
          "spliced",
          "closed"}

Alive(n) == life[n] \notin {"new", "closed", "failed", "exited"}

Direct(c) == at[c] \in Serves
HubOf(c) == IF Direct(c) THEN at[c] ELSE ServerOf[at[c]]

\* The tunnel from the joining node of c to the hub is there.
Tunnel(c) == tailcat[at[c]] /\ tailcat[ServerOf[at[c]]]

Init ==
    /\ life = [n \in Nodes |-> "new"]
    /\ closers = [n \in Nodes |-> <<>>]
    /\ listener = [n \in Nodes |-> "none"]
    /\ tailcat = [n \in Nodes |-> FALSE]
    /\ file = [p \in Paths |-> NoNode]
    /\ sessions = [n \in Serves |-> {}]
    /\ copied = [n \in Serves |-> {}]
    /\ at = [c \in Clients |-> NoNode]
    /\ conn = [c \in Clients |-> "none"]
    /\ sess = [c \in Clients |-> "none"]
    /\ gone = {} /\ late = {} /\ shared = {}

\* the closer that newLocal or Join adds beside that of the listener
Second(n) == IF n \in Serves THEN "hub" ELSE "socket"

Becomes(n, state) == life' = [life EXCEPT ![n] = state]

-----------------------------------------------------------------------------
(* Serve and Join.                                                         *)

\* other processes that are alive on the path of n
Meets(n) == {m \in Nodes \ {n} : PathOf[m] = PathOf[n] /\ Alive(m)}

Arrives(n) ==
    /\ life[n] = "new" /\ Becomes(n, "bind")
    /\ shared' = IF Meets(n) = {} THEN shared ELSE shared \cup Meets(n) \cup {n}
    /\ UNCHANGED <<closers, listener, tailcat, hubVars, connVars>>

ListenKeepsFile(n) == Arrives(n) /\ UNCHANGED file    \* mutant: no os.Remove

(* addr.Listen removes whatever lies at the path, ...                      *)
RemoveFile(n) == Arrives(n) /\ file' = [file EXCEPT ![PathOf[n]] = NoNode]

(* ... and net.Listen fails if there is something again.                   *)
Listen(n) ==
    /\ life[n] = "bind"
    /\ \/ /\ file[PathOf[n]] = NoNode
          /\ file' = [file EXCEPT ![PathOf[n]] = n]
          /\ listener' = [listener EXCEPT ![n] =
                             IF n \in Serves THEN "served" ELSE "open"]
          /\ closers' = [closers EXCEPT ![n] = <<"listener", Second(n)>>]
          /\ Becomes(n, "start")
       \/ /\ file[PathOf[n]] # NoNode
          /\ Becomes(n, "failed")
          /\ UNCHANGED <<file, listener, closers>>
    /\ UNCHANGED <<tailcat, hubVars, connVars, shared>>

(* The tailcat server starts, or is not wanted, or the client finds its    *)
(* server.                                                                 *)
Start(n) ==
    /\ life[n] = "start" /\ Becomes(n, "up")
    /\ \/ /\ n \in Joins => tailcat[ServerOf[n]]
          /\ tailcat' = [tailcat EXCEPT ![n] = TRUE]
          /\ closers' = [closers EXCEPT ![n] = Append(@, "tailcat")]
       \/ n \in Serves /\ UNCHANGED <<tailcat, closers>>     \* LocalOnly
    /\ listener' = [listener EXCEPT ![n] = "served"]
    /\ UNCHANGED <<file, hubVars, connVars, shared>>

(* It fails and what there is so far is closed.                            *)
StartFails(n) ==
    /\ life[n] = "start" /\ Becomes(n, "closing")
    /\ UNCHANGED <<closers, listener, tailcat, file, hubVars, connVars, shared>>

-----------------------------------------------------------------------------
(* A client's connection.                                                  *)

Connect(c) ==
    /\ conn[c] = "none"
    /\ LET n == file[Target[c]]
       IN  n # NoNode /\ listener[n] # "none" /\ at' = [at EXCEPT ![c] = n]
    /\ conn' = [conn EXCEPT ![c] = "queued"]
    /\ UNCHANGED <<nodeVars, file, hubVars, gone, shared>>

(* acceptHub and acceptProxy.                                              *)
Accept(c) ==
    /\ conn[c] = "queued" /\ listener[at[c]] = "served"
    /\ conn' = [conn EXCEPT ![c] = IF Direct(c) THEN "accepted" ELSE "dial"]
    /\ sess' = IF Direct(c) THEN [sess EXCEPT ![c] = "arrived"] ELSE sess
    /\ UNCHANGED <<nodeVars, file, sessions, copied, late, at, gone, shared>>

(* spliceDial.                                                             *)
DialRemote(c) ==
    /\ conn[c] = "dial"
    /\ \/ /\ Tunnel(c)
          /\ conn' = [conn EXCEPT ![c] = "spliced"]
          /\ sess' = [sess EXCEPT ![c] = "arrived"]
       \/ conn' = [conn EXCEPT ![c] = "closed"] /\ UNCHANGED sess
    /\ UNCHANGED <<nodeVars, file, sessions, copied, late, at, gone, shared>>

\* Hub.Close has copied the table.
Copied(n) == life[n] = "copied" \/ ~Contains(closers[n], "hub")

RegisterUnlisted(c) ==                     \* mutant: not in the hub's table
    /\ sess[c] = "arrived" /\ sess' = [sess EXCEPT ![c] = "open"]
    /\ late' = IF Copied(HubOf(c)) THEN late \cup {c} ELSE late
    /\ UNCHANGED <<nodeVars, file, sessions, copied, connVars, shared>>

(* ServeConn adds the session to the table, that of a closed hub too.      *)
Register(c) ==
    /\ sess[c] = "arrived" /\ sess' = [sess EXCEPT ![c] = "open"]
    /\ sessions' = [sessions EXCEPT ![HubOf(c)] = @ \cup {c}]
    /\ late' = IF Copied(HubOf(c)) THEN late \cup {c} ELSE late
    /\ UNCHANGED <<nodeVars, file, copied, connVars, shared>>

ClientLeaves(c) ==
    /\ at[c] # NoNode /\ conn[c] # "closed" /\ c \notin gone
    /\ gone' = gone \cup {c}
    /\ UNCHANGED <<nodeVars, file, hubVars, at, conn, shared>>

\* session.close of the sessions of C
Closes(C) ==
    /\ sess' = [c \in Clients |-> IF c \in C THEN "closed" ELSE sess[c]]
    /\ conn' = [c \in Clients |-> IF c \in C /\ Direct(c) THEN "closed" ELSE conn[c]]

(* A session ends, for a reason of its own or because the other end is     *)
(* closed or unreachable, which a read or the heartbeat finds out.         *)
PeerLost(c) == IF Direct(c) THEN c \in gone ELSE conn[c] = "closed" \/ ~Tunnel(c)

SessionEnds(c) ==
    /\ sess[c] = "open" /\ Closes({c})
    /\ sessions' = [sessions EXCEPT ![HubOf(c)] = @ \ {c}]
    /\ UNCHANGED <<nodeVars, file, copied, late, at, gone, shared>>

\* One copier of the splice returns; without a tunnel nothing tells it to.
RemoteEnds(c) == sess[c] = "closed" /\ Tunnel(c)
CopierEnds(c) == c \in gone \/ RemoteEnds(c)

SpliceWaitsBoth(c) ==                      \* mutant: <-errc twice
    /\ conn[c] = "spliced" /\ c \in gone /\ RemoteEnds(c)
    /\ conn' = [conn EXCEPT ![c] = "closed"]
    /\ UNCHANGED <<nodeVars, file, hubVars, at, gone, shared>>

(* splice returns with the first of its copiers, and spliceDial closes     *)
(* both ends.                                                              *)
SpliceEnds(c) ==
    /\ conn[c] = "spliced" /\ CopierEnds(c)
    /\ conn' = [conn EXCEPT ![c] = "closed"]
    /\ UNCHANGED <<nodeVars, file, hubVars, at, gone, shared>>

-----------------------------------------------------------------------------
(* Node.Close, on a signal or by the program, and the end of a process.    *)

CloseBegins(n) ==
    /\ life[n] = "up" /\ Becomes(n, "closing")
    /\ UNCHANGED <<closers, listener, tailcat, file, hubVars, connVars, shared>>

\* the closers run in reverse order
Turn(n, closer) == life[n] = "closing" /\ closers[n] # <<>> /\ Last(closers[n]) = closer
DoneFirst(n) == closers' = [closers EXCEPT ![n] = Tail(@)]  \* mutant: the first
Done(n) == closers' = [closers EXCEPT ![n] = Front(@)]
Unlink(n) == file' = [file EXCEPT ![PathOf[n]] = NoNode]

CloseTailcat(n) ==
    /\ Turn(n, "tailcat") /\ Done(n)
    /\ tailcat' = [tailcat EXCEPT ![n] = FALSE]
    /\ UNCHANGED <<life, listener, file, hubVars, connVars, shared>>

(* Hub.Close copies and empties the table under the hub's mutex, ...       *)
CopySessions(n) ==
    /\ Turn(n, "hub") /\ Becomes(n, "copied")
    /\ copied' = [copied EXCEPT ![n] = sessions[n]]
    /\ sessions' = [sessions EXCEPT ![n] = {}]
    /\ UNCHANGED <<closers, listener, tailcat, file, sess, late, connVars, shared>>

(* ... closes the sessions one by one ...                                  *)
CloseCopied(n) ==
    /\ life[n] = "copied"
    /\ \E c \in copied[n] : Closes({c}) /\ copied' = [copied EXCEPT ![n] = @ \ {c}]
    /\ UNCHANGED <<nodeVars, file, sessions, late, at, gone, shared>>

(* ... and its closer removes what lies at the path, whoever's it is.      *)
HubClosed(n) ==
    /\ life[n] = "copied" /\ copied[n] = {} /\ Becomes(n, "closing")
    /\ Done(n) /\ Unlink(n)
    /\ UNCHANGED <<listener, tailcat, hubVars, connVars, shared>>

(* The closer of a joining node only does that.                            *)
CloseSocket(n) ==
    /\ Turn(n, "socket") /\ Done(n) /\ Unlink(n)
    /\ UNCHANGED <<life, listener, tailcat, hubVars, connVars, shared>>

(* A unix listener unlinks its path too; connections nobody accepted are   *)
(* closed with it.                                                         *)
CloseListener(n) ==
    /\ Turn(n, "listener") /\ Becomes(n, "closed") /\ Done(n) /\ Unlink(n)
    /\ listener' = [listener EXCEPT ![n] = "none"]
    /\ conn' = [c \in Clients |->
                   IF at[c] = n /\ conn[c] = "queued" THEN "closed" ELSE conn[c]]
    /\ UNCHANGED <<tailcat, hubVars, at, gone, shared>>

(* The process crashes, or ends after Close.  Its connections are closed   *)
(* by the system; the file stays.                                          *)
Exit(n) ==
    /\ Alive(n) \/ life[n] = "closed"
    /\ Becomes(n, "exited")
    /\ listener' = [listener EXCEPT ![n] = "none"]
    /\ tailcat' = [tailcat EXCEPT ![n] = FALSE]
    /\ closers' = [closers EXCEPT ![n] = <<>>]
    /\ conn' = [c \in Clients |-> IF at[c] = n THEN "closed" ELSE conn[c]]
    /\ sess' = [c \in Clients |->
                   IF sess[c] # "none" /\ HubOf(c) = n THEN "closed" ELSE sess[c]]
    /\ sessions' = [h \in Serves |-> IF h = n THEN {} ELSE sessions[h]]
    /\ copied' = [h \in Serves |-> IF h = n THEN {} ELSE copied[h]]
    /\ UNCHANGED <<file, late, at, gone, shared>>

-----------------------------------------------------------------------------
Closer(n) ==
    \/ CloseTailcat(n) \/ CopySessions(n) \/ CloseCopied(n)
    \/ HubClosed(n) \/ CloseSocket(n) \/ CloseListener(n)

NodeStep(n) ==
    \/ RemoveFile(n) \/ Listen(n) \/ Start(n) \/ StartFails(n)
    \/ CloseBegins(n) \/ Closer(n) \/ Exit(n)

ClientStep(c) ==
    \/ Connect(c) \/ Accept(c) \/ DialRemote(c) \/ Register(c)
    \/ ClientLeaves(c) \/ SessionEnds(c) \/ SpliceEnds(c)

Next == (\E n \in Nodes : NodeStep(n)) \/ (\E c \in Clients : ClientStep(c))

Spec == Init /\ [][Next]_vars

(* The goroutines of a live process run: a connection that was accepted    *)
(* becomes a session, a session whose other end is lost ends (by a failed  *)
(* read, or by the heartbeat when there is no tunnel left to bring one),   *)
(* and a splice ends when one of its copiers does.  Nobody has to close a  *)
(* node, and nothing is assumed of a dial through Tailcat.                 *)
Fairness ==
    \A c \in Clients :
        /\ WF_vars(Register(c))
        /\ WF_vars(SessionEnds(c) /\ PeerLost(c))
        /\ WF_vars(SpliceEnds(c))

FairSpec == Spec /\ Fairness

-----------------------------------------------------------------------------
TypeOK ==
    /\ life \in [Nodes -> Lives]
    /\ \A n \in Nodes : IsPrefix(closers[n], <<"listener", Second(n), "tailcat">>)
    /\ listener \in [Nodes -> {"none", "open", "served"}]
    /\ tailcat \in [Nodes -> BOOLEAN]
    /\ file \in [Paths -> Nodes \cup {NoNode}]
    /\ sessions \in [Serves -> SUBSET Clients] /\ copied \in [Serves -> SUBSET Clients]
    /\ \A n \in Serves : copied[n] # {} => life[n] = "copied"
    /\ at \in [Clients -> Nodes \cup {NoNode}] /\ conn \in [Clients -> Conns]
    /\ sess \in [Clients -> {"none", "arrived", "open", "closed"}]
    /\ gone \subseteq Clients /\ late \subseteq Clients /\ shared \subseteq Nodes

(* A node that met no other live one on its path finds it free, whatever   *)
(* earlier processes left there; while it is up clients find it there, and *)
(* once its Close has returned they do not (addr.Listen, the closers).     *)
AloneServes ==
    \A n \in Nodes \ shared :
        /\ life[n] # "failed"
        /\ life[n] = "up" => file[PathOf[n]] = n
        /\ life[n] = "closed" => file[PathOf[n]] # n

(* When Node.Close returns, no session of the hub is open but those that   *)
(* began after Hub.Close copied its table: none escapes between the two    *)
(* critical sections, the accept loop and the ends of other sessions.      *)
CloseEndsSessions ==
    \A n \in Serves : life[n] = "closed" =>
        {c \in Clients : sess[c] = "open" /\ HubOf(c) = n} \subseteq late

\* The client's session ended, and its connection is there to tell it.
Waits(c) == sess[c] = "closed" /\ conn[c] # "closed" /\ (Direct(c) \/ Tunnel(c))

(* Each end of a connection learns of the other's end, through a splice    *)
(* too: a client that leaves does not keep its session, whose deliveries   *)
(* would stay leased, and a client whose session ended does not wait for   *)
(* an answer, as long as there is a tunnel to tell it (splice returns with *)
(* its first copier).                                                      *)
PeerLearns ==
    \A c \in Clients :
        /\ (c \in gone /\ sess[c] \in {"arrived", "open"}) ~> sess[c] = "closed"
        /\ Waits(c) ~> ~Waits(c)
=============================================================================
