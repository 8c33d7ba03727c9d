------------------------------- MODULE Scoped --------------------------------
(***************************************************************************)
(* Message ids as the hub makes them: the id a client chose for a put or a *)
(* req, prefixed with the number of its session (scopedID).  Sessions are  *)
(* numbered by Hub.sids, which starts at zero in every process, while the  *)
(* jobs of a durable bus, and so the ids in its index, outlive it.         *)
(***************************************************************************)
EXTENDS Mailbox

CONSTANTS
    Conns,    \* connections, one session each
    MaxSids,  \* how many sessions one process serves (bound)
    Names,    \* ids that clients choose
    ConnOf,   \* the connection on which a client puts each job
    NameOf    \* the id the client chose for it

\* The ids of Mailbox are what scopedID makes, Ids = (1..MaxSids) \X Names, and
\* IdOf[j] is the id that the bus sees if the session of j's connection has the
\* number IdOf[j][1]; IdOf[j][2] = NameOf[j].

VARIABLES
    sids,     \* Hub.sids
    sid       \* the number of each connection's session; 0 before and after

scopedVars == <<vars, sids, sid>>

InitScoped == Init /\ sids = 0 /\ sid = [c \in Conns |-> 0]

\* A connection that carries a session or has carried a put is not opened
\* (again): a client that comes back has another one.
Opened(c) == sid[c] # 0 \/ \E j \in Jobs : ConnOf[j] = c /\ fate[j] # "fresh"

(* ServeConn numbers the session.                                          *)
Connect(c) ==
    /\ ~closed /\ ~Opened(c) /\ sids < MaxSids
    /\ sids' = sids + 1
    /\ sid' = [sid EXCEPT ![c] = sids + 1]
    /\ UNCHANGED vars

Disconnect(c) ==
    /\ sid[c] # 0
    /\ sid' = [sid EXCEPT ![c] = 0]
    /\ UNCHANGED <<vars, sids>>

(* The put handler: the job that has the id which the number of its        *)
(* connection makes of the client's.                                       *)
PutScoped(j) ==
    /\ sid[ConnOf[j]] # 0 /\ IdOf[j] = <<sid[ConnOf[j]], NameOf[j]>>
    /\ Put(j)
    /\ UNCHANGED <<sids, sid>>

(* A new process: the bus from its file, the hub from nothing.             *)
RestartProcess ==
    /\ Restart
    /\ sids' = 0
    /\ sid' = [c \in Conns |-> 0]

BusMoves ==
    /\ \/ \E t \in Takers : TakerStep(t)
       \/ \E d \in Deliveries : DeliveryStep(d)
       \/ ExpireLeases \/ Close
    /\ UNCHANGED <<sids, sid>>

NextScoped ==
    \/ \E c \in Conns : Connect(c) \/ Disconnect(c)
    \/ \E j \in Jobs : PutScoped(j)
    \/ BusMoves \/ RestartProcess

ScopedSpec == InitScoped /\ [][NextScoped]_scopedVars

-----------------------------------------------------------------------------
(* What the repository says and the code does not do (a run that expects a *)
(* violation).                                                             *)

\* "two clients that pick the same id cannot deduplicate one another; ids are
\* only compared within one connection": a put is merged only beside a job that
\* was put on the same connection.
MergedWithOwn ==
    [][\A j \in Jobs : fate[j] = "fresh" /\ fate'[j] = "merged" =>
          \E k \in ToSet(q) \cup Leased(inflight) :
              IdOf[k] = IdOf[j] /\ ConnOf[k] = ConnOf[j]]_scopedVars
=============================================================================
