----------------------------- MODULE FileServer -----------------------------
(***************************************************************************)
(* fs_server/file_server.c: the life of the server.  fileServer_run starts *)
(* up (an event, the socket queue, the server socket, the request threads),*)
(* accepts connections and pushes them into the queue, and when the event  *)
(* is set, or something fails, cancels and joins the request threads and   *)
(* frees everything.  A request thread pops a connection and serves it     *)
(* until it is closed.                                                     *)
(*                                                                         *)
(* The socket queue and the locks of the files are here what MtQueue and   *)
(* FileLockList are checked to implement, BoundedFifo and FileRWLocks.     *)
(* What a request is, and what it is answered, is left to Connection and   *)
(* RequestStore: here a request locks a file or none.  Either side may     *)
(* end a connection at any time, a client may send requests for ever.      *)
(* The file groups are the types that were counted; what becomes of one    *)
(* that is used before it is complete is the subject of FileGroups.        *)
(*                                                                         *)
(* Cancellation is deferred: a cancelled thread ends where it waits for a  *)
(* connection, the network or a file, or writes to the log, and keeps the  *)
(* file lock or the mutex of the groups if it holds one.  Waiting for a    *)
(* mutex or a rwlock is no cancellation point (glibc); what is done under  *)
(* the mutex of the socket queue has a clean-up handler (MtQueue), and     *)
(* under that of a lock list there is no cancellation point.               *)
(***************************************************************************)
EXTENDS Naturals, Sequences, FiniteSets

CONSTANTS
  NumConnections,  \* --num_connections: request threads, queue and backlog
  Clients,         \* each has one connection at a time
  Types, Files,    \* the types they ask for, and the files of each
  MaxStops,        \* bound on the signals that stop the server
  NoClient, Main,  \* no connection; the thread of fileServer_run
  NoType, NoThread

ASSUME FileServerAssumption ==
  /\ NumConnections \in Nat \ {0}
  /\ NoClient \notin Clients /\ NoType \notin Types
  /\ NoThread \notin 1 .. NumConnections
  /\ MaxStops \in Nat

Threads == 1 .. NumConnections
Modes == {"read", "write"}
FileIds == Types \X Files  \* every group has a lock list of its own

VARIABLES
  main,       \* where fileServer_run is
  endEvent,   \* "none", or created and "clear" or "set"
  sockt,      \* "none", a "bound" socket, or the "code" of an error
  created,    \* the request threads created
  stops,      \* the signals so far
  backlog,    \* the connections the kernel holds, oldest first
  accepted,   \* the connection being pushed, or NoClient
  queue,      \* the socket queue
  at,         \* where each request thread is
  client,     \* the connection it serves
  cancelled,  \* the threads pthread_cancel was called on
  groups,     \* the types that have a file group
  groupMutex, \* the owner of fileGroupMutex, or NoThread
  wanted,     \* the type a thread looks up or makes a group for
  asked, held \* see FileRWLocks

startup == <<endEvent, sockt, created, stops>>
network == <<backlog, accepted, queue>>
serving == <<at, client>>
grouping == <<groups, groupMutex, wanted>>
locks   == <<asked, held>>
vars    == <<main, startup, network, serving, cancelled, grouping, locks>>

Fifo == INSTANCE BoundedFifo WITH
  Producers <- {Main}, Consumers <- Threads, Items <- Clients, Capacity <- NumConnections,
  q       <- queue,
  pushing <- IF accepted = NoClient THEN {} ELSE {<<Main, accepted>>},
  popping <- {t \in Threads : at[t] = "pop"}

Locks == INSTANCE FileRWLocks

Init ==
  /\ main = "event" /\ endEvent = "none" /\ sockt = "none"
  /\ created = 0 /\ stops = 0
  /\ backlog = <<>> /\ accepted = NoClient /\ queue = <<>>
  /\ at = [t \in Threads |-> "none"]
  /\ client = [t \in Threads |-> NoClient]
  /\ cancelled = {}
  /\ groups = {} /\ groupMutex = NoThread /\ wanted = [t \in Threads |-> NoType]
  /\ Locks!Init

Goto(t, place) == at' = [at EXCEPT ![t] = place]

-----------------------------------------------------------------------------
(***************************************************************************)
(* initProcessServerData and listen.                                       *)
(***************************************************************************)
\* Without an event fileServer_run returns without cleaning up.
CreateEvent ==
  /\ main = "event"
  /\ \/ main' = "queue" /\ endEvent' = "clear"
     \/ main' = "ended" /\ UNCHANGED endEvent
  /\ UNCHANGED <<sockt, created, stops, network, serving, cancelled, grouping, locks>>

CreateQueue ==
  /\ main = "queue"
  /\ main' \in {"socket", "cancel"}
  /\ UNCHANGED <<startup, network, serving, cancelled, grouping, locks>>

\* initServerSocket returns error codes greater than 0, and the test is for less.
CreateSocket ==
  /\ main = "socket"
  /\ main' = "threads"
  /\ sockt' \in {"bound", "code"}
  /\ UNCHANGED <<endEvent, created, stops, network, serving, cancelled, grouping, locks>>

CreateThread ==
  /\ main = "threads" /\ created < NumConnections
  /\ created' = created + 1
  /\ Goto(created + 1, "pop")
  /\ main' = IF created' = NumConnections THEN "listen" ELSE "threads"
  /\ UNCHANGED <<endEvent, sockt, stops, network, client, cancelled, grouping, locks>>

\* pthread_create fails; only the threads before it are cancelled and joined.
CreateThreadFails ==
  /\ main = "threads"
  /\ main' = "cancel"
  /\ UNCHANGED <<startup, network, serving, cancelled, grouping, locks>>

\* listen succeeds whatever the socket is.
ListenUnchecked ==
  /\ main = "listen"
  /\ main' \in {"select", "cancel"}
  /\ UNCHANGED <<startup, network, serving, cancelled, grouping, locks>>

\* The code of an error is no descriptor that listen accepts.
Listen ==
  /\ main = "listen"
  /\ main' \in IF sockt = "bound" THEN {"select", "cancel"} ELSE {"cancel"}
  /\ UNCHANGED <<startup, network, serving, cancelled, grouping, locks>>

-----------------------------------------------------------------------------
(***************************************************************************)
(* The accept loop.                                                        *)
(***************************************************************************)
\* fileServer_stop, called by the handler of SIGINT and SIGTERM.  Before there is
\* an event the signal has no effect.
Stop ==
  /\ stops < MaxStops /\ main # "ended"
  /\ stops' = stops + 1
  /\ endEvent' = IF endEvent = "none" THEN "none" ELSE "set"
  /\ UNCHANGED <<main, sockt, created, network, serving, cancelled, grouping, locks>>

SeeEvent ==
  /\ main = "select" /\ endEvent = "set"
  /\ main' = "cancel"
  /\ endEvent' = "clear"
  /\ UNCHANGED <<sockt, created, stops, network, serving, cancelled, grouping, locks>>

\* accept; the connection is about to be pushed.
AcceptFirst ==
  /\ main = "select"
  /\ backlog # <<>>
  /\ main' = "push"
  /\ accepted' = Head(backlog)
  /\ backlog' = Tail(backlog)
  /\ UNCHANGED <<startup, queue, serving, cancelled, grouping, locks>>

\* The event is tested before the socket.
Accept ==
  /\ endEvent = "clear"
  /\ AcceptFirst

\* select or accept fails.
LoopFails ==
  /\ main = "select"
  /\ main' = "cancel"
  /\ UNCHANGED <<startup, network, serving, cancelled, grouping, locks>>

\* mtQueue_push returns, which it does not while the queue is full.
Push ==
  /\ main = "push"
  /\ main' = "select"
  /\ accepted' = NoClient
  /\ UNCHANGED <<startup, backlog, serving, cancelled, grouping, locks>>
  /\ Fifo!Put(<<Main, accepted>>)

-----------------------------------------------------------------------------
(***************************************************************************)
(* requestProcessingThread.                                                *)
(***************************************************************************)
\* mtQueue_pop returns a connection.
Pop(t) ==
  /\ at[t] = "pop" /\ queue # <<>>
  /\ Goto(t, "receive")
  /\ client' = [client EXCEPT ![t] = Head(queue)]
  /\ UNCHANGED <<main, startup, backlog, accepted, cancelled, grouping, locks>>
  /\ Fifo!Take(t)

\* The thread ends with its connection.
CloseAndExit(t) ==
  /\ at[t] = "receive"
  /\ Goto(t, "dead")
  /\ client' = [client EXCEPT ![t] = NoClient]
  /\ UNCHANGED <<main, startup, network, cancelled, grouping, locks>>

\* The connection ends: its end was asked for, its peer is gone or silent, its
\* request is malformed, or the socket could not be configured.
Close(t) ==
  /\ at[t] = "receive"
  /\ Goto(t, "pop")
  /\ client' = [client EXCEPT ![t] = NoClient]
  /\ UNCHANGED <<main, startup, network, cancelled, grouping, locks>>

\* A request arrives that locks no file.
Receive(t) ==
  /\ at[t] = "receive"
  /\ Goto(t, "send")
  /\ UNCHANGED <<main, startup, network, client, cancelled, grouping, locks>>

\* A request arrives that locks f; the group of its type is found without the mutex.
ReceiveFor(t, f, m) ==
  /\ at[t] = "receive" /\ f[1] \in groups
  /\ Goto(t, "lock")
  /\ Locks!Ask(t, f, m)
  /\ UNCHANGED <<main, startup, network, client, cancelled, grouping>>

\* A request arrives whose type has no group yet: the thread waits for the mutex.
ReceiveNew(t, g) ==
  /\ at[t] = "receive" /\ g \notin groups
  /\ Goto(t, "group")
  /\ wanted' = [wanted EXCEPT ![t] = g]
  /\ UNCHANGED <<main, startup, network, client, cancelled, groups, groupMutex, locks>>

\* The second search finds the group, which another thread has made, and the mutex is
\* given back.
GroupFound(t, f, m) ==
  /\ at[t] = "group" /\ groupMutex = NoThread
  /\ f[1] = wanted[t] /\ f[1] \in groups
  /\ Goto(t, "lock")
  /\ wanted' = [wanted EXCEPT ![t] = NoType]
  /\ Locks!Ask(t, f, m)
  /\ UNCHANGED <<main, startup, network, client, cancelled, groups, groupMutex>>

\* It does not: the group is made while the mutex is held.
GroupMissing(t) ==
  /\ at[t] = "group" /\ groupMutex = NoThread /\ wanted[t] \notin groups
  /\ Goto(t, "mkdir")
  /\ groupMutex' = t
  /\ UNCHANGED <<main, startup, network, client, cancelled, groups, wanted, locks>>

\* The directory is there, and the group counted before it is initialised.
CountGroup(t) ==
  /\ at[t] = "mkdir"
  /\ Goto(t, "init")
  /\ groups' = groups \cup {wanted[t]}
  /\ UNCHANGED <<main, startup, network, client, cancelled, groupMutex, wanted, locks>>

GroupMade(t, f, m) ==
  /\ at[t] = "init" /\ f[1] = wanted[t]
  /\ Goto(t, "lock")
  /\ groupMutex' = NoThread
  /\ wanted' = [wanted EXCEPT ![t] = NoType]
  /\ Locks!Ask(t, f, m)
  /\ UNCHANGED <<main, startup, network, client, cancelled, groups>>

\* The directory cannot be made, or the lock list or the DAO not be initialised: an error
\* is answered.
GroupFails(t) ==
  /\ at[t] \in {"mkdir", "init"}
  /\ Goto(t, "send")
  /\ groupMutex' = NoThread
  /\ wanted' = [wanted EXCEPT ![t] = NoType]
  /\ UNCHANGED <<main, startup, network, client, cancelled, groups, locks>>

Lock(t) ==
  /\ at[t] = "lock"
  /\ Goto(t, "dao")
  /\ \E r \in asked : r[1] = t /\ Locks!Grant(r)
  /\ UNCHANGED <<main, startup, network, client, cancelled, grouping>>

\* The DAO returns and the file is released.
Release(t) ==
  /\ at[t] = "dao"
  /\ Goto(t, "send")
  /\ \E h \in held : h[1] = t /\ Locks!Release(h)
  /\ UNCHANGED <<main, startup, network, client, cancelled, grouping>>

\* The answer is sent, or given up.
Send(t) ==
  /\ at[t] = "send"
  /\ Goto(t, "receive")
  /\ UNCHANGED <<main, startup, network, client, cancelled, grouping, locks>>

\* A cancelled thread ends, also in the DAO and where it writes to the log while it makes
\* a group.
Die(t) ==
  /\ t \in cancelled
  /\ at[t] \in {"pop", "receive", "mkdir", "init", "dao", "send"}
  /\ Goto(t, "dead")
  /\ UNCHANGED <<main, startup, network, client, cancelled, grouping, locks>>

-----------------------------------------------------------------------------
(***************************************************************************)
(* cleanupProcessServerData.                                               *)
(***************************************************************************)
\* pthread_cancel on every thread that was created.
Cancel ==
  /\ main = "cancel"
  /\ main' = "join"
  /\ cancelled' = 1 .. created
  /\ UNCHANGED <<startup, network, serving, grouping, locks>>

\* A cleanup that does not join the threads.
CleanupAtOnce ==
  /\ main = "join"
  /\ main' = "ended"
  /\ endEvent' = "none" /\ sockt' = "none"
  /\ queue' = <<>> /\ backlog' = <<>>
  /\ UNCHANGED <<created, stops, accepted, serving, cancelled, grouping, locks>>

\* The threads are joined, everything is freed, and the sockets are closed.
Cleanup ==
  /\ main = "join"
  /\ \A t \in cancelled : at[t] = "dead"
  /\ main' = "ended"
  /\ endEvent' = "none" /\ sockt' = "none"
  /\ queue' = <<>> /\ backlog' = <<>>
  /\ UNCHANGED <<created, stops, accepted, serving, cancelled, grouping, locks>>

-----------------------------------------------------------------------------
\* A client connects, if the server listens and the backlog has room.
Open == {backlog[k] : k \in DOMAIN backlog} \cup {accepted}
          \cup {queue[k] : k \in DOMAIN queue} \cup {client[t] : t \in Threads}

Connect(c) ==
  /\ main \in {"select", "push"}
  /\ c \notin Open /\ Len(backlog) < NumConnections
  /\ backlog' = Append(backlog, c)
  /\ UNCHANGED <<main, startup, accepted, queue, serving, cancelled, grouping, locks>>

StartUp == CreateEvent \/ CreateQueue \/ CreateSocket \/ CreateThread \/ CreateThreadFails \/ Listen
Loop    == SeeEvent \/ Accept \/ LoopFails \/ Push
End     == Cancel \/ Cleanup
Serve(t) ==
  \/ Close(t) \/ Receive(t)
  \/ \E f \in FileIds, m \in Modes : ReceiveFor(t, f, m) \/ GroupFound(t, f, m) \/ GroupMade(t, f, m)
  \/ \E g \in Types : ReceiveNew(t, g)
  \/ GroupMissing(t) \/ CountGroup(t) \/ GroupFails(t)
  \/ Lock(t) \/ Release(t) \/ Send(t)

Next ==
  \/ StartUp \/ Loop \/ End \/ Stop
  \/ \E t \in Threads : Pop(t) \/ Serve(t) \/ Die(t)
  \/ \E c \in Clients : Connect(c)

\* The main thread runs.  A thread that serves a connection goes on: it receives a
\* request, or its timeout closes the connection; it gets a mutex that stays free; the DAO
\* returns; an answer is sent or times out.  A cancelled thread comes to a cancellation
\* point, of which every request has several, unless it waits for a lock or a mutex.
\* select and accept need not fail, clients need not connect, and nobody need stop the
\* server.
Fairness ==
  /\ WF_vars(StartUp) /\ WF_vars(SeeEvent \/ Accept \/ Push) /\ WF_vars(End)
  /\ WF_vars(\E t \in Threads : Pop(t))
  /\ \A t \in Threads : WF_vars(Serve(t)) /\ SF_vars(Die(t))

Spec == Init /\ [][Next]_vars /\ Fairness

-----------------------------------------------------------------------------
(***************************************************************************)
(* Properties                                                              *)
(***************************************************************************)
Alive(t) == at[t] \notin {"none", "dead"}

\* Also: the accept loop selects on a socket, because listen refuses the code of a failed
\* bind, which the test for a failed initServerSocket lets through.
TypeOK ==
  /\ main \in {"event", "queue", "socket", "threads", "listen", "select", "push",
               "cancel", "join", "ended"}
  /\ endEvent \in {"none", "clear", "set"} /\ sockt \in {"none", "bound", "code"}
  /\ main \in {"select", "push"} => sockt = "bound"
  /\ created \in 0 .. NumConnections /\ stops \in 0 .. MaxStops
  /\ backlog \in Seq(Clients) /\ queue \in Seq(Clients) /\ Len(queue) <= NumConnections
  /\ accepted \in Clients \cup {NoClient} /\ (accepted # NoClient <=> main = "push")
  /\ at \in [Threads -> {"none", "pop", "receive", "group", "mkdir", "init", "lock", "dao", "send",
                         "dead"}]
  /\ client \in [Threads -> Clients \cup {NoClient}]
  /\ cancelled \subseteq Threads
  /\ groups \subseteq Types /\ groupMutex \in Threads \cup {NoThread}
  /\ wanted \in [Threads -> Types \cup {NoType}]
  /\ asked \subseteq Threads \X FileIds \X Modes /\ held \subseteq Threads \X FileIds \X Modes

\* When everything is freed no thread is left that could use it.  A lock is left behind
\* only by a thread that was cancelled in the DAO, and the mutex of the groups only by one
\* that was cancelled while it made a group.
NothingUsedAfterFree ==
  /\ main = "ended" => \A t \in Threads : ~ Alive(t)
  /\ \A h \in held : at[h[1]] = "dao" \/ (at[h[1]] = "dead" /\ h[1] \in cancelled)
  /\ groupMutex # NoThread =>
       \/ at[groupMutex] \in {"mkdir", "init"}
       \/ at[groupMutex] = "dead" /\ groupMutex \in cancelled

\* A thread waits for a file that a thread holds which has ended.
Orphaned ==
  \E r \in asked, h \in held :
    at[h[1]] = "dead" /\ h[2] = r[2] /\ Locks!Conflict(h[3], r[3])

\* A thread waits for the mutex of the groups, whose owner has ended.
GroupOrphaned ==
  /\ groupMutex # NoThread /\ at[groupMutex] = "dead"
  /\ \E t \in Threads : at[t] = "group"

\* The accept loop waits for room in the queue.
PushBlocked == main = "push" /\ Len(queue) = NumConnections

\* A server that is told to stop, or fails, ends.  Three things can keep it: a request
\* thread waits for ever for a file whose lock died with its holder, or for the mutex of
\* the groups, so that pthread_join does not return; or all request threads keep their
\* connections for ever and the queue is full, so that the accept loop does not come back
\* to the event.
StopEnds ==
  [](endEvent = "set" \/ main = "cancel" =>
       <>(main = "ended" \/ []Orphaned \/ []GroupOrphaned \/ []PushBlocked))

Waiting(c) == c = accepted \/ c \in {queue[k] : k \in DOMAIN queue}
                           \/ c \in {backlog[k] : k \in DOMAIN backlog}
AllKept == \A t \in Threads : at[t] \in {"receive", "group", "mkdir", "init", "lock", "dao", "send"}

\* A connection that was made is taken by a request thread, unless the server stops
\* or from some time on every request thread keeps the connection it has.
ConnectionServed ==
  \A c \in Clients :
    [](Waiting(c) => <>(~ Waiting(c) \/ main \in {"cancel", "join", "ended"} \/ []AllKept))
=============================================================================
