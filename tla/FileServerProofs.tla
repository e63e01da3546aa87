--------------------------- MODULE FileServerProofs ---------------------------
(***************************************************************************)
(* For any number of request threads and clients, and whichever step of    *)
(* the start-up or of the accept loop failed: the server frees its data    *)
(* only when no request thread is left to use it.                          *)
(*                                                                         *)
(* The threads that are joined are those counted in created, so the        *)
(* invariant says that these are exactly the threads that were started.    *)
(* For the locks it says that a thread holds at most one, and is in the    *)
(* DAO while it does; and of the mutex of the groups, that its owner is    *)
(* making a group.                                                         *)
(***************************************************************************)
EXTENDS FileServer, SequenceTheorems, TLAPS

\* The threads that exist are those that the clean-up counts.
Counted ==
  /\ \A t \in Threads : at[t] = "none" <=> t > created
  /\ main \in {"event", "queue", "socket"} => created = 0
  /\ main = "threads" => created < NumConnections

\* They are cancelled all, and only to be joined.
CancelledAll ==
  /\ main \notin {"join", "ended"} => cancelled = {}
  /\ main = "join" => cancelled = 1 .. created

\* Who asks for a lock waits for it, and for one only; who holds one is in the DAO, or
\* was cancelled there.
LocksFollow ==
  /\ \A r \in asked : at[r[1]] = "lock"
  /\ \A r1, r2 \in asked : r1[1] = r2[1] => r1 = r2
  /\ \A h \in held : at[h[1]] = "dao" \/ (at[h[1]] = "dead" /\ h[1] \in cancelled)
  /\ \A h1, h2 \in held : h1[1] = h2[1] => h1 = h2

\* The mutex of the groups belongs to the thread that makes one, or was cancelled then.
MutexFollows ==
  /\ \A t \in Threads : at[t] \in {"mkdir", "init"} => groupMutex = t
  /\ groupMutex # NoThread =>
       \/ at[groupMutex] \in {"mkdir", "init"}
       \/ at[groupMutex] = "dead" /\ groupMutex \in cancelled
  /\ \A t \in Threads : at[t] \in {"group", "mkdir", "init"} => wanted[t] \in Types

NobodyLeft == main = "ended" => \A t \in Threads : ~ Alive(t)

IInv == TypeOK /\ Counted /\ CancelledAll /\ LocksFollow /\ MutexFollows /\ NobodyLeft

\* At the start there are no threads.
LEMMA InitIInv == Init => IInv
<1> SUFFICES ASSUME Init PROVE IInv
  OBVIOUS
<1>1. <<>> \in Seq(Clients) /\ Len(<<>>) = 0
  BY EmptySeq
<1>2. TypeOK
  BY <1>1, FileServerAssumption DEF Init, TypeOK, Locks!Init, Threads
<1>3. Counted /\ CancelledAll /\ LocksFollow /\ MutexFollows /\ NobodyLeft
  BY FileServerAssumption DEF Init, Counted, CancelledAll, LocksFollow, MutexFollows, NobodyLeft,
     Locks!Init, Threads
<1> QED
  BY <1>2, <1>3 DEF IInv

-----------------------------------------------------------------------------
\* The start-up: threads begin to exist one by one.
LEMMA StartUpIInv == IInv /\ StartUp => IInv'
<1> SUFFICES ASSUME IInv, StartUp PROVE IInv'
  OBVIOUS
<1> USE FileServerAssumption DEF IInv, startup, network, serving, grouping, locks, Goto
<1>1. ASSUME CreateThread
      PROVE TypeOK' /\ Counted' /\ CancelledAll' /\ NobodyLeft'
  <2>1. /\ main = "threads" /\ created + 1 \in Threads /\ created' = created + 1
        /\ at' = [at EXCEPT ![created + 1] = "pop"]
        /\ main' = IF created' = NumConnections THEN "listen" ELSE "threads"
        /\ UNCHANGED <<endEvent, sockt, stops, network, client, cancelled, grouping, locks>>
    BY <1>1 DEF CreateThread, TypeOK, Threads
  <2>2. TypeOK'
    BY <2>1 DEF TypeOK, Threads
  <2>3. Counted'
    BY <2>1 DEF TypeOK, Counted, Threads
  <2>4. CancelledAll' /\ NobodyLeft'
    BY <2>1 DEF CancelledAll, NobodyLeft
  <2> QED
    BY <2>2, <2>3, <2>4
<1>2. ASSUME CreateEvent \/ CreateQueue \/ CreateSocket \/ CreateThreadFails \/ Listen
      PROVE TypeOK' /\ Counted' /\ CancelledAll' /\ NobodyLeft'
  <2>1. UNCHANGED <<created, stops, network, serving, cancelled, grouping, locks>>
    BY <1>2 DEF CreateEvent, CreateQueue, CreateSocket, CreateThreadFails, Listen
  <2>2. TypeOK'
    BY <1>2 DEF CreateEvent, CreateQueue, CreateSocket, CreateThreadFails, Listen, TypeOK
  <2>3. Counted'
    BY <1>2, <2>1 DEF CreateEvent, CreateQueue, CreateSocket, CreateThreadFails, Listen, Counted, TypeOK
  <2>4. CancelledAll' /\ NobodyLeft'
    BY <1>2, <2>1 DEF CreateEvent, CreateQueue, CreateSocket, CreateThreadFails, Listen,
                      CancelledAll, NobodyLeft, Counted, Alive, Threads, TypeOK
  <2> QED
    BY <2>2, <2>3, <2>4
<1>3. TypeOK' /\ Counted' /\ CancelledAll' /\ NobodyLeft'
  BY <1>1, <1>2 DEF StartUp
<1>4. LocksFollow' /\ MutexFollows'
  <2>1. /\ asked' = asked /\ held' = held /\ cancelled' = cancelled
        /\ groupMutex' = groupMutex /\ wanted' = wanted
    BY DEF StartUp, CreateEvent, CreateQueue, CreateSocket, CreateThread, CreateThreadFails, Listen
  <2>2. \A t \in Threads : at[t] # "none" => at'[t] = at[t]
    BY DEF StartUp, CreateEvent, CreateQueue, CreateSocket, CreateThread, CreateThreadFails, Listen,
           TypeOK, Counted, Threads
  <2>3. \A l \in asked \cup held : l[1] \in Threads
    BY DEF TypeOK
  <2>4. LocksFollow'
    BY <2>1, <2>2, <2>3 DEF LocksFollow
  <2>5. \A t \in Threads : at'[t] = at[t] \/ at'[t] = "pop"
    BY DEF StartUp, CreateEvent, CreateQueue, CreateSocket, CreateThread, CreateThreadFails, Listen,
           TypeOK, Counted, Threads
  <2>6. groupMutex \in Threads \cup {NoThread}
    BY DEF TypeOK
  <2>7. MutexFollows'
    BY <2>1, <2>2, <2>5, <2>6 DEF MutexFollows
  <2> QED
    BY <2>4, <2>7
<1> QED
  BY <1>3, <1>4

\* The accept loop and the signals leave the threads alone.
LEMMA LoopIInv == IInv /\ (Loop \/ Stop) => IInv'
<1> SUFFICES ASSUME IInv, Loop \/ Stop PROVE IInv'
  OBVIOUS
<1> USE FileServerAssumption DEF IInv, startup, network, serving, grouping, locks
<1>1. ASSUME AcceptFirst PROVE Head(backlog) \in Clients /\ Tail(backlog) \in Seq(Clients)
  BY <1>1, HeadTailProperties DEF AcceptFirst, TypeOK
<1>2. ASSUME Push PROVE queue' \in Seq(Clients) /\ Len(queue') <= NumConnections
  <2>1. queue' = Append(queue, accepted) /\ Len(queue) < NumConnections /\ accepted \in Clients
    BY <1>2 DEF Push, Fifo!Put, TypeOK
  <2>2. Append(queue, accepted) \in Seq(Clients) /\ Len(Append(queue, accepted)) = Len(queue) + 1
    BY <2>1, AppendProperties DEF TypeOK
  <2>3. Len(queue) \in Nat
    BY LenProperties DEF TypeOK
  <2> QED
    BY <2>1, <2>2, <2>3
<1>3. TypeOK'
  <2>1. CASE SeeEvent \/ LoopFails \/ Stop
    BY <2>1 DEF SeeEvent, LoopFails, Stop, TypeOK
  <2>2. CASE Accept
    BY <1>1, <2>2 DEF Accept, AcceptFirst, TypeOK
  <2>3. CASE Push
    BY <1>2, <2>3 DEF Push, TypeOK
  <2> QED
    BY <2>1, <2>2, <2>3 DEF Loop
<1>4. Counted' /\ CancelledAll' /\ LocksFollow' /\ MutexFollows' /\ NobodyLeft'
  BY DEF Loop, SeeEvent, Accept, AcceptFirst, LoopFails, Push, Stop, TypeOK, Counted,
         CancelledAll, LocksFollow, MutexFollows, NobodyLeft, Alive
<1> QED
  BY <1>3, <1>4

\* The clean-up: everything is freed when the threads that were counted are dead.
LEMMA EndIInv == IInv /\ End => IInv'
<1> SUFFICES ASSUME IInv, End PROVE IInv'
  OBVIOUS
<1> USE FileServerAssumption DEF IInv, startup, network, serving, grouping, locks
<1>1. CASE Cancel
  BY <1>1 DEF Cancel, TypeOK, Counted, CancelledAll, LocksFollow, MutexFollows, NobodyLeft, Threads
<1>2. CASE Cleanup
  <2>1. <<>> \in Seq(Clients) /\ Len(<<>>) = 0
    BY EmptySeq
  <2>2. TypeOK'
    BY <1>2, <2>1 DEF Cleanup, TypeOK
  <2>3. \A t \in Threads : ~ Alive(t)
    BY <1>2 DEF Cleanup, Counted, CancelledAll, Alive, Threads, TypeOK
  <2>4. Counted' /\ CancelledAll' /\ LocksFollow' /\ MutexFollows' /\ NobodyLeft'
    BY <1>2, <2>3 DEF Cleanup, Counted, CancelledAll, LocksFollow, MutexFollows, NobodyLeft, Alive
  <2> QED
    BY <2>2, <2>4
<1> QED
  BY <1>1, <1>2 DEF End

-----------------------------------------------------------------------------
Places == {"none", "pop", "receive", "group", "mkdir", "init", "lock", "dao", "send", "dead"}

\* A step of thread t that leaves the locks, and does not end in or leave the places
\* where they matter.
LEMMA OneThreadMoves ==
  ASSUME IInv, NEW t \in Threads, NEW place \in {"pop", "receive", "send", "dead"},
         at[t] \notin {"none", "group", "mkdir", "init", "lock", "dao", "dead"}, Goto(t, place),
         UNCHANGED <<main, startup, cancelled, grouping, locks>>
  PROVE  Counted' /\ CancelledAll' /\ LocksFollow' /\ MutexFollows' /\ NobodyLeft'
<1> USE DEF startup, grouping, locks, Goto
<1>1. /\ at' = [at EXCEPT ![t] = place]
      /\ at \in [Threads -> Places] /\ groupMutex \in Threads \cup {NoThread}
      /\ \A l \in asked \cup held : l[1] \in Threads
  BY DEF IInv, TypeOK, Places
<1>2. Counted' /\ CancelledAll' /\ NobodyLeft'
  BY <1>1 DEF IInv, Counted, CancelledAll, NobodyLeft, Alive
<1>3. LocksFollow'
  BY <1>1 DEF IInv, LocksFollow
<1>4. MutexFollows'
  BY <1>1 DEF IInv, MutexFollows
<1> QED
  BY <1>2, <1>3, <1>4

\* requestProcessingThread.
LEMMA ThreadIInv ==
  ASSUME IInv, NEW t \in Threads, Pop(t) \/ Serve(t) \/ Die(t)
  PROVE  IInv'
<1> USE DEF startup, network, grouping, locks, Goto
<1>0. /\ TypeOK /\ Counted /\ CancelledAll /\ LocksFollow /\ MutexFollows /\ NobodyLeft
      /\ at \in [Threads -> Places] /\ groupMutex \in Threads \cup {NoThread}
      /\ wanted \in [Threads -> Types \cup {NoType}]
      /\ \A l \in asked \cup held : l[1] \in Threads
  BY DEF IInv, TypeOK, Places
<1>1. CASE Pop(t)
  <2>1. Head(queue) \in Clients /\ Tail(queue) \in Seq(Clients) /\ Len(Tail(queue)) = Len(queue) - 1
    BY <1>0, <1>1, HeadTailProperties DEF Pop, TypeOK
  <2>2. queue' = Tail(queue)
    BY <1>1 DEF Pop, Fifo!Take
  <2>3. Len(queue) \in Nat
    BY <1>0, LenProperties DEF TypeOK
  <2>4. TypeOK'
    BY <1>0, <1>1, <2>1, <2>2, <2>3, FileServerAssumption DEF Pop, TypeOK
  <2> QED
    BY <1>1, <2>4, OneThreadMoves DEF Pop, IInv
<1>2. CASE Close(t) \/ Receive(t) \/ Send(t)
  <2>1. TypeOK'
    BY <1>0, <1>2 DEF Close, Receive, Send, TypeOK
  <2> QED
    BY <1>2, <2>1, OneThreadMoves DEF Close, Receive, Send, IInv
<1>3. ASSUME NEW f \in FileIds, NEW m \in Modes, ReceiveFor(t, f, m) PROVE IInv'
  <2>1. /\ at[t] = "receive" /\ at' = [at EXCEPT ![t] = "lock"]
        /\ asked' = asked \cup {<<t, f, m>>} /\ held' = held
        /\ UNCHANGED <<main, startup, network, client, cancelled, grouping>>
        /\ \A r \in asked \cup held : r[1] # t
    BY <1>3 DEF ReceiveFor, Locks!Ask
  <2>2. TypeOK'
    BY <1>0, <2>1 DEF TypeOK
  <2>3. LocksFollow'
    BY <1>0, <2>1 DEF LocksFollow
  <2>4. Counted' /\ CancelledAll' /\ NobodyLeft'
    BY <1>0, <2>1 DEF Counted, CancelledAll, NobodyLeft, Alive
  <2>5. MutexFollows'
    BY <1>0, <2>1 DEF MutexFollows
  <2> QED
    BY <2>2, <2>3, <2>4, <2>5 DEF IInv
<1>4. CASE Lock(t)
  <2>1. PICK r \in asked : r[1] = t /\ Locks!Grant(r)
    BY <1>4 DEF Lock
  <2>2. /\ at[t] = "lock" /\ at' = [at EXCEPT ![t] = "dao"]
        /\ asked' = asked \ {r} /\ held' = held \cup {r}
        /\ UNCHANGED <<main, startup, network, client, cancelled, grouping>>
    BY <1>4, <2>1 DEF Lock, Locks!Grant
  <2>3. TypeOK'
    BY <1>0, <2>1, <2>2 DEF TypeOK
  <2>4. \A h \in held : h[1] # t
    BY <1>0, <2>2 DEF LocksFollow
  <2>5. \A x \in asked : x # r => x[1] # t
    BY <1>0, <2>1 DEF LocksFollow
  <2>6. LocksFollow'
    BY <1>0, <2>1, <2>2, <2>4, <2>5 DEF LocksFollow
  <2>7. Counted' /\ CancelledAll' /\ NobodyLeft'
    BY <1>0, <2>2 DEF Counted, CancelledAll, NobodyLeft, Alive
  <2>8. MutexFollows'
    BY <1>0, <2>2 DEF MutexFollows
  <2> QED
    BY <2>3, <2>6, <2>7, <2>8 DEF IInv
<1>5. CASE Release(t)
  <2>1. PICK h \in held : h[1] = t /\ Locks!Release(h)
    BY <1>5 DEF Release
  <2>2. /\ at[t] = "dao" /\ at' = [at EXCEPT ![t] = "send"]
        /\ asked' = asked /\ held' = held \ {h}
        /\ UNCHANGED <<main, startup, network, client, cancelled, grouping>>
    BY <1>5, <2>1 DEF Release, Locks!Release
  <2>3. TypeOK'
    BY <1>0, <2>1, <2>2 DEF TypeOK
  <2>4. \A x \in held : x # h => x[1] # t
    BY <1>0, <2>1 DEF LocksFollow
  <2>5. LocksFollow'
    BY <1>0, <2>1, <2>2, <2>4 DEF LocksFollow
  <2>6. Counted' /\ CancelledAll' /\ NobodyLeft'
    BY <1>0, <2>2 DEF Counted, CancelledAll, NobodyLeft, Alive
  <2>7. MutexFollows'
    BY <1>0, <2>2 DEF MutexFollows
  <2> QED
    BY <2>3, <2>5, <2>6, <2>7 DEF IInv
<1>6. CASE Die(t)
  <2>1. /\ t \in cancelled /\ at[t] \in {"pop", "receive", "mkdir", "init", "dao", "send"}
        /\ at' = [at EXCEPT ![t] = "dead"]
        /\ UNCHANGED <<main, startup, network, client, cancelled, grouping, locks>>
    BY <1>6 DEF Die
  <2>2. TypeOK'
    BY <1>0, <2>1 DEF TypeOK
  <2>3. LocksFollow'
    BY <1>0, <2>1 DEF LocksFollow
  <2>4. Counted' /\ CancelledAll' /\ NobodyLeft'
    BY <1>0, <2>1 DEF Counted, CancelledAll, NobodyLeft, Alive
  <2>5. MutexFollows'
    BY <1>0, <2>1, FileServerAssumption DEF MutexFollows, Threads
  <2> QED
    BY <2>2, <2>3, <2>4, <2>5 DEF IInv
<1>7. ASSUME \/ \E g \in Types : ReceiveNew(t, g)
             \/ GroupMissing(t) \/ CountGroup(t) \/ GroupFails(t)
      PROVE  IInv'
  <2>1. PICK place \in {"group", "mkdir", "init", "send"} :
          /\ at' = [at EXCEPT ![t] = place]
          /\ at[t] \in {"receive", "group", "mkdir", "init"}
          /\ UNCHANGED <<main, startup, network, client, cancelled, locks>>
    BY <1>7 DEF ReceiveNew, GroupMissing, CountGroup, GroupFails
  <2>2. /\ groups' \subseteq Types /\ groupMutex' \in Threads \cup {NoThread}
        /\ wanted' \in [Threads -> Types \cup {NoType}]
    BY <1>0, <1>7 DEF ReceiveNew, GroupMissing, CountGroup, GroupFails, TypeOK, MutexFollows
  <2>3. TypeOK'
    BY <1>0, <2>1, <2>2 DEF TypeOK
  <2>4. LocksFollow'
    BY <1>0, <2>1 DEF LocksFollow
  <2>5. Counted' /\ CancelledAll' /\ NobodyLeft'
    BY <1>0, <2>1 DEF Counted, CancelledAll, NobodyLeft, Alive
  <2>6. MutexFollows'
    BY <1>0, <1>7, FileServerAssumption
    DEF ReceiveNew, GroupMissing, CountGroup, GroupFails, MutexFollows, Threads
  <2> QED
    BY <2>3, <2>4, <2>5, <2>6 DEF IInv
<1>8. ASSUME NEW f \in FileIds, NEW m \in Modes, GroupFound(t, f, m) \/ GroupMade(t, f, m)
      PROVE  IInv'
  <2>1. /\ at[t] \in {"group", "init"} /\ at' = [at EXCEPT ![t] = "lock"]
        /\ asked' = asked \cup {<<t, f, m>>} /\ held' = held
        /\ UNCHANGED <<main, startup, network, client, cancelled, groups>>
        /\ \A r \in asked \cup held : r[1] # t
        /\ wanted' = [wanted EXCEPT ![t] = NoType]
        /\ at[t] = "group" => groupMutex' = groupMutex /\ groupMutex = NoThread
        /\ at[t] = "init" => groupMutex' = NoThread
    BY <1>8 DEF GroupFound, GroupMade, Locks!Ask
  <2>2. TypeOK'
    BY <1>0, <2>1 DEF TypeOK
  <2>3. LocksFollow'
    BY <1>0, <2>1 DEF LocksFollow
  <2>4. Counted' /\ CancelledAll' /\ NobodyLeft'
    BY <1>0, <2>1 DEF Counted, CancelledAll, NobodyLeft, Alive
  <2>5. MutexFollows'
    BY <1>0, <2>1, FileServerAssumption DEF MutexFollows, Threads
  <2> QED
    BY <2>2, <2>3, <2>4, <2>5 DEF IInv
<1> QED
  BY <1>1, <1>2, <1>3, <1>4, <1>5, <1>6, <1>7, <1>8 DEF Serve

\* Clients that connect touch no thread.
LEMMA ConnectIInv ==
  ASSUME IInv, NEW c \in Clients, Connect(c)
  PROVE  IInv'
<1>1. Append(backlog, c) \in Seq(Clients)
  BY AppendProperties DEF IInv, TypeOK
<1>2. TypeOK'
  BY <1>1 DEF IInv, Connect, TypeOK, startup, serving, grouping, locks
<1>3. Counted' /\ CancelledAll' /\ LocksFollow' /\ MutexFollows' /\ NobodyLeft'
  BY DEF IInv, Connect, startup, serving, grouping, locks, Counted, CancelledAll, LocksFollow,
         MutexFollows, NobodyLeft, Alive
<1> QED
  BY <1>2, <1>3 DEF IInv

-----------------------------------------------------------------------------
\* The invariant holds in every reachable state of the server.
THEOREM InductiveInvariant == Spec => []IInv
<1>1. IInv /\ [Next]_vars => IInv'
  <2> SUFFICES ASSUME IInv, [Next]_vars PROVE IInv'
    OBVIOUS
  <2>1. CASE UNCHANGED vars
    BY <2>1 DEF vars, startup, network, serving, grouping, locks, IInv, TypeOK, Counted, CancelledAll,
                LocksFollow, MutexFollows, NobodyLeft, Alive
  <2> QED
    BY <2>1, StartUpIInv, LoopIInv, EndIInv, ThreadIInv, ConnectIInv DEF Next
<1> QED
  BY InitIInv, <1>1, PTL DEF Spec

\* The server's data is well typed; in particular the accept loop selects on a bound
\* socket, and the socket queue never exceeds its capacity.
THEOREM TypeCorrect == Spec => []TypeOK
<1>1. IInv => TypeOK
  BY DEF IInv
<1> QED
  BY <1>1, InductiveInvariant, PTL

\* When the server has freed its data no request thread is left, for any number of
\* threads and whatever failed or was in progress; a lock without a living owner is one
\* of a thread that was cancelled in the DAO, and the mutex of the groups without one that
\* of a thread that was cancelled while it made a group.
THEOREM FreedUnused == Spec => []NothingUsedAfterFree
<1>1. IInv => NothingUsedAfterFree
  BY DEF IInv, NobodyLeft, LocksFollow, MutexFollows, NothingUsedAfterFree
<1> QED
  BY <1>1, InductiveInvariant, PTL
=============================================================================
