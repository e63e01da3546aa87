------------------------------ MODULE MtQueue ------------------------------
(***************************************************************************)
(* utils/mt_queue.c: a ring buffer of pointers guarded by one mutex, with  *)
(* one condition variable for readers and one for writers.                 *)
(*                                                                         *)
(* In the file server the accept loop pushes accepted connections and the  *)
(* request threads pop them.  A request thread can be cancelled while it   *)
(* waits inside mtQueue_pop; its cleanup handler then unlocks the mutex    *)
(* (MtQueueThreadCleanup).  The queue is freed after every request thread  *)
(* has been cancelled and joined.                                          *)
(*                                                                         *)
(* The variables are touched only with the mutex held and the only blocking*)
(* call inside a critical section is pthread_cond_wait, so a critical      *)
(* section from the test of the loop to the wait, or to the unlock, is one *)
(* step.                                                                   *)
(***************************************************************************)
EXTENDS Naturals, FiniteSets, Sequences

CONSTANTS
  Producers,   \* the threads that call mtQueue_push
  Consumers,   \* the threads that call mtQueue_pop
  Items,       \* the pointers that are pushed
  Capacity,    \* numEntries of mtQueue_init
  NoItem,      \* the content of a slot that was never written
  NoThread,    \* the owner of a free mutex
  MaxSpurious  \* bound on spurious wake-ups of pthread_cond_wait

Threads == Producers \cup Consumers

ASSUME QueueAssumption ==
  /\ Producers \cap Consumers = {}
  /\ IsFiniteSet(Producers) /\ IsFiniteSet(Consumers)
  /\ NoThread \notin Threads
  /\ NoItem \notin Items
  /\ Capacity \in Nat \ {0}
  /\ MaxSpurious \in Nat

VARIABLES
  queue, front, back, count,  \* the fields of MtQueueData_t
  mutex,      \* the thread that holds data->mutex, or NoThread
  readCond,   \* the threads blocked on data->readCondition
  writeCond,  \* the threads blocked on data->writeCondition
  pc,         \* where each thread is
  arg,        \* the item a producer is pushing
  server,     \* "running", then "stopping" once no thread pushes, then "freed"
  cancelled,  \* the consumers pthread_cancel was called on
  spurious    \* spurious wake-ups so far

ring  == <<queue, front, back, count>>
conds == <<readCond, writeCond>>
env   == <<server, cancelled, spurious>>
vars  == <<ring, mutex, conds, pc, arg, env>>

(***************************************************************************)
(* pc: "out"     outside the queue's functions                             *)
(*     "lock"    in pthread_mutex_lock at the head of push or pop          *)
(*     "test"    holds the mutex, about to test the loop condition         *)
(*     "wait"    blocked in pthread_cond_wait, the mutex released          *)
(*     "relock"  woken, pthread_cond_wait is acquiring the mutex again     *)
(*     "unwind"  cancelled in pthread_cond_wait, acquiring the mutex again *)
(*     "cleanup" cancelled, holds the mutex, the cleanup handler runs      *)
(*     "dead"    the thread has ended                                      *)
(***************************************************************************)
ProducerPcs == {"out", "lock", "test", "wait", "relock"}
ConsumerPcs == ProducerPcs \cup {"unwind", "cleanup", "dead"}

Slots == 0 .. Capacity - 1

Init ==
  /\ queue = [i \in Slots |-> NoItem]
  /\ front = 0 /\ back = 0 /\ count = 0
  /\ mutex = NoThread
  /\ readCond = {} /\ writeCond = {}
  /\ pc = [t \in Threads |-> "out"]
  /\ arg = [p \in Producers |-> NoItem]
  /\ server = "running"
  /\ cancelled = {}
  /\ spurious = 0

-----------------------------------------------------------------------------
\* ++index; index %= capacity
AdvanceUnwrapped(i) == i + 1
Advance(i) == (i + 1) % Capacity

\* No thread is woken: the signal is missing.
WakeNobody(cond) == {{}}

\* pthread_cond_signal: the sets of threads it may wake, one thread blocked on the
\* condition if there is one.
Signal(cond) == IF cond = {} THEN {{}} ELSE {{t} : t \in cond}

\* The caller t returns and the woken threads leave the wait.
ReturnAndWake(t, woken) ==
  pc' = [u \in Threads |-> IF u = t THEN "out"
                           ELSE IF u \in woken THEN "relock" ELSE pc[u]]

\* Entry of mtQueue_push.
Push(p, v) ==
  /\ server = "running"
  /\ pc[p] = "out"
  /\ pc' = [pc EXCEPT ![p] = "lock"]
  /\ arg' = [arg EXCEPT ![p] = v]
  /\ UNCHANGED <<ring, mutex, conds, env>>

\* Entry of mtQueue_pop: the top of the loop of requestProcessingThread.
Pop(c) ==
  /\ server # "freed"
  /\ pc[c] = "out"
  /\ pc' = [pc EXCEPT ![c] = "lock"]
  /\ UNCHANGED <<ring, mutex, conds, arg, env>>

\* pthread_mutex_lock succeeds, or pthread_cond_wait returns with the mutex.
Lock(t) ==
  /\ pc[t] \in {"lock", "relock"}
  /\ mutex = NoThread
  /\ mutex' = t
  /\ pc' = [pc EXCEPT ![t] = "test"]
  /\ UNCHANGED <<ring, conds, arg, env>>

\* The loop of push finds the queue full and waits, releasing the mutex.
PushWait(p) ==
  /\ pc[p] = "test"
  /\ count = Capacity
  /\ mutex' = NoThread
  /\ writeCond' = writeCond \cup {p}
  /\ pc' = [pc EXCEPT ![p] = "wait"]
  /\ UNCHANGED <<ring, readCond, arg, env>>

\* The loop of pop finds the queue empty and waits, releasing the mutex.
PopWait(c) ==
  /\ pc[c] = "test"
  /\ count = 0
  /\ mutex' = NoThread
  /\ readCond' = readCond \cup {c}
  /\ pc' = [pc EXCEPT ![c] = "wait"]
  /\ UNCHANGED <<ring, writeCond, arg, env>>

\* The rest of mtQueue_push: store at back, signal a reader, unlock, return.
PushStore(p) ==
  /\ pc[p] = "test"
  /\ count # Capacity
  /\ queue' = [queue EXCEPT ![back] = arg[p]]
  /\ back' = Advance(back)
  /\ count' = count + 1
  /\ \E woken \in Signal(readCond) :
       readCond' = readCond \ woken /\ ReturnAndWake(p, woken)
  /\ mutex' = NoThread
  /\ arg' = [arg EXCEPT ![p] = NoItem]
  /\ UNCHANGED <<front, writeCond, env>>

\* pop tests the condition with "if" in place of "while": a woken thread takes
\* without looking at count again.
PopTakeUntested(c) ==
  /\ pc[c] = "test"
  /\ front' = Advance(front)
  /\ count' = IF count = 0 THEN Capacity ELSE count - 1
  /\ \E woken \in Signal(writeCond) :
       writeCond' = writeCond \ woken /\ ReturnAndWake(c, woken)
  /\ mutex' = NoThread
  /\ UNCHANGED <<queue, back, readCond, arg, env>>

\* The rest of mtQueue_pop: take from front, signal a writer, unlock, return.
PopTake(c) ==
  /\ pc[c] = "test"
  /\ count # 0
  /\ front' = Advance(front)
  /\ count' = count - 1
  /\ \E woken \in Signal(writeCond) :
       writeCond' = writeCond \ woken /\ ReturnAndWake(c, woken)
  /\ mutex' = NoThread
  /\ UNCHANGED <<queue, back, readCond, arg, env>>

\* pthread_cond_wait may return although nobody signalled.
SpuriousWakeup(t) ==
  /\ spurious < MaxSpurious
  /\ pc[t] = "wait"
  /\ spurious' = spurious + 1
  /\ readCond' = readCond \ {t}
  /\ writeCond' = writeCond \ {t}
  /\ pc' = [pc EXCEPT ![t] = "relock"]
  /\ UNCHANGED <<ring, mutex, arg, server, cancelled>>

-----------------------------------------------------------------------------
\* The accept loop has ended: no thread pushes any more.
Stop ==
  /\ server = "running"
  /\ \A p \in Producers : pc[p] = "out"
  /\ server' = "stopping"
  /\ UNCHANGED <<ring, mutex, conds, pc, arg, cancelled, spurious>>

\* cleanupProcessServerData calls pthread_cancel on a request thread.
Cancel(c) ==
  /\ server = "stopping"
  /\ c \notin cancelled
  /\ cancelled' = cancelled \cup {c}
  /\ UNCHANGED <<ring, mutex, conds, pc, arg, server, spurious>>

\* pthread_cond_wait is a cancellation point: the thread leaves the wait and
\* acquires the mutex before its cleanup handlers run.
CancelInWait(c) ==
  /\ c \in cancelled
  /\ pc[c] = "wait"
  /\ readCond' = readCond \ {c}
  /\ pc' = [pc EXCEPT ![c] = "unwind"]
  /\ UNCHANGED <<ring, mutex, writeCond, arg, env>>

UnwindLock(c) ==
  /\ pc[c] = "unwind"
  /\ mutex = NoThread
  /\ mutex' = c
  /\ pc' = [pc EXCEPT ![c] = "cleanup"]
  /\ UNCHANGED <<ring, conds, arg, env>>

\* Without the cleanup handler the thread ends and keeps the mutex.
CleanupWithoutUnlock(c) ==
  /\ pc[c] = "cleanup"
  /\ pc' = [pc EXCEPT ![c] = "dead"]
  /\ UNCHANGED <<ring, mutex, conds, arg, env>>

\* socketQueueThreadCleanupHandler -> MtQueueThreadCleanup unlocks the mutex.
Cleanup(c) ==
  /\ pc[c] = "cleanup"
  /\ mutex' = NoThread
  /\ pc' = [pc EXCEPT ![c] = "dead"]
  /\ UNCHANGED <<ring, conds, arg, env>>

\* A cancelled thread that is serving a connection ends at one of the
\* cancellation points there.
CancelOutside(c) ==
  /\ c \in cancelled
  /\ pc[c] = "out"
  /\ pc' = [pc EXCEPT ![c] = "dead"]
  /\ UNCHANGED <<ring, mutex, conds, arg, env>>

\* All threads are joined; mtQueue_free hands what is queued to freeFunction.
Free ==
  /\ server = "stopping"
  /\ \A c \in Consumers : pc[c] = "dead"
  /\ server' = "freed"
  /\ front' = (front + count) % Capacity
  /\ count' = 0
  /\ UNCHANGED <<queue, back, mutex, conds, pc, arg, cancelled, spurious>>

-----------------------------------------------------------------------------
ProducerStep(p) == Lock(p) \/ PushWait(p) \/ PushStore(p)

ConsumerStep(c) ==
  \/ Pop(c) \/ Lock(c) \/ PopWait(c) \/ PopTake(c)
  \/ CancelInWait(c) \/ UnwindLock(c) \/ Cleanup(c) \/ CancelOutside(c)

ShutdownStep == (\E c \in Consumers : Cancel(c)) \/ Free

Next ==
  \/ \E p \in Producers : (\E v \in Items : Push(p, v)) \/ ProducerStep(p)
  \/ \E c \in Consumers : ConsumerStep(c)
  \/ \E t \in Threads : SpuriousWakeup(t)
  \/ Stop
  \/ ShutdownStep

\* Every thread that can take a step inside the queue's functions takes one; a
\* shutdown that has begun goes on; a cancelled thread reaches a cancellation
\* point.  Nothing makes a client connect, the server stop, or a request thread
\* come back for another connection (a client may keep it for ever).
Fairness ==
  /\ \A p \in Producers : WF_vars(ProducerStep(p))
  /\ \A c \in Consumers :
       /\ WF_vars(Lock(c) \/ PopWait(c) \/ PopTake(c) \/ UnwindLock(c) \/ Cleanup(c))
       /\ WF_vars(CancelInWait(c))
       /\ WF_vars(CancelOutside(c))
  /\ WF_vars(ShutdownStep)

Spec == Init /\ [][Next]_vars /\ Fairness

-----------------------------------------------------------------------------
\* The items in the queue, oldest first.
Contents == [i \in 1 .. count |-> queue[(front + i - 1) % Capacity]]

PushingCalls == {<<p, arg[p]>> : p \in {p \in Producers : pc[p] # "out"}}
PoppingCalls == {c \in Consumers : pc[c] \in {"lock", "test", "wait", "relock"}}

Fifo == INSTANCE BoundedFifo
          WITH q <- Contents, pushing <- PushingCalls, popping <- PoppingCalls

\* The queue is a bounded FIFO queue: each push and pop takes effect once, in
\* order, and no open call is forgotten while there is room or an item for it.
ImplementsFifo == Fifo!Spec

\* Types, and the ring's geometry: back is count slots after front.
TypeOK ==
  /\ queue \in [Slots -> Items \cup {NoItem}]
  /\ front \in Slots /\ back \in Slots /\ count \in 0 .. Capacity
  /\ server = "freed" \/ back = (front + count) % Capacity
  /\ mutex \in Threads \cup {NoThread}
  /\ readCond = {c \in Consumers : pc[c] = "wait"}
  /\ writeCond = {p \in Producers : pc[p] = "wait"}
  /\ pc \in [Threads -> ConsumerPcs]
  /\ \A p \in Producers : pc[p] \in ProducerPcs
  /\ arg \in [Producers -> Items \cup {NoItem}]
  /\ server \in {"running", "stopping", "freed"}
  /\ cancelled \subseteq Consumers
  /\ spurious \in 0 .. MaxSpurious

Awake == {"lock", "test", "relock"}

\* No lost wake-up: while a request thread sleeps in pop, there are at least as
\* many other threads awake in pop as there are items in the queue, and the same
\* for push and free slots.
NoLostWakeup ==
  /\ readCond # {} =>
       Cardinality({c \in Consumers : pc[c] \in Awake}) >= count
  /\ writeCond # {} =>
       Cardinality({p \in Producers : pc[p] \in Awake}) >= Capacity - count

\* Shutdown: pthread_join of a cancelled request thread returns, wherever in
\* the queue the cancellation met it (cleanupProcessServerData, 399-403).
CancelledThreadEnds ==
  \A c \in Consumers : c \in cancelled ~> pc[c] = "dead"
=============================================================================
