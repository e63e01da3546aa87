---------------------------- MODULE FileLockList ----------------------------
(***************************************************************************)
(* fs_server/file_lock_list.c: a fixed table of readers-writer locks that  *)
(* are lent to the files in use.  An entry belongs to a file id while its  *)
(* use count is positive; an entry whose fileId is FILEID_MAX is free.     *)
(*                                                                         *)
(* lockFile finds or claims an entry with the table's mutex held, releases *)
(* the mutex and then blocks on the entry's rwlock.  releaseFile looks the *)
(* entry up again by file id.  Nothing blocks while the mutex is held      *)
(* (unlocking a rwlock does not), so each critical section is one step.    *)
(*                                                                         *)
(* The callers, processGetRequest and processSaveRequest, ignore what      *)
(* lockFile returns: after a failure ("bare") they go on without a lock    *)
(* and still call releaseFile.                                             *)
(***************************************************************************)
EXTENDS Naturals, FiniteSets

CONSTANTS
  Threads,     \* the request threads
  FileIds,     \* the file ids the threads ask for
  NumEntries,  \* numEntries of fileLockList_init
  FILEID_MAX,  \* the file id that marks a free entry
  NoFile,      \* the file of a thread outside a request
  NoThread,    \* a holder that is no thread: see UndefinedUnlock
  NoEntry      \* the entry of a thread that uses none

\* numEntries and useCount are uint16_t.
UINT16_MAX == 65535

ASSUME LockListAssumption ==
  /\ NumEntries \in 1 .. UINT16_MAX
  /\ NoEntry \notin 1 .. NumEntries
  /\ NoFile \notin FileIds
  /\ NoThread \notin Threads
  /\ IsFiniteSet(Threads)

Entries == 1 .. NumEntries
Modes == {"read", "write"}

VARIABLES
  fileId, useCount,  \* the fields of FileEntry_t, for every entry
  readers, writers,  \* who holds the entry's rwlock, in either mode
  pc,                \* where each thread is
  file, mode,        \* the file a thread asked for, and how
  ent                \* the entry whose rwlock the thread waits for or holds

table   == <<fileId, useCount>>
rwlocks == <<readers, writers>>
request == <<file, mode>>
vars    == <<table, rwlocks, pc, request, ent>>

\* The table is only filled with zeros: no entry is marked free.
InitZeroed ==
  /\ fileId = [e \in Entries |-> 0]
  /\ useCount = [e \in Entries |-> 0]
  /\ readers = [e \in Entries |-> {}]
  /\ writers = [e \in Entries |-> {}]
  /\ pc = [t \in Threads |-> "idle"]
  /\ file = [t \in Threads |-> NoFile]
  /\ mode = [t \in Threads |-> "read"]
  /\ ent = [t \in Threads |-> NoEntry]

Init ==
  /\ fileId = [e \in Entries |-> FILEID_MAX]
  /\ useCount = [e \in Entries |-> 0]
  /\ readers = [e \in Entries |-> {}]
  /\ writers = [e \in Entries |-> {}]
  /\ pc = [t \in Threads |-> "idle"]
  /\ file = [t \in Threads |-> NoFile]
  /\ mode = [t \in Threads |-> "read"]
  /\ ent = [t \in Threads |-> NoEntry]

-----------------------------------------------------------------------------
\* The scans of the table go upwards and stop at the first hit.
IsFirst(e, S) == e \in S /\ \A x \in S : e <= x

FreeEntries == {e \in Entries : fileId[e] = FILEID_MAX}

\* The search for the file is missing: every request claims an entry.
MatchingNothing(f) == {}

\* What "else if(fileId == fileId)" accepts: not the first free entry, which the
\* condition before it takes.
Matching(f) == {e \in Entries : fileId[e] = f /\ ~ IsFirst(e, FreeEntries)}

\* Arithmetic on useCount.
Wrap16(n) == n % (UINT16_MAX + 1)

\* A thread joins a file in use and does not count itself.
LockFileUncounted(t, f, m) ==
  LET candidates == IF Matching(f) # {} THEN Matching(f) ELSE FreeEntries
  IN
  /\ pc[t] = "idle"
  /\ file' = [file EXCEPT ![t] = f]
  /\ mode' = [mode EXCEPT ![t] = m]
  /\ \E e \in candidates :
       /\ IsFirst(e, candidates)
       /\ fileId' = [fileId EXCEPT ![e] = f]
       /\ useCount' = [useCount EXCEPT ![e] = 1]
       /\ ent' = [ent EXCEPT ![t] = e]
       /\ pc' = [pc EXCEPT ![t] = "wait"]
  /\ UNCHANGED rwlocks

\* lockFile up to the unlock of the mutex: join the entry of the file, or claim
\* the first free entry, or return 1.
LockFile(t, f, m) ==
  LET candidates == IF Matching(f) # {} THEN Matching(f) ELSE FreeEntries
  IN
  /\ pc[t] = "idle"
  /\ file' = [file EXCEPT ![t] = f]
  /\ mode' = [mode EXCEPT ![t] = m]
  /\ IF candidates = {}
     THEN pc' = [pc EXCEPT ![t] = "bare"] /\ UNCHANGED <<table, ent>>
     ELSE \E e \in candidates :
            /\ IsFirst(e, candidates)
            /\ fileId' = [fileId EXCEPT ![e] = f]
            /\ useCount' = [useCount EXCEPT ![e] =
                              IF Matching(f) # {} THEN Wrap16(@ + 1) ELSE 1]
            /\ ent' = [ent EXCEPT ![t] = e]
            /\ pc' = [pc EXCEPT ![t] = "wait"]
  /\ UNCHANGED rwlocks

-----------------------------------------------------------------------------
\* The rwlocks are initialised with the default attributes: a writer enters only
\* when no reader is waiting.
WaitingReaders(e) == {t \in Threads : pc[t] = "wait" /\ ent[t] = e /\ mode[t] = "read"}

\* A wrlock that does not exclude the readers.
MayEnterBesideReaders(t, e) == writers[e] = {}

MayEnter(t, e) ==
  /\ writers[e] = {}
  /\ mode[t] = "write" => readers[e] = {} /\ WaitingReaders(e) = {}

\* lockFunction(&existingEntry->rwlock) returns.
Acquire(t) ==
  /\ pc[t] = "wait"
  /\ MayEnter(t, ent[t])
  /\ IF mode[t] = "read"
     THEN readers' = [readers EXCEPT ![ent[t]] = @ \cup {t}] /\ UNCHANGED writers
     ELSE writers' = [writers EXCEPT ![ent[t]] = @ \cup {t}] /\ UNCHANGED readers
  /\ pc' = [pc EXCEPT ![t] = "hold"]
  /\ UNCHANGED <<table, request, ent>>

\* Unlocking a rwlock the caller does not hold is undefined: some holders may lose
\* their lock, or the lock may be left as if one more reader held it.
UndefinedUnlock(e) ==
  \E R \in SUBSET (readers[e] \cup {NoThread}), W \in SUBSET writers[e] :
    /\ readers' = [readers EXCEPT ![e] = R]
    /\ writers' = [writers EXCEPT ![e] = W]

\* pthread_rwlock_unlock
Unlock(t, e) ==
  IF t \in readers[e] \cup writers[e]
  THEN /\ readers' = [readers EXCEPT ![e] = @ \ {t}]
       /\ writers' = [writers EXCEPT ![e] = @ \ {t}]
  ELSE UndefinedUnlock(e)

\* The unlock of the rwlock is missing when other threads still use the entry.
ReleaseFileKeepsRwlock(t) ==
  LET found == {e \in Entries : fileId[e] = file[t]}
  IN
  /\ pc[t] \in {"hold", "bare"}
  /\ \E e \in found :
       /\ IsFirst(e, found)
       /\ useCount' = [useCount EXCEPT ![e] = Wrap16(@ + UINT16_MAX)]
       /\ fileId' = [fileId EXCEPT ![e] = IF useCount'[e] = 0 THEN FILEID_MAX ELSE @]
       /\ IF useCount'[e] = 0 THEN Unlock(t, e) ELSE UNCHANGED rwlocks
  /\ pc' = [pc EXCEPT ![t] = "idle"]
  /\ file' = [file EXCEPT ![t] = NoFile]
  /\ mode' = [mode EXCEPT ![t] = "read"]
  /\ ent' = [ent EXCEPT ![t] = NoEntry]

\* The entry is not marked free when its last user leaves.
ReleaseFileKeepsEntry(t) ==
  LET found == {e \in Entries : fileId[e] = file[t]}
  IN
  /\ pc[t] \in {"hold", "bare"}
  /\ \E e \in found :
       /\ IsFirst(e, found)
       /\ useCount' = [useCount EXCEPT ![e] = Wrap16(@ + UINT16_MAX)]
       /\ Unlock(t, e)
  /\ pc' = [pc EXCEPT ![t] = "idle"]
  /\ file' = [file EXCEPT ![t] = NoFile]
  /\ mode' = [mode EXCEPT ![t] = "read"]
  /\ ent' = [ent EXCEPT ![t] = NoEntry]
  /\ UNCHANGED fileId

\* The entry is freed by the first user that leaves, not by the last.
ReleaseFileFreesShared(t) ==
  LET found == {e \in Entries : fileId[e] = file[t]}
  IN
  /\ pc[t] \in {"hold", "bare"}
  /\ IF found = {}
     THEN UNCHANGED <<table, rwlocks>>
     ELSE \E e \in found :
            /\ IsFirst(e, found)
            /\ useCount' = [useCount EXCEPT ![e] = 0]
            /\ fileId' = [fileId EXCEPT ![e] = FILEID_MAX]
            /\ Unlock(t, e)
  /\ pc' = [pc EXCEPT ![t] = "idle"]
  /\ file' = [file EXCEPT ![t] = NoFile]
  /\ mode' = [mode EXCEPT ![t] = "read"]
  /\ ent' = [ent EXCEPT ![t] = NoEntry]

\* fileLockList_releaseFile: the first entry with the file id loses one user, is
\* free when that was the last one, and its rwlock is unlocked.
ReleaseFile(t) ==
  LET found == {e \in Entries : fileId[e] = file[t]}
  IN
  /\ pc[t] \in {"hold", "bare"}
  /\ IF found = {}
     THEN UNCHANGED <<table, rwlocks>>
     ELSE \E e \in found :
            /\ IsFirst(e, found)
            /\ useCount' = [useCount EXCEPT ![e] = Wrap16(@ + UINT16_MAX)]
            /\ fileId' = [fileId EXCEPT ![e] = IF useCount'[e] = 0 THEN FILEID_MAX ELSE @]
            /\ Unlock(t, e)
  /\ pc' = [pc EXCEPT ![t] = "idle"]
  /\ file' = [file EXCEPT ![t] = NoFile]
  /\ mode' = [mode EXCEPT ![t] = "read"]
  /\ ent' = [ent EXCEPT ![t] = NoEntry]

-----------------------------------------------------------------------------
Next ==
  \E t \in Threads :
    \/ \E f \in FileIds, m \in Modes : LockFile(t, f, m)
    \/ Acquire(t)
    \/ ReleaseFile(t)

\* A thread whose rwlock can be entered enters it, and the work done under a lock
\* ends.  Nothing makes a client send a request.
Fairness == \A t \in Threads : WF_vars(Acquire(t)) /\ WF_vars(ReleaseFile(t))

Spec == Init /\ [][Next]_vars /\ Fairness

-----------------------------------------------------------------------------
(***************************************************************************)
(* The two conditions under which the list works.  No file id equals the   *)
(* marker of a free entry, and there is an entry for every thread: a group *)
(* creates its list with numRequestThreads entries.                        *)
(***************************************************************************)
NoSentinelId  == FILEID_MAX \notin FileIds
EnoughEntries == Cardinality(Threads) <= NumEntries

TypeOK ==
  /\ fileId \in [Entries -> FileIds \cup {FILEID_MAX}]
  /\ useCount \in [Entries -> 0 .. UINT16_MAX]
  /\ readers \in [Entries -> SUBSET (Threads \cup {NoThread})]
  /\ writers \in [Entries -> SUBSET Threads]
  /\ pc \in [Threads -> {"idle", "wait", "hold", "bare"}]
  /\ file \in [Threads -> FileIds \cup {NoFile}]
  /\ mode \in [Threads -> Modes]
  /\ ent \in [Threads -> Entries \cup {NoEntry}]

Users(e) == {t \in Threads : ent[t] = e}

\* Every waiting or holding thread is counted in an entry that carries its file
\* id, entries in use belong to different files, and an entry is free exactly when
\* nobody uses it.  So the look-up by file id in releaseFile finds the entry that
\* the thread locked, however often entries were recycled in between.
TableExact ==
  /\ \A e \in Entries :
       /\ useCount[e] = Cardinality(Users(e))
       /\ (fileId[e] = FILEID_MAX) <=> (Users(e) = {})
  /\ \A t \in Threads : ent[t] # NoEntry => fileId[ent[t]] = file[t]
  /\ \A e1, e2 \in Entries :
       fileId[e1] = fileId[e2] /\ fileId[e1] # FILEID_MAX => e1 = e2

\* The rwlock of an entry is held by exactly the threads that work on the entry's
\* file, in the mode they asked for, and a writer holds it alone; a free entry is
\* lent out again only with its rwlock unlocked.
HoldersExact ==
  /\ \A e \in Entries :
       /\ readers[e] = {t \in Users(e) : pc[t] = "hold" /\ mode[t] = "read"}
       /\ writers[e] = {t \in Users(e) : pc[t] = "hold" /\ mode[t] = "write"}
       /\ \A t \in writers[e] : readers[e] = {} /\ writers[e] = {t}
  /\ \A t \in Threads :
       /\ pc[t] \in {"wait", "hold"} => ent[t] # NoEntry /\ file[t] \in FileIds
       /\ pc[t] = "idle" => ent[t] = NoEntry /\ file[t] = NoFile

\* Mutual exclusion per file: while a thread works on a file it asked to write,
\* no other thread works on that file, whichever entries they went through.
FileExclusion ==
  \A t, u \in Threads :
    /\ pc[t] \in {"hold", "bare"} /\ pc[u] \in {"hold", "bare"}
    /\ t # u /\ file[t] = file[u]
    => mode[t] = "read" /\ mode[u] = "read"

\* lockFile never returns 1, the result its callers ignore.
LockNeverFails == \A t \in Threads : pc[t] # "bare"

\* The lock list implements one readers-writer lock per file id.
RWLocks == INSTANCE FileRWLocks
             WITH asked <- {<<t, file[t], mode[t]>> : t \in {u \in Threads : pc[u] = "wait"}},
                  held  <- {<<t, file[t], mode[t]>> : t \in {u \in Threads : pc[u] = "hold"}}
ImplementsRWLocks == RWLocks!Spec

\* A read request is granted: readers cannot be starved.
ReaderGranted ==
  \A t \in Threads : (pc[t] = "wait" /\ mode[t] = "read") ~> pc[t] = "hold"

\* A thread that waits for a file waits for a thread that works on that file: no
\* lock stays taken when its holder has released the file.
NeverBlockedByNobody ==
  \A t \in Threads :
    pc[t] = "wait" ~> (\/ pc[t] # "wait"
                       \/ \E u \in Threads : pc[u] = "hold" /\ file[u] = file[t])
=============================================================================
