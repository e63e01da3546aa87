# A TLA+ model of the sharded storage servers

The repository is a collection of unrelated programs. This project is about two of
them: `src/FileServerShardable`, a threaded TCP server that stores items under a
type and an id, several items to a file, and serves them concurrently; and what
`src/SearchServerShardable` adds to the same skeleton, a cache of the items in
memory and searches over it. Paths below are relative to the first directory unless
they begin with one of `cache_engine/`, `profile_server/` and `documentation/ferrari`,
which are in the second.

1. [The system](#1-the-system)
2. [The modules](#2-the-modules)
3. [The runs](#3-the-runs)
4. [Fairness](#4-fairness)
5. [The proofs](#5-the-proofs)
6. [What the code does differently from what it says](#6-what-the-code-does-differently-from-what-it-says)
7. [Only model-checked, and not modelled](#7-only-model-checked-and-not-modelled)
8. [Plan](#8-plan)

Commands, in this directory:

    tlc -workers 2 -config MCFileStore.cfg MCFileStore    # a run
    tlapm FileLockListProofs.tla                          # proofs

## 1. The system

A client connects, sends packets (get a file, save a file, ping, end of
connection) and reads one answer to each. One thread runs the accept loop,
`fileServer_run`; `numConnections` request threads serve one connection each.

```
 clients --TCP--> accept loop --SocketStore*--> socket queue --> request threads
                  (file_server.c)               (mt_queue.c)     (request_processing.c)
                                                                    |
                                   file groups: one per file type   | getCreateFileGroupDao
                                   (file_server.c)                  v
                              lock list of the group <---- lock file id = id / numItemsPerFile
                              (file_lock_list.c)                    |
                                                                    v
                              DAO of the group (daos.c) --> files of records on disk
                                                            (files.c, file_table.c)
```

| component | state | operations | what is hard | what makes it correct |
|---|---|---|---|---|
| socket queue, `utils/mt_queue.c` | ring, front, back, count; a mutex, two conditions | push, pop, free, the clean-up handler of a cancelled pop | several sleepers and one signal, spurious wake-ups, cancellation inside a wait | FIFO, no lost wake-up, cancelled threads end |
| file lock list, `fs_server/file_lock_list.c` | a table of (file id, use count, rwlock) | lock for read or write, release | entries are recycled; the table is unlocked before the rwlock is entered; release looks the entry up again; a file id serves as the marker of a free entry | mutual exclusion per file, never without an entry, nobody waits for a lock nobody holds |
| file groups, `fs_server/file_server.c:683` | the table of groups, its length, a mutex | find or append the group of a type | a search without the mutex races with the append; initialisation can fail | one group per type, complete when it is returned, the mutex free afterwards |
| record files, `daos/files.c`, `daos/file_table.c` | version, capacity, number of items, a table of offsets and sizes, the records | write a new file, replace a record, update the table, read an item | every save of another size moves all later offsets; 32-bit offsets | the table describes the file exactly |
| DAO, `daos/daos.c` | the files | save, get; file names; flat files when there is one item per file | a kill or a failed write at any point; rename | an answered item is found until it is replaced, and only whole |
| request processing, `fs_server/request_processing.c` | per connection: a packet | receive, validate, dispatch, answer | timeouts in the middle of a packet, wrong types and sizes | one answer to each request, in order |
| server life cycle, `fs_server/file_server.c` | threads, sockets, end event | start, accept loop, stop | cancelling threads that hold locks of files or the mutex of the groups; the accept loop blocked in push | the server stops |
| client library, `fs_client/fs_client.c` | a connection | send a file, get a file, ping, end | answers of variable length | reads exactly one answer per request |
| cache engine, `cache_engine/cache_engine.c` | the cached items by index, the largest index, pending items, three numbers about the stored items | load a directory with several threads, store a saved item, commit the pending ones | loading threads without a lock, a bounded list of pending items, stores after the file was released | the cache is what the files say |
| search engine, `profile_server/search_engine.c` | searches, each with the ranges left; a queue of ranges | start, status, results, remove, expire | pointers used after an unlock, an id read twice, a cache that grows meanwhile | complete results, the right search, nothing freed in use |

The search server is the same skeleton with older copies of the queue, the lock list
and the DAO; what is new in it is between the requests and these:

```
 save request --> file lock, daos_saveItem --> cacheEngine_storeItem --> pending items
                                                                           | every period
 start request --> ranges --> queue --> search threads -- read lock --> cached items
 status, results, remove requests <-- list of searches <-- expiry every minute
```

Logger, profiling and the command-line applications keep no state that these
depend on. `MicroServiceShardable` is one more service on the skeleton. The other
directories of the repository are separate programs; PROJECT.json lists the larger
ones.

## 2. The modules

Each detailed module implements an abstract one: the detailed specification is
checked to have the abstract one as a property, under a refinement mapping given
with `INSTANCE ... WITH` at its end.

| module | models | promises |
|---|---|---|
| `MtQueue` | `utils/mt_queue.c` with the threads that use it | `BoundedFifo` |
| `FileLockList` | `fs_server/file_lock_list.c` with the requests that use it | `FileRWLocks` |
| `FileGroups` | `getCreateFileGroupDao` | `GroupRegistry` |
| `RecordFile` | the format of a file: operators only | |
| `FileStore` | `daos/daos.c`, saves and gets on one file of records | `KeyValueStore` |
| `RequestStore` | `request_processing.c` over the lock list and `daos/daos.c`, flat files and files of records | `AtomicStore` |
| `FileServer` | the life of the server, `fs_server/file_server.c`, over `BoundedFifo` and `FileRWLocks` | |
| `Connection` | `request_processing.c` and `fs_client/fs_client.c` on the two ends of a connection | |
| `CacheEngine` | `cache_engine/cache_engine.c` with the loading and the saving threads | |
| `SearchEngine` | `profile_server/search_engine.c` with the requests that use it | |
| `MtQueueProofs`, `FileLockListProofs`, `StorageProofs`, `RequestStoreProofs`, `FileServerProofs`, `ConnectionProofs`, `CacheEngineProofs`, `SearchEngineProofs` | theorems | |

**MtQueue.** `queue`, `front`, `back`, `count` are the fields of `MtQueueData_t`;
`mutex` is its owner; `readCond` and `writeCond` are the threads blocked on the two
conditions. Threads differ in `pc`. Everything the queue reads or writes is under
the mutex and the only blocking call in a critical section is
`pthread_cond_wait`, so a critical section is one step from the test of the loop
to the wait (`PushWait`, `PopWait`) or to the unlock (`PushStore`, `PopTake`). A
signal wakes one blocked thread if there is one, which then competes for the mutex
with the threads that arrive (`Lock`). Waking up for no reason is
`SpuriousWakeup`. The shutdown is `Stop` (the accept loop ends), `Cancel`,
`CancelInWait`, `UnwindLock` and `Cleanup` (a cancelled thread leaves
`pthread_cond_wait` with the mutex, and its handler unlocks it), and `Free`.
A popped socket is not kept: what a request thread does with it is a stay at
`"out"` of any length, and `CancelOutside` stands for the cancellation points there.

**FileLockList.** `fileId` and `useCount` are the fields of an entry; the rwlock of
an entry is its `readers` and `writers`. The code between locking and unlocking
the table's mutex does not block, so each critical section is one step:
`LockFile` up to the unlock, then `Acquire` when the rwlock is entered, then
`ReleaseFile`. The three searches stop at the first hit, as the loops do, and
`Matching` has the `else if` of the code: the first free entry is never compared
with the file id. `useCount` has 16 bits. What POSIX leaves undefined, unlocking a
rwlock the caller does not hold, is a choice among the states it can leave
(`UndefinedUnlock`). A request whose `lockFile` failed goes on `"bare"`, without a
lock, and releases all the same, because the callers ignore the result. A waiting
reader enters before a waiting writer: the rwlocks have default attributes.

**FileGroups.** The locked search is one step, as only an owner of the mutex
writes. The search without the mutex is one step per group, and the stores of the
thread that appends (`StoreUsed`, `StoreType`, `StoreNumItemsPerFile`,
`InitFileList`, `InitDaos`) are steps of their own; the first three may become
visible in any order, because nothing between them keeps the compiler or the
processor from reordering them and the search takes no lock. `loaded` gives the
build the liberty to read `fileGroupsUsed` once per search or once per round.
The table has room for 1000 types and a type on the wire has 8 bits, so only a
smaller table fills up; the code's test for it is modelled like any other branch.

**RecordFile and FileStore.** A file is a sequence of words, one for each field of
the header and of the table, one for a record's header, one for its trailer, and
some for an item. `RecordFile` has the functions of `files.c` and `file_table.c` as
operators. `FileStore` runs a save: the first one of a file appends the table and
the records word by word (`AppendWord`) and then overwrites entries of the table
word by word (`OverwriteWord`), in place; a later one writes a temporary file,
which nobody reads, and renames it (`Rename`). `Stop` ends the save after any word:
the server is killed, or a write fails and the function returns an error, which
leaves the same bytes behind. `StopPhases` says in which phases that happens.
Offsets are reduced modulo `OffsetLimit`, as the 32 bits of `DaosOffset_t` are.
`allowed` is a history variable: what a get may find, given the saves that were
answered. The file's rwlock is held during saves and gets, so there is one save
at a time and gets are between saves; that this is so is what `FileLockList` is for.

**RequestStore.** It composes `FileLockList`, taken with `INSTANCE` as the lock
list of one group, with the files. `Receive` is a request up to and with
`lockFile`, `Enter` the grant of the rwlock; the actions from `GetMissing` to
`RecordRead` are the DAO call, one per access to a file; `Release` and `Answer`
end the request. `disk` has the files by path: `PathOf` is `generateFilename`,
whose directories depend on the id alone (so two ids with the same file id may be
in different files), and `LockOf` the division in `request_processing.c`. A flat
file is a sequence of words, truncated and appended to; a get measures it and
reads as much, and the packet that is sent is as long as the item's own header
says, so from a short file it contains whatever was in memory (`GARBAGE`). Of a
file of records only the map from ids to items is kept, since its bytes are the
subject of `FileStore`; creating one is two steps, replacing one a copy and a
rename. `Crash` is a kill with a restart: threads and locks begin anew, the files
stay. A creation that fails (`RecordCreateFails`: the error returns of
`saveItemToNewFile`) or is killed leaves a file that later requests find and trust. It
has either nothing that a get returns, or is `BROKEN`: what its words are is the
subject of `FileStore`, and here a get of any of its ids may return anything, a save may
succeed or fail, and the file stays broken.

`AtomicStore` is the promise: each get and save takes effect at one moment between
its call and its answer. What it allows beyond that is said in it: a save may
fail, and a save that fails or is killed after its effect leaves its item damaged,
of which gets may return anything until the next save. A damaged item was being
written; no other may change. The exception is the save that creates a file: if none of
the items that share it (`Sharing`) is stored, the failure or the kill may leave all of
them `BROKEN`, for good. Items of other files are not touched, and a save that finds one
item of its file stored breaks nothing.

**FileServer.** `main` is where `fileServer_run` is: the steps of
`initProcessServerData` and `listen`, the accept loop (`select`, `push`), and
`cleanupProcessServerData` (`cancel`, `join`). Every failure of the code leads to
its own clean-up, or to none (`CreateEvent`). `sockt` can be the `code` of an
error, as the test for a failed `initServerSocket` has the wrong sign.
The model composes two components by what they are shown to implement: `Push` and
`Pop` take the steps `Put` and `Take` of an instance of `BoundedFifo`, and
`ReceiveFor`, `Lock` and `Release` the steps of an instance of `FileRWLocks`. `ReceiveFor`
is a request whose group the search without the mutex finds. Any other goes through
`getCreateFileGroupDao`: it waits for `fileGroupMutex` (`ReceiveNew`), finds the group on
the second search (`GroupFound`), or makes it (`GroupMissing`, `CountGroup`, `GroupMade`)
or fails to (`GroupFails`) while it holds the mutex. `groups` is the set of the types
counted so far; each has its own lock list, so the locks are those of pairs of a type and
a file. `Die` is a cancelled thread at a cancellation point: it takes its lock of a file
along, or the mutex of the groups when it is in the log or in `mkdir`, because no
clean-up handler releases them. `Stop` is the signal handler.
The clients are `Connect` and the freedom of a thread's next step: a request that
locks a file or none, or the end of the connection.

**Connection.** A request is a header and perhaps a body, an answer two to four
pieces; `toServer`, `arrived` and `stream` are what TCP has in transit. A client
makes one call at a time; what it reads, and whether it then closes its socket,
differs from call to call as in the code (`Fixed`, `ReturnFixed`, `ReturnWhole`).
Four more kinds of calls stand for other clients, among them a packet type the
server lets through but does not know. The timeouts are `HeaderLate`, `BodyLost` and
`SendFails`, possible whenever the server waits, so a slow peer, a silent one and
one that left are all there. A connection closed with unread input may lose
what was sent (`Close`).

**CacheEngine.** A version of an item is a number, in the files (`disk`), in the
list of pending items and in the cache. Loading is parallel: `TakeFiles` is the
critical section of the directory, `LoadItem`, `Compare` and `Raise` the unlocked
store into the cache, and `Join` adds up what the threads found. The ids begin at 0,
which the code also takes for "no smallest id yet" (`Noted`). A save is
`Lock`, `SaveItem`, then `UpdateInfo` and `Store`, before or after the file is
released depending on the request (`Release`, or `NextItem` and `ReleaseList`).
`Commit` is a round of `cacheEngine_run`. Three history variables say where the
code is known to go wrong (`doubtful`, `skipped`, `blurred`), so that the properties
can say that it goes wrong nowhere else.

**SearchEngine.** A search is a record with the ranges left (`pending`) and how often
each profile was scored. `Prepare` to `BumpId` are `prepareSearch`, which reads
`nextSearchId` twice and without a lock; `Pop`, `Score`, `Finish` and `Unlock` a search
thread. There are two mutexes. A thread counts off its range (`Finish`) and goes on using
the search until `Unlock` under that of the search alone (`held`); the status, the
removal and the expiry take that of the list alone, so they see the count at once and
come in between. `Status` and `StatusTold` are the two reads of the status, which keeps
the mutex of the list from one to the other (`ListUnlocked`), while a merge may set the
divisor to 0. `Lookup`, `Merge` and `Reply` are the request for results, which unlocks
the list between the first two; `End` the removal; `Round` a minute of
`searchResultsThread`, which ages completed searches, deletes some that are old
enough, and passes over the one after a deleted one. `PrepareFails` is a failed
allocation of a range or of a list item; `HeapFails` that of a heap, after which the
search is freed twice. The use of freed memory, the second free included, is
undefined: unnoticed (`UseFreed`) or fatal (`Crash`); what it does to other searches is
outside the model. `Crash` has three more causes: a failed allocation of the score lists,
after which uninitialised and freed memory is freed (`InitFails`), a merge that fails and
hands NULL on as the JSON object (`MergeFails`), and the division by zero
(`DividesByZero`). `RangeSize`, `LowOf`, `HighOf` and `NumRanges` are the arithmetic of
`prepareSearchThreadArgs`.

## 3. The runs

| run | instance | states | result |
|---|---|---|---|
| `queue`: MCMtQueue.cfg | 2 producers, 2 consumers, 2 items, capacity 2, 1 spurious wake-up | 53,134 | pass |
| `locks`: MCFileLockList.cfg | 3 threads, 3 entries, 4 files | 24,985 | pass |
| `groups`: MCFileGroups.cfg | 2 threads, 3 types, a table of 2 groups | 181,204 | pass |
| `groups_ready`: MCFileGroupsReady.cfg | 2 threads, 2 types, a table of 2 groups | | violation |
| `store`: MCFileStore.cfg | 3 ids in a file, 3 items of one and two words, stops in the temporary file and before the answer | 240,808 | pass |
| `store_stop`: MCFileStoreStop.cfg | the same, stops everywhere | | violation |
| `requests_flat`: MCRequestStoreFlat.cfg | 3 threads, 2 ids in 2 flat files, 2 items of two words, kills | 499,583 (threads symmetric) | pass |
| `requests_records`: MCRequestStoreRecords.cfg | 2 threads, 3 ids of one lock in 2 files, 2 items, kills | 134,413 | pass |
| `server`: MCFileServer.cfg | 2 request threads (and queue and backlog of 2), 3 clients, 2 types with 1 file each, 1 signal | 144,533 | pass |
| `connection`: MCConnection.cfg | all kinds of calls, 3 calls, 2 pieces in the network | 47,396 | pass |
| `cache`: MCCacheEngine.cfg | ids 0, 1 and 2 in 2 files, any files at the start, 1 or 2 loading threads, 2 savers, 3 saves, 2 pending items | 5,251,412 (savers symmetric) | pass |
| `search`: MCSearchEngine.cfg | 2 clients, 2 search threads, 2 searches, a queue of 2 ranges, 2 or 3 profiles | 460,551 | pass |

**queue.** `ImplementsFifo`: each push and pop takes effect once and in order, and
as long as a call is open and the queue has room, or an item, some call takes
effect. `NoLostWakeup`: while a thread sleeps in pop, at least as many others are
awake in pop as there are items, and likewise for push; this is the invariant
behind the liveness half of `ImplementsFifo`. `CancelledThreadEnds`: the joins of
the shutdown return, wherever in the queue the cancellation met the thread. Two
threads on each side are the fewest with which a woken thread can be overtaken by
one that arrives; capacity 2 lets the ring wrap at different times for front and
back, and with two distinct items a swap is visible. `MaxSpurious` bounds the
spurious wake-ups; a second one repeats what the first can do, since nothing
remembers it. Deadlock is not checked: the queue is freed at the end.

**locks.** `TableExact`: use counts are exact, files in use have different entries,
free entries have no users, so `releaseFile` finds the entry that was locked.
`HoldersExact`: a rwlock is held by exactly the threads that work on the entry's
file, and an entry is lent out again only unlocked. `FileExclusion` states mutual
exclusion by file, without mentioning entries. `LockNeverFails`: the result the
callers ignore is never a failure. `ImplementsRWLocks`: the list is as good as one
rwlock per file id. `ReaderGranted` and `NeverBlockedByNobody` are its liveness: a
reader enters, and a thread that waits is waiting for a thread that works on the
same file. Three threads are needed for two holders and a waiter; with as many
entries as threads and one file more, every entry is freed and claimed by another
file while others are in use. The run meets the two conditions under which the
code works: `EnoughEntries` (a group makes its list with `numRequestThreads`
entries) and `NoSentinelId` (no file id equals FILEID_MAX); section 6 says what
happens without the second.

**groups.** `ImplementsRegistry`: a type gets one group, for good, and every
look-up is answered with the group of its type or NULL, whatever the racing
searches saw. `MutexFreed`: every path through the locked part, its four error
returns included, frees the mutex; threads are not cancelled in this run, which is what
`server` adds. Two threads race for one type; three types fill
a table of two. `groups_ready` asks whether a group that is returned is complete.

**store.** `LayoutExact`: between saves the table describes the file exactly,
after any sequence of replacements by longer, shorter and equal items. `Durable`:
an answered item is found until a later save of its id takes effect; saves of
other ids, stopped saves and restarts do not matter, and an item is found only
whole. `ImplementsStore`: a save changes the map at one id and at once, at the
rename. Three ids give a record with neighbours on both sides; the ids are 3 to 5,
so that positions are not the ids. One- and two-word items make records grow,
shrink and stay as long as they were (the early return of the table's update); two
items of the same length differ in content. `OffsetLimit` is larger than the
longest file: the runs show the negative differences, which need the reduction,
but no overflow. `StopPhases` leaves out the phases in which a new file is written
in place; `store_stop` has them.

**requests.** `ImplementsAtomicStore` maps a save of a flat file to its truncation
and everything else to the end of its DAO call; it fails as soon as two saves of a
file, or a get and a save, overlap. In `requests_flat` a kill meets saves at every
word; three threads give two that contend for a file and one on another, and two
words are the fewest of which a get can see a part. In `requests_records`
ids 3, 4 and 5 share a lock, with three items to a file, and 4 and 5 a file, with
directories of four ids; with the lock taken by id and not by file, the saves of 4
and 5 undo each other. Creations fail and are killed, so that files break under gets and
saves of the same file and of the other one. `GetAnswered`: no get waits for ever,
whatever fails in the requests before it. `TypeOK` also ties the progress of a
request to what its thread holds.

**server.** `NothingUsedAfterFree`: whichever step of the start-up failed, and
whatever the threads were doing, nobody is left to use what the clean-up frees, and
a lock without an owner is one of a thread cancelled in the DAO, and `fileGroupMutex`
is left locked only by a thread cancelled while it made a group. `StopEnds`: a
signal, or a failure, ends the server, unless a thread waits for a lock whose
holder was cancelled (`Orphaned`), or for the mutex of the groups, whose owner was
(`GroupOrphaned`), or all threads keep their connections for ever while the accept loop
waits for room in the queue (`PushBlocked`); all three happen in the model, and nothing
else in it keeps the server. `ConnectionServed`: a connection is served, unless the server
stops or all threads keep theirs. Two threads are needed for the orphaned lock or mutex,
two types for a wait at the mutex that is not about the same group, three
clients for a full queue behind two kept connections.

**connection.** `Framed`: timeouts in the middle of a packet never make the server
take a body for a header; it closes, because a body that is late cannot be told
from a header. `OwnAnswer`: a call returns the bytes of its own answer, unless a
save came before it on the connection. `CallReturns`: no call waits for ever,
because the server closes a connection without requests; this is what saves a call
whose packet type the server does not answer. Three calls let a call, its half-read
answer and a later call meet; with two pieces in the network an answer of three
blocks its sender.

**cache.** `CacheFresh`: once the saves of an id are through, the cache has the
item of the file, unless they crossed or the last one was refused. `Searchable`:
no cached item is out of the searches' reach, unless loading threads overwrote each
other's largest index. `InfoExact`: the three reported numbers, after loading and
after every save, again with the exceptions named. The ids are 0 to 2, so 0 is read,
joined and saved in every order with the others: while it is one of the ids, the
property says of the smallest only that it is one of them. The files at the start are any
that earlier runs could leave, logical deletes included. Two files give two loading
threads something to do, and two ids in one of them a list of items that is saved
under one lock and then moves on to another file; three saves overfill the list of
two pending items.

**search.** `ResultsComplete`: when a search is reported as completed, each profile
of the start was scored once, however the cache grew meanwhile. `OwnSearch`: a
client's id finds its own search or, later, none, unless starts overlapped.
`NotUsedAfterFree`: nothing freed is in use, unless a search was removed
while it ran, or it was removed or expired while its results were being fetched or the
thread that counted off a range still had its mutex, or no heap could be had for it;
expiry never hits one with ranges left. A client that is told 100 percent and ends its search
can do so under the last thread: the run has it, between `Finish` and `Unlock`.
`SearchCompletes`: every listed search completes, through a queue with room for one
search. The instance starts with two profiles, for which the first range is already
the open one, so that the profile that is added meanwhile is searched too, or the
search starts with three and has two ranges, a closed one and an open one. Ranges that
are all closed need four profiles; for these there is the theorem `AllScoredOnce`.

## 4. Fairness

- `MtQueue`: a thread inside push or pop takes the steps open to it (the threads
  are scheduled, and the mutex is held for a few instructions); a shutdown that has
  begun goes on; a cancelled thread reaches a cancellation point, as everything a
  request thread does outside the queue is reads and writes on sockets and files
  with timeouts. No fairness for `Push`, `Pop`, `Stop` or `SpuriousWakeup`: no
  client must connect, no request thread must come back from a connection, and the
  server need not stop.
- `FileLockList`: a thread that can enter a rwlock enters it, and a thread that
  works on a file releases it, since the DAO calls end. Only weak fairness of
  `Acquire`: a writer that is overtaken by readers for ever is not promised anything.
- `FileGroups`: the owner of the mutex goes on. No fairness for `Lock`: nothing
  says to which thread a pthread mutex is given.
- `RequestStore`: a thread whose rwlock can be entered enters it, and a thread in the
  DAO, or with an answer to send, goes on; none for `Receive` and `Crash`.
- `FileServer`: the main thread goes on, and a thread that serves a connection does
  too, since receiving and sending have timeouts and a group is made in a few calls; it
  gets a mutex that stays free. Strong fairness of `Die`, as a
  cancelled thread passes a cancellation point in every request, unless it waits for
  a lock or a mutex. None for `Connect`, `Stop` and `LoopFails`.
- `Connection`: the client reads what has come, TCP delivers, the thread runs and its
  waits end. None for `Call`, `Leave` and the failures.
- `SearchEngine`: the search threads run, and a request that starts a search goes on.
- `FileStore` and `CacheEngine` have safety properties only.

## 5. The proofs

`FileLockListProofs` proves, for any finite set of threads, any set of file ids and
any number of entries, under the two conditions above:

| theorem | states |
|---|---|
| `InductiveInvariant` | `Spec => []IInv` |
| `TypeCorrect` | `Spec => []TypeOK` |
| `TableIsExact` | `Spec => []TableExact` |
| `NeverOutOfEntries` | `Spec => []LockNeverFails` |
| `MutualExclusionPerFile` | `Spec => []FileExclusion` |
| `RwlocksAreExact` | `Spec => []HoldersExact` |
| `RefinesFileRWLocks` | `Spec => ImplementsRWLocks` |
| `NeverAllWait` | `Spec => []SomebodyProceeds` |

Mutual exclusion is not inductive. Releasing a lock unlocks the entry that carries
the file id, so it has to be the entry the thread holds, and no other thread's
lock may go with it: that is `TableExact` and `HoldersExact`. Freeing an entry when
its count reaches 0 is right only if the count is the number of users, so
`TableExact` counts them with `Cardinality`; its preservation uses the facts about
the cardinality of a finite set with an element more or less, and that the 16-bit
decrement of a positive count does not wrap. There is a free entry whenever an idle
thread asks: the users of different entries are disjoint, and a choice of one
user per entry in use is an injection into the threads other than the one that
asks, of which there are fewer than entries. The invariant `IInv` is the
conjunction of `TypeOK`, `TableExact`, `HoldersExact` and `LockNeverFails`;
`FileExclusion` follows from it, and so does the refinement: the lock that a step
takes or gives back in `FileRWLocks` is that of the thread's file because the holders
are exact and different entries in use belong to different files. `NeverAllWait` says of a
state what fairness makes a liveness property of: on a file somebody waits for, somebody
has the lock, or may take it now. The threads of one file use one entry, whose holders
are exact, so an rwlock is never left locked by nobody, and no thread waits for a lock
while it holds another.

The assumptions are `LockListAssumption` (the constants are what their comments
say), `NoSentinelId` and `EnoughEntries`; without the second a thread can
wait for ever (section 6), and without the third `lockFile` fails.

`SearchEngineProofs` proves `RangesPartition`: for any number of profiles and of
search threads the ranges of a search begin at the first profile, follow each other
without gap or overlap, and the last one is open or ends at the last profile. The
code computes them with a rounded-up division and lets 0 stand for an open end, also
when the first range ends at profile 0; the proof goes through the bounds of the
rounded quotient (`RangeSizeBounds`) and the first open range (`NumRangesChosen`).
`AllScoredOnce` and `FreedSearchUnused` follow a range from the start of its search to
its score, from `SearchEngineAssumption` alone. The invariant `SInv` says that a range
is with the client that has not pushed it, in the queue or with a thread, in one of these
places only (`RangeInv`); that a search waits for exactly as many ranges as are left
(`Counted`), unless it was ended before; that a profile of the start that has no score is
in a range that is not scored yet, and one with a score in no such range, so none is
scored twice (`Covered`); that a search which is not listed yet is known to its client alone
(`FreshInv`), so that only listed ones are ended; and that a completed search has no
range left, so that its expiry frees nothing a thread has still to score (`UseInv`).
`HoldInv` follows a thread from the count to the unlock: it has no range then, and the
search whose mutex it has was not freed or was freed in one of the cases that
`NotUsedAfterFree` names. That no range is left does not protect a search in this
interval, which is why the property has an exception for it.

`IdFindsOwnSearch` proves `OwnSearch` with a second invariant, `IdInv`: until two starts
overlap they come one after the other, and the next id is above all ids but the one of
the search that is being started (`OneByOne`); a client whose start was over before
that has an id that no other search has or gets, whatever overlaps later, because it
is below the next id and below every id that is taken and not stored yet (`OwnId`).
`SearchTypeCorrect` proves the bounds in `TypeOK`. The bound on the ids is not local: two
starts that overlap may take the same id and store the next one in any order, and a start
that was slow may even set the next id back. The invariant `IdBound` counts, with the ids
that were given out, the starts that have still to store one; the step that stores the
next id takes its start out of that number. `CompletedStays` is an action property that no run
checks: the step of no actor changes the scores of a completed search, starts to wait for
it again or takes back that its results were merged. It follows from `Counted`: a search
that waits for nothing has no range left that a thread could score.

`MtQueueProofs` has `TypeCorrect`, `NoWakeupLost` and `FifoOrder`, from
`QueueAssumption` (a positive capacity, finite and disjoint sets of producers and
consumers) alone. `NoLostWakeup` compares the number of awake threads with the number
of items or free slots; a thread that falls asleep does so when there is none, and one
that leaves with an item wakes another or leaves nobody asleep. It needs that a store
finds no thread inside a freed queue (`QuietAfterStop`: the only producer, the accept
loop, is outside when the shutdown begins). `FifoOrder` is the safety half of the
refinement that the run `queue` checks: `Contents`, read around the ring, grows at the
end and shrinks at the front (`StoreAppends`, `TakeIsTail`), from the geometry of the
ring that `TypeOK` states and the arithmetic of the remainder (`Geometry`, `SlotOf`,
`Distinct`). The half that says calls return stays with TLC.

`StorageProofs` has the theorems of `FileStore` and of `FileGroups`, which share no state.
Of `FileStore` it has `TableIsExact`, `SavedItemsAreFound`, `FileImplementsStore` and
`FileTypeCorrect`, for any capacity, ids and items, under two assumptions. `FitsOffsets`
says that the table with a full file of the longest items is shorter than what an offset
can express; beyond it the 32 bits of `DaosOffset_t` wrap and the theorems are false.
`StopsSafely` leaves out the stops that `store_stop` shows to lose items. The invariant
`FileInv` has a part for each phase of a save: in a save that writes in place, what the
words that are still to be written make of the file is a complete new file with the item
(`AppendInv`, `TableInv`); in one that replaces a record, the file is complete and the new
contents are its replacement (`TempInv`); and where nothing is under way the file is
complete and each id is found as `allowed` says (`NoneInv`). Most of the work is what one
replacement makes of a file, word by word: the splice (`SpliceIs`), the writes of the
table's update, which never hit a word twice (`UpdatedIs`), and that offsets grow without
wrapping (`SplicedFits`) give `ReplacedIs`; from it follows that the table is exact again
(`ReplacedLayout`) and that the other records have moved without a change
(`ReplacedItems`). What holds of all positions because it holds of the first and each
next one needs induction; it is proved from the least position at which it would fail
(`LeastIs`, `Stacked`).

Of `FileGroups` `StorageProofs` has `GroupsTypeCorrect` and `RefinesGroupRegistry`, under
`NoTypeZero`: a zeroed entry of the table looks like one of type 0, so a search for that type
could stop at a group that nobody has filled in. The invariant says which entries have a type:
those counted, and the one that the owner of the mutex fills in, where the stores
become visible one by one. An unlocked search can meet that entry half filled in; it
then either does not find it, and searches again with the mutex, or finds a group that
the owner is about to count.

`RequestStoreProofs` has `TypeCorrect` and `RefinesAtomicStore`, that gets and saves are
atomic: for any threads, ids, numbers of items per file and of directories, with
failures of saves and kills at any moment, that of the creation of a file included.
The assumptions are those of the lock list,
for the file ids of the ids in use, and `ItemConstants`: no item of a flat file is a
proper beginning of another (an item is stored with its packet header, which has its
size, so a part of one is never one), and `MISSING` and `BROKEN` are no contents of a
file that is whole. The proof is composed: `FileLockListProofs`
is instantiated with the file ids as `RequestStore` computes them, so the lock list's
invariant holds inside (each request takes steps of the lock list, and a kill resets
it), and from it follows exclusion by path (`OneWriterPerPath`), since ids that lie in
one file have the same lock, whatever the directories. On that rests the invariant
`RInv`: a thread in the DAO has its lock, and the file it has open is as it believes, the
unwritten rest of a flat file together with what is in it is the item, the temporary
copy is the file with the new item (`Progress`). A step in the DAO keeps the parts of all
other threads because it writes one file only, and that one alone (`DaoKeeps`). For the
refinement, `StoredIs` says that the item of an id is that of its one writer, or what
the file contains; each action then maps to a step of `AtomicStore` (`GetMaps`,
`SaveFlatMaps`, `SaveRecordMaps`, `CrashMaps` and so on), or to none. A creation that
breaks its file maps to `SaveBreaks`, or to the kill's `broken`, which `AtomicStore` only
allows of a call none of whose file's items is stored: a thread that creates a file has it
alone, and nothing can be read in it yet (`IsCreating`).

`FileServerProofs` has `TypeCorrect` and `FreedUnused`, from `FileServerAssumption`.
The invariant says that the request threads that exist are the first `created` ones, so
that a failure in the middle of the start-up joins the right ones, that a cancelled
thread does not come back, that whoever holds a file lock is a thread inside the
DAO, or was cancelled there, and that the owner of the mutex of the groups is making a
group, or was cancelled while it did (`MutexFollows`).

`ConnectionProofs` has `TypeCorrect`, `RequestsFramed`, `AnswersAreOwn` and `AnswersInOrder`,
from `ConnectionAssumption`, for any number of calls and any buffer size. `Framed` looks at the first piece that arrived; the
invariant `FrameInv` looks at all that are on their way, arrived or not: they are whole
requests (`WholeRequests`), except that the thread may have read the header of the
first one (`InStep`). A call appends a whole request (`OneMore`), the network only
moves pieces from one sequence to the next, and the thread takes them off the front.
`AnswersAreOwn` follows the answers on their way back: as long as no save was returned
the client and the thread are at the same call, so between two calls nothing of an
earlier one is left anywhere (`Quiet`), and until the call returns the pieces read, in
the stream and still to be sent are, one after the other, the beginning of its answer
(`Open`, `Answered`). A returned save ends the argument: that is the case the property
excepts. What is still true then is `AnswersInOrder`: the pieces the client has read for its
call, those in the stream and those still to be sent are in the order of the calls, and
none is there twice. The headers still to be read are those of calls later than the request
in work, in their order (`ReadInv`), so no request is read again, and no piece of an
answer to a request that is read and not processed is anywhere (`SentInv`).

`CacheEngineProofs` has `AllSearchable` and `CacheIsFresh`, from `CacheEngineAssumption`,
for any ids, files, threads that load or save and any capacity of the pending list. The
invariant `CacheInv` says that loading and saving exclude each other (`Phases`); that
while the server loads an item is in the cache, or in a file that is still to be taken
or is being read (`LoadInv`), so that after the last join all are in the cache; and that
an item whose id is not doubtful is being saved, or is alone in the pending list in the
version of its file, or is in the cache (`SaveInv`). A commit keeps this because of one
pending item the first is also the last (`CommitKeeps`), and keeps `Searchable` because
the index it raises is the greatest of all it stores. That a finite set of ids has a
greatest element is proved by a smallest counterexample (`MaxExists`).

`InfoIsExact` and `CacheTypeCorrect` rest on a second invariant, `KnowInv`. While the
server loads, it divides the ids that have an item and were read among the threads that
read them and, after a join, the engine (`LoadInfo`): the parts do not overlap, each
thread's count is the number of ids in its part, and its minimum and maximum are those of
the part without the logical deletes (`FoundOf`). A join moves a part to the engine, which
counts what it had and what it gets because the two are disjoint (`JoinKnows`). A minimum
of 0 is that of a part without items or with the id 0, which the code does not tell apart,
so the minimum of a part with items is one of them, and the smallest if 0 is not among
them (`Least`). When it
runs, the count is that of the ids whose first save has been noted (`Counted`), and of two
saves that have the same id only one made the item (`RunInfo`). The bounds follow from the
counts, and those of the versions from the number of saves, each of which raises one
version by one (`SaveBound`).

Two results more say what the exceptions in the properties are worth. `NeverOlder`: no
commit and no loading thread puts an older version over a newer one, of any id that is not
doubtful; the invariant `Newest` orders the version in the cache, those that are pending and
the one in the file. `OneThreadLoadsRight`: with one loading thread, as the tests start the
server, nothing is ever `blurred`, so that `Searchable` and `InfoExact` need no exception for it;
what section 6 says of loading with several threads needs two. The exception of
`InfoExact` for the id 0 is needed with one thread, too.

## 6. What the code does differently from what it says

Shown by a run that expects a violation:

- **A group is returned before, or although never, it is complete**
  (`groups_ready`, `file_server.c:731`). The group is counted and has its type
  before its divisor, lock list and DAO are set, and stays so when their
  initialisation fails. The search without the mutex finds it.
- **A creation that stops in the middle** (`store_stop`, `daos.c:430`). Replacing a
  record goes through a temporary file, creating the file does not. If the new
  item's size is in the table and the offsets behind it are not, a retry of the
  save sees an equal size, leaves the table alone and is answered; the next save
  of another id of the file cuts the first item in two.

Named as an exception in a property or an assumption of the model:

- **A file id that equals FILEID_MAX** (`NoSentinelId`, `file_lock_list.c:148`).
  With one item per file, the default, file id 4294967295 belongs to item
  4294967295, which `documentation/fs_protocol.txt` allows ("File id (4 bytes)").
  The list takes entries with that id for free ones; the use counts go wrong and a
  thread waits for ever for a rwlock nobody will unlock.
- **A stop that does not end** (`StopEnds`, `file_server.c:395`, `:717` and `:246`). A
  request thread that is cancelled in the DAO keeps the lock of its file, and
  `pthread_join` of a thread that waits for it does not return; likewise
  `fileGroupMutex`, which `getCreateFileGroupDao` holds while it writes to the log and
  makes a directory, and for which another thread waits at `:695`; and the accept loop
  in `mtQueue_push` does not look at the event. `tests/test_request.sh` remarks on
  killing the server that "sometimes it deadlocks".
- **The text of a response is left on the connection** (`OwnAnswer`,
  `fs_client.c:220`). `sendFileToServer` reads the code of the response and not its
  text, which is what the next call on the connection reads. `endConnectionToServer`
  and `pingServer` do the same but close the socket, the latter although
  `request_response_definitions.h` describes the ping as one that keeps a connection
  alive.
- **Packet types that are never answered** (`CallReturns`, `request_processing.c:97`).
  Types 5 and 6 pass the test and reach the default of the switch.
- **Loading with several threads** (`Searchable`, `InfoExact`; `cache_engine.c:457`
  and `:601`). A thread can put its smaller index over the greater one of another,
  so that profiles are not searched until a later save raises it; a thread that found no
  item makes the smallest id 0. The start script uses three threads, the tests one.
- **Crossed saves** (`CacheFresh`, `cache_engine.c:467`). Of two pending versions of an
  id the older is committed last; and as items are stored after the file was
  released, two saves can be stored in the other order. A save that finds the list of
  pending items full is answered with an error though the item is in its file.
- **The id 0** (`InfoExact`, `cache_engine.c:315`, `:601` and `:660`). The test of a save
  refuses negative ids only (`profile_server/request_processing.c:454`), and 0 is also
  the smallest id of an engine without items. Save 0 and then 5, and the smallest id that
  is reported is 5, not 0; so it is when the two are loaded in that order.
- **A failed or interrupted creation damages the other items of the file**
  (`ImplementsAtomicStore`, `daos.c:438` to `:467`). An error return leaves the file as far
  as it was written, and so does a kill; the run `store_stop` shows what comes of it.
- **Deleted items are not counted the same after a restart** (`InfoExact`,
  `cache_engine.c:660`). A save notes the id of a logical delete, loading does not.
- **Overlapping starts of searches** (`OwnSearch`, `search_engine.c:573`). Two searches get
  the same id, or a client an id that finds nothing;
  `documentation/ferrari-c_protocol.txt` calls it "Search id to be used to retrieve the
  search status and results".
- **Searches removed or expired in use** (`NotUsedAfterFree`, `search_engine.c:438`,
  `:362` and `:813`). The removal does not ask whether threads still score; its message says
  "not found among completed searches". Fetching the results uses the pointer, and then
  the JSON object, after the list was unlocked. And a search is at 100 percent as soon as
  the last thread has counted off its range: a client that is told so and ends the search,
  or the expiry, frees it while that thread adds up the duration and unlocks its mutex.
- **A search that is freed twice** (`NotUsedAfterFree`, `search_engine.c:621` and `:533`).
  When `binaryHeap_init` fails, `prepareSearchThreadArgs` frees the search and so does
  `prepareSearch`.
- **Failures that crash the search server** (`Crash` in `SearchEngine`). A failed `calloc`
  of the score lists frees an object that was not set, and the criteria twice
  (`search_engine.c:890` and `:523`); a failed merge leaves no JSON object, to which a member
  is then added (`:399`); the status reads the ranges left and their number without the
  search's mutex, and divides by the latter (`:324`), which a merge in between sets to 0.

Seen in the code and outside the model:

- The result of `fwrite` is tested, that of `fclose` is not (`daos.c:244`): on a full
  disk a save that fits stdio's buffer is answered as done.
- A failed `malloc` of the thread ids leaves `numRequestThreads` set, and the clean-up
  dereferences NULL (`file_server.c:354`). A signal after the clean-up writes through a
  freed pointer; one before `eventfd` is lost.
- The clean-up destroys rwlocks, and the mutex of the groups, that dead threads hold, and
  hands the queued
  `SocketStore*` to a function that takes a descriptor.
- `getFileFromServer` never sets its response code; `readPacketFromSocket` refuses a size
  of PACKET_MAX_SIZE that the server accepts; an answer whose sending failed leaves
  the connection open (`SendFails`, in the model).
- The search server: a list of items is freed before `sendResponseWithIds` reads it
  on the error paths; `freeCacheEngineData` closes its event only if it is negative.

## 7. Only model-checked, and not modelled

Every invariant that a passing run checks is stated by a theorem, and so are the
refinements, the queue's in its safety half (`FifoOrder`). Only model-checked is liveness,
which the proof system does not do, nor ENABLED: that calls of the queue return
(`ImplementsFifo`), that readers and waiting threads get their lock (`ReaderGranted`,
`NeverBlockedByNobody`), that a cancelled thread ends and frees the queue's mutex
(`CancelledThreadEnds`, `MutexFreed`), that gets are answered and calls return
(`GetAnswered`, `CallReturns`), that connections are served and a stop ends
(`ConnectionServed`, `StopEnds`), and that searches complete (`SearchCompletes`).

Not modelled, of the two servers: logging, profiling, command lines and the wording of
answers; running out of memory other than where the code returns an error for it; power
failure (the code never calls fsync); failed reads of the DAO, which are answered like
an entry that is not found; the start and the end of the search engine's threads; what a
use of freed memory does to another search; the JSON of the search server's requests,
its filters and scores; its copies of the queue, the lock list and the DAO.

Not modelled, of the repository: everything else. Nearly all of its 8,412 files, with 2.3
million lines of text, are vendored (SQLite twice, SDL and FFmpeg headers, JSON libraries),
data, or belong to programs that share no code with the servers, as PROJECT.json lists
them; the modules cover
the concurrent core of the two servers, a small share of the whole.

## 8. Plan

Done: `FileLockList`, `MtQueue`, `RecordFile` and `FileStore`, `FileGroups`, `RequestStore`,
`Connection`, `FileServer` (the server life cycle), `CacheEngine`, `SearchEngine`. Left:

1. A restart with another number of items per file, in `RequestStore` with the table
   positions of `RecordFile`.
2. The start and end of the search engine, along the lines of `FileServer`.
