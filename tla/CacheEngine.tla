---------------------------- MODULE CacheEngine ----------------------------
(***************************************************************************)
(* SearchServerShardable/cache_engine/cache_engine.c: the items of the     *)
(* files kept in memory for the searches, loaded when the server starts    *)
(* and renewed by the saves, with the two ways a save comes about in       *)
(* profile_server/request_processing.c (one item, or a list of items).     *)
(*                                                                         *)
(* An item is the version of an id, 1, 2 ..., of which some are logical    *)
(* deletes that the cache does not keep.  An id is the index of its item   *)
(* in the cache.  The files are locked for writing while they are saved;   *)
(* a reader of the cache only delays Commit and UpdateInfo.  numItems,     *)
(* which nothing uses, is left out.                                        *)
(***************************************************************************)
EXTENDS Integers, Sequences, FiniteSets, FiniteSetsExt

CONSTANTS
  Ids,           \* below the capacity of the cache
  ItemsPerFile,
  Savers,        \* request threads
  MaxLoaders,    \* bound on --num_loading_threads
  MaxPending,    \* MAX_PENDING_CAPACITY
  MaxSaves       \* bound on the items that are saved

ASSUME CacheEngineAssumption ==
  /\ Ids \subseteq Nat /\ IsFiniteSet(Ids)
  /\ {ItemsPerFile, MaxLoaders, MaxPending} \subseteq Nat \ {0}
  /\ MaxSaves \in Nat

FileOf(id) == id \div ItemsPerFile
Files == {FileOf(id) : id \in Ids}
Loaders == 1 .. MaxLoaders
Versions == 1 .. MaxSaves + 1

VARIABLES
  phase,     \* "loading", "running" or "failed"
  disk,      \* the version of each id in the files, 0 if it has none
  deleted,   \* the <<id, version>> that are logical deletes
  cache,     \* items->items: the version of each id, 0 for NULL
  largest,   \* items->largestIndexInUse
  info,      \* minPersistentId, maxPersistentId and persistentCount
  pending,   \* pendingItems, <<id, version>>
  todo,      \* the files no loading thread has taken
  loader,    \* the loading threads, while there are any
  joined,    \* how many of them were joined
  locked,    \* the files locked for writing
  saver,     \* the request threads
  saves,     \* counter for the bound
  skipped,   \* the ids whose item was a logical delete when it was loaded
  doubtful,  \* the ids whose saves crossed or were refused, see Store
  blurred    \* which of "largest" and "min" the loading threads got wrong, see Raise, Join

files    == <<disk, deleted>>
items    == <<cache, largest>>
loading  == <<todo, loader, joined>>
vars == <<phase, files, items, info, pending, loading, locked, saver, saves,
          skipped, doubtful, blurred>>

Cached(id, v) == IF <<id, v>> \in deleted THEN 0 ELSE v

NoInfo == [min |-> 0, max |-> 0, count |-> 0]
NewLoader == [at |-> "load", ids |-> {}, id |-> 0, found |-> NoInfo]
NewSaver  == [at |-> "idle", id |-> 0, version |-> 0, new |-> FALSE, list |-> FALSE]

\* Mutant: without the test for 0.
NotedLess(i, min, max, n) ==
  [min |-> IF min < i.min THEN min ELSE i.min,
   max |-> IF max > i.max THEN max ELSE i.max,
   count |-> i.count + n]

\* minPersistentId 0 means that there is none yet, although 0 is an id like the others.
Noted(i, min, max, n) ==
  [min |-> IF min < i.min \/ i.min = 0 THEN min ELSE i.min,
   max |-> IF max > i.max THEN max ELSE i.max,
   count |-> i.count + n]

NoItems == [id \in Ids |-> 0]

\* The server starts over what the runs before have left in the files.
Init ==
  /\ disk \in [Ids -> 0 .. 1] /\ deleted \in SUBSET {<<id, 1>> : id \in Ids}
  /\ \A d \in deleted : disk[d[1]] = 1
  /\ phase = "loading"
  /\ cache = NoItems /\ largest = 0 /\ info = NoInfo /\ pending = <<>>
  /\ todo = {FileOf(id) : id \in {k \in Ids : disk[k] # 0}} /\ joined = 0
  /\ loader \in {[t \in 1 .. n |-> NewLoader] : n \in Loaders}
  /\ locked = {} /\ saver = [s \in Savers |-> NewSaver]
  /\ saves = 0
  /\ skipped = {} /\ doubtful = {} /\ blurred = {}

-----------------------------------------------------------------------------
(***************************************************************************)
(* Loading: threads that take files from the directory under a mutex and   *)
(* store their items into the cache without one.                           *)
(***************************************************************************)
SetLoader(t, l) == loader' = [loader EXCEPT ![t] = l]

Loading(t) == phase = "loading" /\ t \in DOMAIN loader

\* readdir, for at most NUM_FILES_TO_LOAD files.
TakeFiles(t) ==
  /\ Loading(t) /\ loader[t].at = "load" /\ loader[t].ids = {}
  /\ \E S \in (SUBSET todo) \ {{}} :
       /\ todo' = todo \ S
       /\ SetLoader(t, [loader[t] EXCEPT !.ids = {id \in Ids : disk[id] # 0 /\ FileOf(id) \in S}])
  /\ UNCHANGED <<phase, files, items, info, pending, joined, locked, saver,
                 saves, skipped, doubtful, blurred>>

\* An item of a file: a logical delete is counted, any other item put into its place.
LoadItem(t) ==
  LET id == Min(loader[t].ids)
      l  == [loader[t] EXCEPT !.ids = @ \ {id}] IN
  /\ Loading(t) /\ loader[t].at = "load" /\ loader[t].ids # {}
  /\ IF Cached(id, disk[id]) = 0
     THEN /\ SetLoader(t, [l EXCEPT !.found.count = @ + 1])
          /\ skipped' = skipped \cup {id}
          /\ UNCHANGED cache
     ELSE /\ SetLoader(t, [l EXCEPT !.at = "compare", !.id = id, !.found = Noted(@, id, id, 1)])
          /\ cache' = [cache EXCEPT ![id] = disk[id]]
          /\ UNCHANGED skipped
  /\ UNCHANGED <<phase, files, largest, info, pending, todo, joined, locked,
                 saver, saves, doubtful, blurred>>

\* if(destIndex > items->largestIndexInUse) ...
Compare(t) ==
  /\ Loading(t) /\ loader[t].at = "compare"
  /\ SetLoader(t, [loader[t] EXCEPT !.at = IF loader[t].id > largest THEN "raise" ELSE "load"])
  /\ UNCHANGED <<phase, files, items, info, pending, todo, joined, locked,
                 saver, saves, skipped, doubtful, blurred>>

\* ... { items->largestIndexInUse = destIndex; }
Raise(t) ==
  /\ Loading(t) /\ loader[t].at = "raise"
  /\ largest' = loader[t].id
  /\ blurred' = IF loader[t].id < largest THEN blurred \cup {"largest"} ELSE blurred
  /\ SetLoader(t, [loader[t] EXCEPT !.at = "load"])
  /\ UNCHANGED <<phase, files, cache, info, pending, todo, joined, locked,
                 saver, saves, skipped, doubtful>>

\* pthread_join in the order of the threads, and what the thread found.
Join ==
  LET t     == joined + 1
      found == loader[t].found
      last  == t = Len(loader) IN
  /\ Loading(t) /\ todo = {} /\ loader[t].at = "load" /\ loader[t].ids = {}
  /\ info' = Noted(info, found.min, found.max, found.count)
  /\ blurred' = IF found.min = 0 /\ info.min # 0 THEN blurred \cup {"min"} ELSE blurred
  /\ phase' = IF last THEN "running" ELSE "loading"
  /\ joined' = IF last THEN 0 ELSE t
  /\ loader' = IF last THEN <<>> ELSE [loader EXCEPT ![t] = NewLoader]
  /\ UNCHANGED <<files, items, pending, todo, locked, saver, saves, skipped, doubtful>>

\* A file cannot be read, or no thread be created: the threads are joined, the items
\* freed, and the server does not start.
LoadFails ==
  /\ phase = "loading"
  /\ phase' = "failed"
  /\ cache' = NoItems /\ largest' = 0
  /\ todo' = {} /\ joined' = 0 /\ loader' = <<>>
  /\ UNCHANGED <<files, info, pending, locked, saver, saves, skipped, doubtful, blurred>>

-----------------------------------------------------------------------------
(***************************************************************************)
(* Saving: processSaveRequest, which stores the item in the cache after it *)
(* released the file, and processSaveMultipleRequest, which keeps the file *)
(* while it saves and stores one item of it after the other.               *)
(***************************************************************************)
SetSaver(s, r) == saver' = [saver EXCEPT ![s] = r]
Goto(s, place) == SetSaver(s, [saver[s] EXCEPT !.at = place])
\* The item is done with: the next one of the list, or the answer.
Done(s) == SetSaver(s, IF saver[s].list
                       THEN [NewSaver EXCEPT !.at = "next", !.id = saver[s].id, !.list = TRUE]
                       ELSE NewSaver)
Saving(s, place) == phase = "running" /\ saver[s].at = place

Lock(s, id, list) ==
  /\ Saving(s, "idle") /\ saves < MaxSaves
  /\ FileOf(id) \notin locked
  /\ locked' = locked \cup {FileOf(id)}
  /\ SetSaver(s, [NewSaver EXCEPT !.at = "save", !.id = id, !.list = list])
  /\ UNCHANGED <<phase, files, items, info, pending, loading, saves, skipped, doubtful, blurred>>

\* daos_saveItem, which says whether the id had no item before.
SaveItem(s) ==
  LET id == saver[s].id
      v  == disk[id] + 1 IN
  /\ Saving(s, "save") /\ saves < MaxSaves
  /\ saves' = saves + 1
  /\ disk' = [disk EXCEPT ![id] = v]
  /\ deleted' \in {deleted, deleted \cup {<<id, v>>}}
  /\ SetSaver(s, [saver[s] EXCEPT !.at = IF saver[s].list THEN "note" ELSE "release",
                                  !.version = v, !.new = (v = 1)])
  /\ UNCHANGED <<phase, items, info, pending, loading, locked, skipped, doubtful, blurred>>

\* The save fails: an error is answered, or the id is put on the list of those not saved.
SaveFails(s) ==
  /\ Saving(s, "save")
  /\ Done(s)
  /\ locked' = IF saver[s].list THEN locked ELSE locked \ {FileOf(saver[s].id)}
  /\ UNCHANGED <<phase, files, items, info, pending, loading, saves, skipped, doubtful, blurred>>

Release(s) ==
  /\ Saving(s, "release")
  /\ locked' = locked \ {FileOf(saver[s].id)}
  /\ Goto(s, "note")
  /\ UNCHANGED <<phase, files, items, info, pending, loading, saves, skipped, doubtful, blurred>>

\* cacheEngine_storeItem, under the lock of the items.
UpdateInfo(s) ==
  LET id == saver[s].id IN
  /\ Saving(s, "note")
  /\ info' = Noted(info, id, id, IF saver[s].new THEN 1 ELSE 0)
  /\ skipped' = skipped \ {id}
  /\ Goto(s, "store")
  /\ UNCHANGED <<phase, files, items, pending, loading, locked, saves, doubtful, blurred>>

\* Mutant: the list is taken to have room.
StoreUnbounded(s) ==
  /\ Saving(s, "store")
  /\ pending' = Append(pending, <<saver[s].id, saver[s].version>>)
  /\ Done(s)
  /\ UNCHANGED <<phase, files, items, info, loading, locked, saves, skipped, doubtful, blurred>>

\* cacheEngine_storeItem, under the mutex of the pending items.  The id becomes doubtful
\* when an item of it is pending already, because Commit then stores the older one last,
\* and when a newer version of it has been stored before; otherwise it is settled.
Store(s) ==
  LET id == saver[s].id
      v  == saver[s].version IN
  /\ Saving(s, "store") /\ Len(pending) < MaxPending
  /\ pending' = Append(pending, <<id, v>>)
  /\ doubtful' = IF v < disk[id] \/ \E k \in DOMAIN pending : pending[k][1] = id
                 THEN doubtful \cup {id} ELSE doubtful \ {id}
  /\ Done(s)
  /\ UNCHANGED <<phase, files, items, info, loading, locked, saves, skipped, blurred>>

\* The list is full or there is no memory: an error is answered for an item that is in
\* its file.
StoreFails(s) ==
  /\ Saving(s, "store")
  /\ doubtful' = doubtful \cup {saver[s].id}
  /\ Done(s)
  /\ UNCHANGED <<phase, files, items, info, pending, loading, locked, saves, skipped, blurred>>

\* The next item of the list is of the same file.
NextItem(s, id) ==
  /\ Saving(s, "next") /\ FileOf(id) = FileOf(saver[s].id) /\ saves < MaxSaves
  /\ SetSaver(s, [saver[s] EXCEPT !.at = "save", !.id = id])
  /\ UNCHANGED <<phase, files, items, info, pending, loading, locked, saves, skipped,
                 doubtful, blurred>>

\* The next item is of another file, or there is none.
ReleaseList(s) ==
  /\ Saving(s, "next")
  /\ locked' = locked \ {FileOf(saver[s].id)}
  /\ SetSaver(s, NewSaver)
  /\ UNCHANGED <<phase, files, items, info, pending, loading, saves, skipped, doubtful, blurred>>

-----------------------------------------------------------------------------
(***************************************************************************)
(* cacheEngine_run: commitPendingItems, every update period.               *)
(***************************************************************************)
PendingAt(id) == {k \in DOMAIN pending : pending[k][1] = id}

\* Mutant: NULL is not stored.
CommittedItemKept(id) ==
  LET v == Cached(id, pending[Min(PendingAt(id))][2]) IN
  IF PendingAt(id) = {} \/ v = 0 THEN cache[id] ELSE v

\* From the last pending item to the first, so that of several items of an id the first
\* remains.
CommittedItem(id) ==
  IF PendingAt(id) = {} THEN cache[id] ELSE Cached(id, pending[Min(PendingAt(id))][2])

\* Mutant: the index of the item that is stored last, the first of the list.
CommittedLast == pending[1][1]

\* A logical delete, too, raises largestIndexInUse.
CommittedLargest == Max({largest} \cup {pending[k][1] : k \in DOMAIN pending})

Commit ==
  /\ phase = "running" /\ pending # <<>>
  /\ cache' = [id \in Ids |-> CommittedItem(id)]
  /\ largest' = CommittedLargest
  /\ pending' = <<>>
  /\ UNCHANGED <<phase, files, info, loading, locked, saver, saves, skipped, doubtful, blurred>>

-----------------------------------------------------------------------------
LoadStep == \/ \E t \in Loaders : TakeFiles(t) \/ LoadItem(t) \/ Compare(t) \/ Raise(t)
            \/ Join
SaveStep(s) ==
  \/ SaveItem(s) \/ SaveFails(s) \/ Release(s) \/ UpdateInfo(s) \/ Store(s) \/ StoreFails(s)
  \/ ReleaseList(s)

Next ==
  \/ LoadStep \/ LoadFails \/ Commit
  \/ \E s \in Savers :
       SaveStep(s) \/ \E id \in Ids : NextItem(s, id) \/ \E list \in BOOLEAN : Lock(s, id, list)

Spec == Init /\ [][Next]_vars

-----------------------------------------------------------------------------
(***************************************************************************)
(* Properties                                                              *)
(***************************************************************************)
Infos == [min : {0} \cup Ids, max : {0} \cup Ids, count : 0 .. Cardinality(Ids)]

TypeOK ==
  /\ phase \in {"loading", "running", "failed"}
  /\ disk \in [Ids -> {0} \cup Versions] /\ deleted \subseteq Ids \X Versions
  /\ cache \in [Ids -> {0} \cup Versions] /\ largest \in {0} \cup Ids
  /\ info \in Infos
  /\ pending \in Seq(Ids \X Versions) /\ Len(pending) <= MaxPending
  /\ todo \subseteq Files /\ joined \in 0 .. Len(loader)
  /\ loader \in Seq([at : {"load", "compare", "raise"}, ids : SUBSET Ids,
                      id : {0} \cup Ids, found : Infos])
  /\ locked \subseteq Files
  /\ saver \in [Savers -> [at : {"idle", "save", "release", "note", "store", "next"},
                           id : {0} \cup Ids, version : {0} \cup Versions,
                           new : BOOLEAN, list : BOOLEAN]]
  /\ saves \in 0 .. MaxSaves
  /\ skipped \subseteq Ids /\ doubtful \subseteq Ids /\ blurred \subseteq {"largest", "min"}

\* An item on its way from its file to the cache.
Underway(id) ==
  \/ \E s \in Savers : saver[s].id = id /\ saver[s].at \in {"release", "note", "store"}
  \/ \E k \in DOMAIN pending : pending[k][1] = id

\* When no save of an id is under way the searches see the version that is in its file, or
\* nothing if that is a logical delete; unless the last saves of the id crossed (two were
\* pending at a time, or were stored in another order than they were saved) or its last
\* save was answered with an error although it is in the file.
CacheFresh ==
  phase = "running" =>
    \A id \in Ids : ~ Underway(id) /\ id \notin doubtful => cache[id] = Cached(id, disk[id])

\* A search looks at the cache up to largestIndexInUse: nothing is above, unless a loading
\* thread overwrote the greater index of another.
Searchable ==
  "largest" \notin blurred =>
    \A id \in Ids : cache[id] # 0 =>
      id <= largest \/ \E t \in DOMAIN loader : loader[t].id = id /\ loader[t].at # "load"

\* When no save is before its UpdateInfo the engine knows how many ids have an item, the
\* greatest of them and, unless a loading thread that found none came after one that did,
\* the smallest; but of the items it loaded not those that are logical deletes.  When 0 is
\* one of the ids, which the engine takes for none, the smallest may be any of them.
InfoExact ==
  LET saved == {id \in Ids : disk[id] # 0}
      known == saved \ skipped IN
  phase = "running" /\ (\A s \in Savers : saver[s].at \notin {"release", "note"}) =>
    /\ info.count = Cardinality(saved)
    /\ known # {} => info.max = Max(known)
    /\ known # {} /\ "min" \notin blurred =>
         info.min \in known /\ (0 \in known \/ info.min = Min(known))
=============================================================================
