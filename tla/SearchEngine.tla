---------------------------- MODULE SearchEngine ----------------------------
(***************************************************************************)
(* SearchServerShardable/profile_server/search_engine.c: searches that     *)
(* request threads start and search threads run, range by range of the     *)
(* cached profiles, and whose results are fetched, ended or expire later.  *)
(*                                                                         *)
(* A search is known to its client by its id and to the threads by a       *)
(* pointer, here its number in the order of the starts.  The index of a    *)
(* profile stands for the profile.  The mutex of the list and that of a    *)
(* search are held for a step, but for the two reads of the status, which  *)
(* takes only the first, and the end of a search thread's range, which     *)
(* takes only the second.  The bounded queue is that of MtQueue.           *)
(*                                                                         *)
(* A search may be freed while it is used: the use then goes unnoticed     *)
(* (UseFreed) or crashes the server (Crash); what it may do to the memory  *)
(* of other searches is outside the model.                                 *)
(***************************************************************************)
EXTENDS Integers, Sequences, FiniteSets, SequencesExt

CONSTANTS
  Clients,       \* request threads, each with the searches of one client
  Threads,       \* search threads
  Capacity,      \* of the queue, SEARCH_QUEUE_SIZE_PER_THREAD for each thread
  FirstTop, MaxTop,   \* bounds on largestIndexInUse of the profile cache
  MaxStarts      \* bound on the searches

ASSUME SearchEngineAssumption ==
  /\ IsFiniteSet(Threads) /\ Threads # {}
  /\ Capacity \in Nat \ {0}
  /\ FirstTop \in Nat /\ MaxTop \in Nat /\ FirstTop <= MaxTop
  /\ MaxStarts \in Nat

Searches == 1 .. MaxStarts
Profiles == 0 .. MaxTop
numThreads == Cardinality(Threads)

VARIABLES
  nextSearchId,
  search,    \* the SearchResults_t
  list,      \* the searches in the list, later ids first
  queue,     \* searchQueue: ranges to search
  worker,    \* the search threads
  held,      \* the search whose mutex a search thread is to unlock yet, or 0
  client,    \* the request threads
  top,       \* largestIndexInUse of the profile cache
  starts,    \* how many searches were made
  up,        \* FALSE when the server has crashed
  swapped,   \* the searches whose starts overlapped, and all that were made later
  cut        \* the searches that were freed in one of the ways NotUsedAfterFree names

vars == <<nextSearchId, search, list, queue, worker, held, client, top, starts, up, swapped, cut>>
history == <<swapped, cut>>

NoSearch == [state |-> "none", id |-> 0, pending |-> 0, inUse |-> 0, merged |-> FALSE,
             marked |-> FALSE, top |-> 0, scored |-> [p \in Profiles |-> 0]]
Freed    == [NoSearch EXCEPT !.state = "freed"]
NoRange  == [search |-> 0, low |-> 0, high |-> 0]
Idle     == [at |-> "wait", job |-> NoRange]
NoClient == [at |-> "idle", search |-> 0, id |-> 0, ranges |-> <<>>, use |-> 0]

Init ==
  /\ nextSearchId = 1
  /\ search = [k \in Searches |-> NoSearch] /\ list = <<>> /\ queue = <<>>
  /\ worker = [t \in Threads |-> Idle] /\ held = [t \in Threads |-> 0]
  /\ client = [c \in Clients |-> NoClient]
  /\ top = FirstTop /\ starts = 0 /\ up = TRUE
  /\ swapped = {} /\ cut = {}

SetClient(c, r) == client' = [client EXCEPT ![c] = r]
SetSearch(k, r) == search' = [search EXCEPT ![k] = r]
InList(k) == \E i \in DOMAIN list : list[i] = k
Alive(k) == search[k].state # "freed"

\* The mutexes of the list and of a search.
ListUnlocked == \A c \in Clients : client[c].at # "status"
Unlocked(k)  == \A t \in Threads : held[t] # k

\* list_search: searches with the same id are in the order in which they were added.
Find(id) ==
  LET found == {i \in DOMAIN list : search[list[i]].id = id}
  IN  IF found = {} THEN 0 ELSE list[Min(found)]

\* list_iteratorPop, for a set of searches.
Without(gone) ==
  LET left   == {i \in DOMAIN list : list[i] \notin gone}
      nth(n) == CHOOSE i \in left : Cardinality({j \in left : j <= i}) = n
  IN  [n \in 1 .. Cardinality(left) |-> list[nth(n)]]

-----------------------------------------------------------------------------
(***************************************************************************)
(* Starting a search: prepareSearch.                                       *)
(***************************************************************************)
Starting(c) == client[c].at \in {"list", "push", "take", "bump"}

\* The ranges of prepareSearchThreadArgs for n profiles: rangeHigh 0 ends them and stands
\* for all that follows.
RangeSize(n) == (n \div numThreads) + (IF n % numThreads # 0 THEN 1 ELSE 0)

\* Mutant: a range begins with the last profile of the one before.
LowOfOverlapping(i, n) == IF i = 1 THEN 0 ELSE (i - 1) * RangeSize(n) - 1

LowOf(i, n) == (i - 1) * RangeSize(n)

HighOf(i, n) == LET high == i * RangeSize(n) - 1 IN IF high >= n THEN 0 ELSE high
NumRanges(n) ==
  LET ends == {i \in 1 .. numThreads : HighOf(i, n) = 0}
  IN  IF ends = {} THEN numThreads ELSE CHOOSE i \in ends : \A j \in ends : i <= j

\* Mutant: a range for every thread is waited for.
InitialPendingAll(n) == numThreads

InitialPending(n) == NumRanges(n)

Ranges(k, n) ==
  [i \in 1 .. NumRanges(n) |-> [search |-> k, low |-> LowOf(i, n), high |-> HighOf(i, n)]]

\* The length of the cache is read, the search made with the next id, and its ranges.
Prepare(c) ==
  LET k == starts + 1
      r == Ranges(k, top + 1)
      others == {o \in Clients \ {c} : Starting(o)} IN
  /\ client[c].at = "idle" /\ starts < MaxStarts
  /\ starts' = k
  /\ SetSearch(k, [NoSearch EXCEPT !.state = "made", !.id = nextSearchId, !.top = top,
                                   !.pending = InitialPending(top + 1), !.inUse = Len(r)])
  /\ SetClient(c, [NoClient EXCEPT !.at = "list", !.search = k, !.ranges = r])
  /\ swapped' = IF others \cup swapped = {} THEN {}
                ELSE swapped \cup {k} \cup {client[o].search : o \in others}
  /\ UNCHANGED <<nextSearchId, list, queue, worker, held, top, up, cut>>

\* list_addItem: before the first search with a smaller id.
AddToList(c) ==
  LET k       == client[c].search
      smaller == {i \in DOMAIN list : search[list[i]].id < search[k].id} IN
  /\ client[c].at = "list" /\ ListUnlocked
  /\ list' = InsertAt(list, IF smaller = {} THEN Len(list) + 1 ELSE Min(smaller), k)
  /\ SetClient(c, [client[c] EXCEPT !.at = "push"])
  /\ UNCHANGED <<nextSearchId, search, queue, worker, held, top, starts, up, history>>

\* No memory for a range or an item of the lists.
PrepareFails(c) ==
  /\ client[c].at = "list"
  /\ SetSearch(client[c].search, Freed)
  /\ SetClient(c, NoClient)
  /\ UNCHANGED <<nextSearchId, list, queue, worker, held, top, starts, up, history>>

\* No memory for a heap: prepareSearchThreadArgs frees the search, and prepareSearch is
\* going to free it again.
HeapFails(c) ==
  /\ client[c].at = "list"
  /\ SetSearch(client[c].search, Freed)
  /\ SetClient(c, [NoClient EXCEPT !.at = "refree", !.search = client[c].search])
  /\ cut' = cut \cup {client[c].search}
  /\ UNCHANGED <<nextSearchId, list, queue, worker, held, top, starts, up, swapped>>

\* Mutant: no wait for room.
PushAtOnce(c) ==
  /\ client[c].at = "push" /\ client[c].ranges # <<>>
  /\ queue' = Append(queue, Head(client[c].ranges))
  /\ SetClient(c, [client[c] EXCEPT !.ranges = Tail(@),
                                    !.at = IF Len(client[c].ranges) = 1 THEN "take" ELSE "push"])
  /\ UNCHANGED <<nextSearchId, search, list, worker, held, top, starts, up, history>>

\* mtQueue_push, range by range.
Push(c) ==
  /\ client[c].at = "push" /\ client[c].ranges # <<>> /\ Len(queue) < Capacity
  /\ queue' = Append(queue, Head(client[c].ranges))
  /\ SetClient(c, [client[c] EXCEPT !.ranges = Tail(@),
                                    !.at = IF Len(client[c].ranges) = 1 THEN "take" ELSE "push"])
  /\ UNCHANGED <<nextSearchId, search, list, worker, held, top, starts, up, history>>

\* Mutant: ++nextSearchId.
TakeIdAfter(c) ==
  /\ client[c].at = "take"
  /\ SetClient(c, [client[c] EXCEPT !.at = "bump", !.id = nextSearchId + 1])
  /\ UNCHANGED <<nextSearchId, search, list, queue, worker, held, top, starts, up, history>>

\* *searchId = nextSearchId++, which is not the read that gave the search its id.
TakeId(c) ==
  /\ client[c].at = "take"
  /\ SetClient(c, [client[c] EXCEPT !.at = "bump", !.id = nextSearchId])
  /\ UNCHANGED <<nextSearchId, search, list, queue, worker, held, top, starts, up, history>>

BumpId(c) ==
  /\ client[c].at = "bump"
  /\ nextSearchId' = client[c].id + 1
  /\ SetClient(c, [client[c] EXCEPT !.at = "idle"])
  /\ UNCHANGED <<search, list, queue, worker, held, top, starts, up, history>>

-----------------------------------------------------------------------------
(***************************************************************************)
(* The search threads.                                                     *)
(***************************************************************************)
SetWorker(t, at, job) == worker' = [worker EXCEPT ![t] = [at |-> at, job |-> job]]

Pop(t) ==
  /\ worker[t].at = "wait" /\ held[t] = 0 /\ queue # <<>>
  /\ queue' = Tail(queue)
  /\ SetWorker(t, "score", Head(queue))
  /\ UNCHANGED <<nextSearchId, search, list, held, client, top, starts, up, history>>

\* Under the read lock of the profile cache: the last range goes up to the last profile
\* there is now.
Score(t) ==
  LET job  == worker[t].job
      last == IF job.high # 0 THEN job.high ELSE top IN
  /\ worker[t].at = "score" /\ Alive(job.search)
  /\ SetSearch(job.search, [search[job.search] EXCEPT
       !.scored = [p \in Profiles |-> IF p \in job.low .. last THEN @[p] + 1 ELSE @[p]]])
  /\ SetWorker(t, "finish", job)
  /\ UNCHANGED <<nextSearchId, list, queue, held, client, top, starts, up, history>>

\* Under the mutex of the search the range is counted off, which the status and the
\* expiry see at once ...
Finish(t) ==
  LET k == worker[t].job.search IN
  /\ worker[t].at = "finish" /\ Alive(k) /\ Unlocked(k)
  /\ SetSearch(k, [search[k] EXCEPT !.pending = @ - 1])
  /\ worker' = [worker EXCEPT ![t] = Idle]
  /\ held' = [held EXCEPT ![t] = k]
  /\ UNCHANGED <<nextSearchId, list, queue, client, top, starts, up, history>>

\* ... and then the scored profiles and the duration are added up in the search.
Unlock(t) ==
  /\ held[t] # 0 /\ Alive(held[t])
  /\ held' = [held EXCEPT ![t] = 0]
  /\ UNCHANGED <<nextSearchId, search, list, queue, worker, client, top, starts, up, history>>

-----------------------------------------------------------------------------
(***************************************************************************)
(* The requests about a search.                                            *)
(***************************************************************************)
\* searchEngine_getSearchStatus, without the mutex of the search: a search without pending
\* ranges is at 100 percent; of another the ranges are read again, and divided by ...
Status(c) ==
  LET k == Find(client[c].id) IN
  /\ client[c].at = "idle" /\ ListUnlocked /\ k # 0 /\ search[k].pending # 0
  /\ SetClient(c, [client[c] EXCEPT !.at = "status", !.use = k])
  /\ UNCHANGED <<nextSearchId, search, list, queue, worker, held, top, starts, up, history>>

\* ... what may have become 0 meanwhile (Crash).
StatusTold(c) ==
  /\ client[c].at = "status" /\ search[client[c].use].inUse # 0
  /\ SetClient(c, [client[c] EXCEPT !.at = "idle", !.use = 0])
  /\ UNCHANGED <<nextSearchId, search, list, queue, worker, held, top, starts, up, history>>

\* searchEngine_getSearchResults up to the unlock of the list ...
Lookup(c) ==
  /\ client[c].at = "idle" /\ ListUnlocked /\ Find(client[c].id) # 0
  /\ SetClient(c, [client[c] EXCEPT !.at = "merge", !.use = Find(client[c].id)])
  /\ UNCHANGED <<nextSearchId, search, list, queue, worker, held, top, starts, up, history>>

\* ... and under the mutex of the search: an error if it has not finished; else the scores
\* are merged, once, and freed.
Merge(c) ==
  LET k == client[c].use IN
  /\ client[c].at = "merge" /\ Alive(k) /\ Unlocked(k)
  /\ IF search[k].pending > 0
     THEN /\ SetClient(c, [client[c] EXCEPT !.at = "idle", !.use = 0])
          /\ UNCHANGED search
     ELSE /\ SetClient(c, [client[c] EXCEPT !.at = "reply"])
          /\ SetSearch(k, [search[k] EXCEPT !.merged = TRUE, !.inUse = 0])
  /\ UNCHANGED <<nextSearchId, list, queue, worker, held, top, starts, up, history>>

\* The results are sent, without a lock.
Reply(c) ==
  /\ client[c].at = "reply" /\ Alive(client[c].use)
  /\ SetClient(c, [client[c] EXCEPT !.at = "idle", !.use = 0])
  /\ UNCHANGED <<nextSearchId, search, list, queue, worker, held, top, starts, up, history>>

\* The searches whose memory a thread, a queued range or a request is going to use.
InUse ==
  {queue[i].search : i \in DOMAIN queue} \cup
  {worker[t].job.search : t \in {u \in Threads : worker[u].at # "wait"}} \cup
  {held[t] : t \in {u \in Threads : held[u] # 0}} \cup
  {client[c].search : c \in {d \in Clients : client[d].at \in {"list", "push", "refree"}}} \cup
  {client[c].use : c \in {d \in Clients : client[d].at \in {"status", "merge", "reply"}}}

\* A request has found the search, or a thread that counted off a range has yet to unlock
\* its mutex, and neither has the mutex of the list.
InHand(k) == (\E c \in Clients : client[c].use = k) \/ ~ Unlocked(k)

\* searchEngine_removeSearchResults, also of a search that is not completed.
End(c) ==
  LET k == Find(client[c].id) IN
  /\ client[c].at = "idle" /\ ListUnlocked /\ k # 0
  /\ list' = Without({k})
  /\ SetSearch(k, Freed)
  /\ cut' = IF search[k].pending > 0 \/ InHand(k) THEN cut \cup {k} ELSE cut
  /\ UNCHANGED <<nextSearchId, queue, worker, held, client, top, starts, up, swapped>>

\* searchResultsThread: a round marks the completed searches and deletes those that were
\* marked long enough ago; after a deletion it passes over the next one, so that of several
\* late ones in a row every other is deleted.
CompletedOrNot(i) == TRUE   \* Mutant: every search ages.

Completed(i) == search[list[i]].pending = 0

Round ==
  /\ ListUnlocked
  /\ \E late \in SUBSET {i \in DOMAIN list : Completed(i) /\ search[list[i]].marked} :
    LET gone    == {i \in late : \E j \in 1 .. i : /\ j .. i \subseteq late /\ j - 1 \notin late
                                                  /\ (i - j) % 2 = 0}
        deleted == {list[i] : i \in gone}
        seen    == {list[i] : i \in {j \in DOMAIN list : j - 1 \notin gone /\ Completed(j)}} IN
    /\ search' = [k \in Searches |-> IF k \in deleted THEN Freed
                                     ELSE IF k \in seen THEN [search[k] EXCEPT !.marked = TRUE]
                                     ELSE search[k]]
    /\ list' = Without(deleted)
    /\ cut' = cut \cup {k \in deleted : InHand(k)}
    /\ UNCHANGED <<nextSearchId, queue, worker, held, client, top, starts, up, swapped>>

ThreadUsesFreed(t) ==
  \/ worker[t].at # "wait" /\ ~ Alive(worker[t].job.search)
  \/ held[t] # 0 /\ ~ Alive(held[t])
RequestUsesFreed(c) ==
  \/ client[c].at = "refree"
  \/ client[c].at \in {"merge", "reply"} /\ ~ Alive(client[c].use)

\* Undefined behaviour: the use goes unnoticed ...
UseFreed ==
  /\ \/ \E t \in Threads : /\ ThreadUsesFreed(t)
                           /\ worker' = [worker EXCEPT ![t] = Idle]
                           /\ held' = [held EXCEPT ![t] = 0]
                           /\ UNCHANGED client
     \/ \E c \in Clients : /\ RequestUsesFreed(c)
                           /\ SetClient(c, [client[c] EXCEPT !.at = "idle", !.use = 0])
                           /\ UNCHANGED <<worker, held>>
  /\ UNCHANGED <<nextSearchId, search, list, queue, top, starts, up, history>>

\* No memory for the score lists: initSearchResults frees the criteria, and an object that
\* it has not set, and prepareSearch frees the criteria again.
InitFails(c) == client[c].at = "idle" /\ starts < MaxStarts

\* No memory for the merged scores or their object: NULL is taken for the object.
MergeFails(c) ==
  LET k == client[c].use IN
  /\ client[c].at = "merge" /\ Alive(k) /\ Unlocked(k)
  /\ search[k].pending = 0 /\ ~ search[k].merged

\* The results were merged between the two reads of the status.
DividesByZero(c) == client[c].at = "status" /\ search[client[c].use].inUse = 0

\* ... or it crashes the server, and all this is gone.
Crash ==
  /\ \/ \E t \in Threads : ThreadUsesFreed(t)
     \/ \E c \in Clients : RequestUsesFreed(c) \/ InitFails(c) \/ MergeFails(c) \/ DividesByZero(c)
  /\ up' = FALSE
  /\ nextSearchId' = 1 /\ search' = [k \in Searches |-> NoSearch]
  /\ list' = <<>> /\ queue' = <<>>
  /\ worker' = [t \in Threads |-> Idle] /\ held' = [t \in Threads |-> 0]
  /\ client' = [c \in Clients |-> NoClient]
  /\ top' = FirstTop /\ starts' = 0 /\ swapped' = {} /\ cut' = {}

\* A save raises largestIndexInUse (CacheEngine).
Grow ==
  /\ top < MaxTop
  /\ top' = top + 1
  /\ UNCHANGED <<nextSearchId, search, list, queue, worker, held, client, starts, up, history>>

-----------------------------------------------------------------------------
ThreadStep(t) == up /\ (Pop(t) \/ Score(t) \/ Finish(t) \/ Unlock(t))
StartStep(c)  == up /\ (AddToList(c) \/ Push(c) \/ TakeId(c) \/ BumpId(c))
RequestStep(c) ==
  up /\ (\/ Prepare(c) \/ PrepareFails(c) \/ HeapFails(c)
         \/ Status(c) \/ StatusTold(c) \/ Lookup(c) \/ Merge(c) \/ Reply(c) \/ End(c))

Next ==
  \/ \E t \in Threads : ThreadStep(t)
  \/ \E c \in Clients : StartStep(c) \/ RequestStep(c)
  \/ up /\ (Round \/ UseFreed \/ Crash \/ Grow)

\* The threads run, and a request that has begun to start a search goes on.
Fairness ==
  /\ \A t \in Threads : WF_vars(ThreadStep(t))
  /\ \A c \in Clients : WF_vars(StartStep(c))
  /\ WF_vars(up /\ UseFreed)

Spec == Init /\ [][Next]_vars /\ Fairness

-----------------------------------------------------------------------------
(***************************************************************************)
(* Properties                                                              *)
(***************************************************************************)
Ids == 0 .. MaxStarts + 1
RangeSet == [search : Searches, low : 0 .. MaxTop + 1, high : Profiles]

TypeOK ==
  /\ nextSearchId \in Ids \ {0} /\ top \in Profiles /\ starts \in 0 .. MaxStarts
  /\ up \in BOOLEAN
  /\ search \in [Searches -> [state : {"none", "made", "freed"}, id : Ids,
                              pending : 0 .. numThreads, inUse : 0 .. numThreads,
                              merged : BOOLEAN, marked : BOOLEAN, top : Profiles,
                              scored : [Profiles -> Nat]]]
  /\ list \in Seq(Searches)
  /\ queue \in Seq(RangeSet) /\ Len(queue) <= Capacity
  /\ \A t \in Threads : \/ worker[t] = Idle
                        \/ worker[t].at \in {"score", "finish"} /\ worker[t].job \in RangeSet
  /\ held \in [Threads -> {0} \cup Searches]
  /\ client \in [Clients -> [at : {"idle", "list", "push", "take", "bump", "refree",
                                   "status", "merge", "reply"},
                             search : {0} \cup Searches, id : Ids, ranges : Seq(RangeSet),
                             use : {0} \cup Searches]]
  /\ swapped \subseteq Searches /\ cut \subseteq Searches

\* When the status of a search is 100 percent, which it is from the moment its last range is
\* counted off, or its results are merged, every profile that was in the cache when it
\* started has been scored exactly once, and no other one twice.
ResultsComplete ==
  \A i \in DOMAIN list :
    LET s == search[list[i]] IN
    s.pending = 0 \/ s.merged =>
      \A p \in Profiles : s.scored[p] <= 1 /\ (p <= s.top => s.scored[p] = 1)

\* The id that a client was given finds its search, as long as it was not ended and has not
\* expired, and afterwards none; unless another start overlapped with its own or with an
\* earlier one.
OwnSearch ==
  \A c \in Clients :
    LET k == client[c].search IN
    client[c].id # 0 /\ ~ Starting(c) /\ k \notin swapped =>
      Find(client[c].id) = IF InList(k) THEN k ELSE 0

\* Nothing uses a search that was freed: a search without pending ranges is in no queue and
\* no thread is about to score it.  The exceptions: it was ended while ranges of it were
\* pending; or it was ended, or expired, when a request had found it and was fetching its
\* results, or when a thread that had counted off a range had not unlocked its mutex (a
\* client that is told 100 percent may end the search under that thread); or a heap could
\* not be had for it, and it is freed twice.
NotUsedAfterFree == \A k \in InUse : Alive(k) \/ k \in cut

\* A search that is listed gets completed, or is ended, or the server crashes.
SearchCompletes ==
  \A k \in Searches :
    [](InList(k) => <>(~ up \/ ~ InList(k) \/ search[k].pending = 0))
=============================================================================
