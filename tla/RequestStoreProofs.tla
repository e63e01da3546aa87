------------------------- MODULE RequestStoreProofs -------------------------
(***************************************************************************)
(* Gets and saves are atomic for any number of threads, ids and items, any *)
(* number of items per file and any directories, with kills and failures:  *)
(* RequestStore implements AtomicStore.                                    *)
(*                                                                         *)
(* What is proved of the lock list (FileLockListProofs) is used here for   *)
(* the lock list inside: its invariant is kept by every request and by a   *)
(* restart, and it gives exclusion by path, since items that lie in the    *)
(* same file have the same lock.  On that rests the invariant of the       *)
(* files: a file that a request has open is as the request believes it is. *)
(***************************************************************************)
EXTENDS RequestStore, SequenceTheorems, TLAPS

Lock == INSTANCE FileLockListProofs WITH FileIds <- {LockOf(i) : i \in Ids}

\* The two conditions under which the lock list works.
LockConditions == Lock!NoSentinelId /\ Lock!EnoughEntries

Paths == {PathOf(i) : i \in Ids}
Stored == Items \cup {MISSING}
ContentsOf(path) ==
  {MISSING} \cup (IF Flat THEN Seq(Words) ELSE {BROKEN} \cup [IdsIn(path) -> Stored])

Types ==
  /\ step \in [Threads -> {"none", "dao", "read", "write", "create", "temp", "done", "answer"}]
  /\ id \in [Threads -> Ids \cup {NoId}]
  /\ item \in [Threads -> Items \cup {NoItem}]
  /\ result \in [Threads -> Items \cup {MISSING, GARBAGE, FAILED}]
  /\ buf = [t \in Threads |-> buf[t]]
  /\ disk = [path \in Paths |-> disk[path]]
  /\ \A path \in Paths : disk[path] \in ContentsOf(path)

\* How far a request is, and what it asked of the lock list.
Linked(t) ==
  /\ step[t] \in {"none", "answer"} <=> pc[t] = "idle"
  /\ pc[t] = "wait" => step[t] = "dao"
  /\ pc[t] # "idle" => id[t] \in Ids /\ file[t] = LockOf(id[t]) /\ mode[t] = ModeOf(item[t])

\* What a request in the DAO has in its hands, and what is in the file meanwhile.
Progress(t) ==
  /\ step[t] = "read" => Getting(t) /\ disk[Path(t)] # MISSING /\ buf[t] = disk[Path(t)]
  /\ step[t] = "write" => /\ Saving(t) /\ Flat
                          /\ disk[Path(t)] \in Seq(Words) /\ buf[t] \in Seq(Words)
                          /\ disk[Path(t)] \o buf[t] = item[t]
  /\ step[t] = "create" => /\ Saving(t) /\ ~ Flat
                           /\ disk[Path(t)] = [k \in IdsIn(Path(t)) |-> MISSING]
  /\ step[t] = "temp" => /\ Saving(t) /\ ~ Flat /\ disk[Path(t)] # MISSING
                         /\ buf[t] = CopyWith(disk[Path(t)], id[t], item[t])
  /\ step[t] \notin {"read", "write", "temp"} => buf[t] = <<>>

RInv ==
  /\ Lock!IInv
  /\ Types
  /\ \A t \in Threads : Linked(t) /\ Progress(t)

-----------------------------------------------------------------------------
\* The actions of the lock list, as the proofs about it name them.
LEMMA SameLockList ==
  /\ Locks!Init <=> Lock!Init
  /\ \A t \in Threads :
       /\ \A f \in {LockOf(i) : i \in Ids}, m \in Lock!Modes :
            Locks!LockFile(t, f, m) <=> Lock!LockFile(t, f, m)
       /\ Locks!Acquire(t) <=> Lock!Acquire(t)
       /\ Locks!ReleaseFile(t) <=> Lock!ReleaseFile(t)
<1>2. Locks!Init <=> Lock!Init
  BY DEF Lock!Init, Lock!Entries, Locks!Init, Locks!Entries
<1>3. ASSUME NEW t \in Threads, NEW f \in {LockOf(i) : i \in Ids}, NEW m \in Lock!Modes
      PROVE  Locks!LockFile(t, f, m) <=> Lock!LockFile(t, f, m)
  BY DEF Lock!LockFile, Lock!Matching, Lock!FreeEntries, Lock!IsFirst, Lock!Entries,
         Lock!Wrap16, Lock!UINT16_MAX, Lock!rwlocks, Lock!table,
         Locks!LockFile, Locks!Matching, Locks!FreeEntries, Locks!IsFirst, Locks!Entries,
         Locks!Wrap16, Locks!UINT16_MAX, Locks!rwlocks, Locks!table
<1>4. ASSUME NEW t \in Threads
      PROVE  Locks!Acquire(t) <=> Lock!Acquire(t)
  BY DEF Lock!Acquire, Lock!MayEnter, Lock!WaitingReaders, Lock!table, Lock!request,
         Locks!Acquire, Locks!MayEnter, Locks!WaitingReaders, Locks!table, Locks!request
<1>5. ASSUME NEW t \in Threads
      PROVE  Locks!ReleaseFile(t) <=> Lock!ReleaseFile(t)
  BY DEF Lock!ReleaseFile, Lock!Unlock, Lock!UndefinedUnlock, Lock!IsFirst, Lock!Entries,
         Lock!Wrap16, Lock!UINT16_MAX, Lock!rwlocks, Lock!table,
         Locks!ReleaseFile, Locks!Unlock, Locks!UndefinedUnlock, Locks!IsFirst, Locks!Entries,
         Locks!Wrap16, Locks!UINT16_MAX, Locks!rwlocks, Locks!table
<1> QED
  BY <1>2, <1>3, <1>4, <1>5

LEMMA ListConstants == Lock!LockListAssumption
<1>1. Locks!LockListAssumption
  BY LockConstants
<1>2. Lock!IsFiniteSet(Threads)
  BY <1>1 DEF Locks!IsFiniteSet, Lock!IsFiniteSet
<1>3. NumEntries \in 1 .. Locks!UINT16_MAX
  BY <1>1
<1>4. NumEntries \in 1 .. Lock!UINT16_MAX
  BY <1>3 DEF Locks!UINT16_MAX, Lock!UINT16_MAX
<1> QED
  BY <1>1, <1>2, <1>4

\* Requests that have the same file open both read it.
LEMMA OneWriterPerPath ==
  ASSUME LockConditions, RInv, NEW t \in Threads, NEW u \in Threads, t # u,
         pc[t] = "hold", pc[u] = "hold", Path(t) = Path(u)
  PROVE  Getting(t) /\ Getting(u)
<1>1. Lock!FileExclusion
  BY ListConstants, Lock!IInvExcludes DEF RInv, LockConditions
<1>2. file[t] = file[u] /\ mode[t] = ModeOf(item[t]) /\ mode[u] = ModeOf(item[u])
  BY DEF RInv, Linked, Path, PathOf, LockOf
<1> QED
  BY <1>1, <1>2 DEF Lock!FileExclusion, ModeOf, Getting

-----------------------------------------------------------------------------
LEMMA InitRInv == Init => RInv
<1> SUFFICES ASSUME Init PROVE RInv
  OBVIOUS
<1>1. Lock!IInv
  BY SameLockList, ListConstants, Lock!InitIInv DEF Init
<1>2. Types
  BY DEF Init, Types, Paths, ContentsOf
<1>3. ASSUME NEW t \in Threads PROVE Linked(t) /\ Progress(t)
  BY DEF Init, Linked, Progress, Locks!Init
<1> QED
  BY <1>1, <1>2, <1>3 DEF RInv

\* A step in the DAO of a thread that has the lock, after which its own part of the
\* invariant holds, keeps the parts of the others: it writes only its own file, and
\* that only when it saves.
LEMMA DaoKeeps ==
  ASSUME LockConditions, RInv, NEW t \in Threads, pc[t] = "hold",
         UNCHANGED <<lockVars, call>>, Types',
         \A u \in Threads \ {t} : step'[u] = step[u] /\ buf'[u] = buf[u],
         \/ UNCHANGED disk
         \/ Saving(t) /\ \A path \in Paths \ {Path(t)} : disk'[path] = disk[path],
         step'[t] \in {"read", "write", "create", "temp", "done"},
         Progress(t)'
  PROVE  RInv'
<1>1. Lock!IInv'
  BY Lock!NextIInv, ListConstants
     DEF RInv, LockConditions, lockVars, Lock!vars, Lock!table, Lock!rwlocks, Lock!request
<1>2. ASSUME NEW u \in Threads PROVE Linked(u)'
  BY DEF RInv, Linked, lockVars, call
<1>3. ASSUME NEW u \in Threads \ {t} PROVE Progress(u)'
  <2>1. Progress(u) /\ step'[u] = step[u] /\ buf'[u] = buf[u] /\ id'[u] = id[u] /\ item'[u] = item[u]
    BY DEF RInv, call
  <2>2. CASE step[u] \notin {"read", "write", "create", "temp"}
    BY <2>1, <2>2 DEF Progress
  <2>3. CASE step[u] \in {"read", "write", "create", "temp"}
    <3>1. pc[u] = "hold" /\ id[u] \in Ids
      BY <2>3 DEF RInv, Linked, Lock!IInv, Lock!NoBare, Lock!TypeOK
    <3>2. Path(u) \in Paths
      BY <3>1 DEF Path, Paths
    <3>3. disk'[Path(u)] = disk[Path(u)]
      BY <3>1, <3>2, OneWriterPerPath DEF Saving, Getting
    <3> QED
      BY <2>1, <3>3 DEF Progress, Path, Getting, Saving
  <2> QED
    BY <2>2, <2>3
<1> QED
  BY <1>1, <1>2, <1>3 DEF RInv

-----------------------------------------------------------------------------
\* The steps outside the DAO: they change no file, and no other request.
LEMMA ReceiveRInv ==
  ASSUME LockConditions, RInv, NEW t \in Threads, NEW i \in Ids, NEW x \in Items \cup {NoItem},
         Receive(t, i, x)
  PROVE  RInv'
<1>1. Lock!LockFile(t, LockOf(i), ModeOf(x)) /\ LockOf(i) \in {LockOf(k) : k \in Ids}
  BY SameLockList DEF Receive, ModeOf, Lock!Modes
<1>2. ModeOf(x) \in Lock!Modes
  BY DEF ModeOf, Lock!Modes
<1> DEFINE f == LockOf(i)
           m == ModeOf(x)
<1>0. Lock!LockFile(t, f, m) /\ f \in {LockOf(k) : k \in Ids} /\ m \in Lock!Modes
  BY <1>1, <1>2
<1> HIDE DEF f, m
<1>3. Lock!IInv'
  BY <1>0, ListConstants, Lock!LockFileIInv DEF RInv, LockConditions
<1>4. /\ pc[t] = "idle" /\ pc' = [pc EXCEPT ![t] = "wait"]
      /\ file' = [file EXCEPT ![t] = f] /\ mode' = [mode EXCEPT ![t] = m]
  BY <1>0, ListConstants, Lock!LockFileEffect DEF RInv, LockConditions
<1>5. pc \in [Threads -> {"idle", "wait", "hold", "bare"}] /\ DOMAIN file = Threads /\ DOMAIN mode = Threads
  BY DEF RInv, Lock!IInv, Lock!TypeOK
<1>6. Types'
  BY DEF RInv, Types, Receive, Goto
<1>7. ASSUME NEW u \in Threads PROVE Linked(u)' /\ Progress(u)'
  <2>1. Linked(u) /\ Progress(u)
    BY DEF RInv
  <2>2. CASE u = t
    BY <1>4, <1>5, <2>1, <2>2 DEF RInv, Types, Linked, Progress, Receive, Goto, f, m
  <2>3. CASE u # t
    BY <1>4, <1>5, <2>1, <2>3 DEF RInv, Types, Linked, Progress, Receive, Goto, Path, Getting, Saving
  <2> QED
    BY <2>2, <2>3
<1> QED
  BY <1>3, <1>6, <1>7 DEF RInv

LEMMA EnterRInv ==
  ASSUME LockConditions, RInv, NEW t \in Threads, Enter(t)
  PROVE  RInv'
<1>1. Lock!IInv'
  BY SameLockList, ListConstants, Lock!AcquireIInv DEF RInv, Enter
<1>2. pc[t] = "wait" /\ pc' = [pc EXCEPT ![t] = "hold"] /\ UNCHANGED <<file, mode>>
  BY DEF Enter, Locks!Acquire, Locks!request
<1>3. pc \in [Threads -> {"idle", "wait", "hold", "bare"}]
  BY DEF RInv, Lock!IInv, Lock!TypeOK
<1>4. Types'
  BY DEF RInv, Types, Enter, call
<1>5. ASSUME NEW u \in Threads PROVE Linked(u)' /\ Progress(u)'
  <2>1. Linked(u) /\ Progress(u)
    BY DEF RInv
  <2> QED
    BY <1>2, <1>3, <2>1 DEF Linked, Progress, Enter, call, Path, Getting, Saving
<1> QED
  BY <1>1, <1>4, <1>5 DEF RInv

LEMMA ReleaseRInv ==
  ASSUME LockConditions, RInv, NEW t \in Threads, Release(t)
  PROVE  RInv'
<1>1. Lock!IInv'
  BY SameLockList, ListConstants, Lock!ReleaseFileIInv DEF RInv, Release, LockConditions
<1>2. /\ pc' = [pc EXCEPT ![t] = "idle"]
      /\ file' = [file EXCEPT ![t] = NoFile] /\ mode' = [mode EXCEPT ![t] = "read"]
  BY DEF Release, Locks!ReleaseFile
<1>3. pc \in [Threads -> {"idle", "wait", "hold", "bare"}] /\ DOMAIN file = Threads /\ DOMAIN mode = Threads
  BY DEF RInv, Lock!IInv, Lock!TypeOK
<1>4. Types'
  BY DEF RInv, Types, Release, Goto, call
<1>5. ASSUME NEW u \in Threads PROVE Linked(u)' /\ Progress(u)'
  <2>1. Linked(u) /\ Progress(u)
    BY DEF RInv
  <2> QED
    BY <1>2, <1>3, <2>1 DEF RInv, Types, Linked, Progress, Release, Goto, call, Path, Getting, Saving
<1> QED
  BY <1>1, <1>4, <1>5 DEF RInv

LEMMA AnswerRInv ==
  ASSUME LockConditions, RInv, NEW t \in Threads, Answer(t)
  PROVE  RInv'
<1>1. Lock!IInv'
  BY Lock!NextIInv, ListConstants
     DEF RInv, Answer, LockConditions, lockVars, Lock!vars, Lock!table, Lock!rwlocks, Lock!request
<1>2. Types'
  BY DEF RInv, Types, Answer, Goto
<1>3. ASSUME NEW u \in Threads PROVE Linked(u)' /\ Progress(u)'
  <2>1. Linked(u) /\ Progress(u)
    BY DEF RInv
  <2> QED
    BY <2>1 DEF RInv, Types, Linked, Progress, Answer, Goto, lockVars, Path, Getting, Saving
<1> QED
  BY <1>1, <1>2, <1>3 DEF RInv

LEMMA CrashRInv == ASSUME RInv, Crash PROVE RInv'
<1>1. Lock!IInv'
  <2>1. Lock!Init'
    BY DEF Crash, Lock!Init, Lock!Entries
  <2> QED
    BY <2>1, ListConstants, Lock!InitIInv, PTL
<1>2. Types'
  <2>1. PICK broken \in SUBSET {Path(t) : t \in {u \in Threads : step[u] = "create"}} :
          disk' = [path \in DOMAIN disk |-> IF path \in broken THEN BROKEN ELSE disk[path]]
    BY DEF Crash
  <2>2. broken # {} => ~ Flat
    BY DEF RInv, Progress
  <2>3. disk' = [path \in Paths |-> IF path \in broken THEN BROKEN ELSE disk[path]]
    BY <2>1 DEF RInv, Types
  <2>4. \A path \in Paths : disk'[path] \in ContentsOf(path)
    BY <2>2, <2>3 DEF RInv, Types, ContentsOf
  <2> QED
    BY <2>3, <2>4 DEF Types, Crash
<1>3. ASSUME NEW u \in Threads PROVE Linked(u)' /\ Progress(u)'
  BY DEF Crash, Linked, Progress
<1> QED
  BY <1>1, <1>2, <1>3 DEF RInv

-----------------------------------------------------------------------------
\* A word that moves from the rest of an item to the end of the file.
LEMMA WordMoves ==
  ASSUME NEW W, NEW s \in Seq(W), NEW r \in Seq(W), r # <<>>
  PROVE  /\ Append(s, Head(r)) \in Seq(W) /\ Tail(r) \in Seq(W)
         /\ Append(s, Head(r)) \o Tail(r) = s \o r
<1>1. Head(r) \in W /\ Tail(r) \in Seq(W) /\ Append(s, Head(r)) \in Seq(W)
  BY HeadTailProperties, AppendProperties
<1>2. Append(s, Head(r)) = s \o <<Head(r)>> /\ <<Head(r)>> \in Seq(W)
  BY <1>1, AppendIsConcat
<1>3. <<Head(r)>> \o Tail(r) = r
  BY <1>1
<1> QED
  BY <1>1, <1>2, <1>3, ConcatAssociative

\* A content of the right kind is put in a file.
LEMMA FileTyped ==
  ASSUME Types, NEW path \in Paths, NEW c \in ContentsOf(path), disk' = [disk EXCEPT ![path] = c]
  PROVE  /\ disk' = [p \in Paths |-> disk'[p]]
         /\ \A p \in Paths : disk'[p] \in ContentsOf(p)
         /\ disk'[path] = c
BY DEF Types

\* The files of records: those that a save puts down, and what a get finds in one.
LEMMA RecordContents ==
  ASSUME ~ Flat, NEW i \in Ids
  PROVE  /\ [k \in IdsIn(PathOf(i)) |-> MISSING] \in ContentsOf(PathOf(i))
         /\ BROKEN \in ContentsOf(PathOf(i))
         /\ \A x \in Items :
              /\ Records(PathOf(i), i, x) \in ContentsOf(PathOf(i))
              /\ \A c \in ContentsOf(PathOf(i)) \ {MISSING} :
                   CopyWith(c, i, x) \in ContentsOf(PathOf(i))
         /\ \A c \in ContentsOf(PathOf(i)) \ {MISSING} :
              MayRead(c, i) \subseteq Items \cup {MISSING, GARBAGE}
<1> USE DEF ContentsOf, Stored, IdsIn
<1>1. /\ [k \in IdsIn(PathOf(i)) |-> MISSING] \in ContentsOf(PathOf(i))
      /\ BROKEN \in ContentsOf(PathOf(i))
      /\ \A x \in Items : Records(PathOf(i), i, x) \in ContentsOf(PathOf(i))
  BY DEF Records
<1>2. ASSUME NEW x \in Items, NEW c \in ContentsOf(PathOf(i)) \ {MISSING}
      PROVE  CopyWith(c, i, x) \in ContentsOf(PathOf(i))
  BY DEF CopyWith
<1>3. ASSUME NEW c \in ContentsOf(PathOf(i)) \ {MISSING}
      PROVE  MayRead(c, i) \subseteq Items \cup {MISSING, GARBAGE}
  BY DEF MayRead
<1> QED
  BY <1>1, <1>2, <1>3

\* A step in the DAO begins like this: nobody is there without a lock.
LEMMA InDao ==
  ASSUME RInv, NEW t \in Threads, NEW s, Dao(t, s)
  PROVE  /\ pc[t] = "hold" /\ step[t] = s /\ UNCHANGED <<lockVars, call>>
         /\ (s # "none" /\ s # "answer") =>
              id[t] \in Ids /\ Path(t) \in Paths /\ disk[Path(t)] \in ContentsOf(Path(t))
<1>1. pc[t] = "hold" /\ step[t] = s /\ UNCHANGED <<lockVars, call>>
  BY DEF RInv, Dao, Lock!IInv, Lock!NoBare
<1>2. id[t] \in Ids
  BY <1>1 DEF RInv, Linked
<1>3. Path(t) \in Paths
  BY <1>2 DEF Path, Paths
<1> QED
  BY <1>1, <1>2, <1>3 DEF RInv, Types

\* The steps of a DAO call, each with its part of the invariant.
LEMMA WorkRInv ==
  ASSUME LockConditions, RInv, NEW t \in Threads, Work(t)
  PROVE  RInv'
<1> USE DEF RInv, Types, Progress, Goto, Finish, call, Getting, Saving
<1>a. ASSUME NEW s \in {"dao", "write", "create", "temp", "read"}, Dao(t, s)
      PROVE  /\ pc[t] = "hold" /\ step[t] = s /\ UNCHANGED <<lockVars, call>>
             /\ id[t] \in Ids /\ Path(t) \in Paths /\ disk[Path(t)] \in ContentsOf(Path(t))
             /\ Path(t)' = Path(t)
  BY <1>a, InDao DEF Path
<1>b. ASSUME Types', pc[t] = "hold", UNCHANGED <<lockVars, call>>,
             \A u \in Threads \ {t} : step'[u] = step[u] /\ buf'[u] = buf[u],
             \/ UNCHANGED disk
             \/ Saving(t) /\ \A path \in Paths \ {Path(t)} : disk'[path] = disk[path],
             step'[t] \in {"read", "write", "create", "temp", "done"},
             Progress(t)'
      PROVE  RInv'
  BY <1>b, DaoKeeps
<1> HIDE DEF RInv
<1>1. CASE GetMissing(t)
  <2>1. Types'
    BY <1>1, <1>a DEF GetMissing, RInv
  <2>2. Progress(t)'
    BY <1>1, <1>a DEF GetMissing, RInv
  <2> QED
    BY <1>1, <1>a, <1>b, <2>1, <2>2 DEF GetMissing, RInv
<1>2. CASE SaveFails(t)
  <2>1. Types'
    BY <1>2, <1>a DEF SaveFails, RInv
  <2>2. Progress(t)'
    BY <1>2, <1>a DEF SaveFails, RInv
  <2> QED
    BY <1>2, <1>a, <1>b, <2>1, <2>2 DEF SaveFails, RInv
<1>3. CASE FlatTruncate(t)
  <2>0. /\ item[t] \in Items /\ item[t] \in Seq(Words) /\ <<>> \in Seq(Words)
        /\ <<>> \o item[t] = item[t]
    BY <1>3, <1>a, ItemConstants DEF FlatTruncate, RInv
  <2>1. Types'
    BY <1>3, <1>a, <2>0 DEF FlatTruncate, ContentsOf, RInv
  <2>2. Progress(t)'
    BY <1>3, <1>a, <2>0 DEF FlatTruncate, ContentsOf, RInv
  <2> QED
    BY <1>3, <1>a, <1>b, <2>1, <2>2 DEF FlatTruncate, RInv
<1>4. CASE FlatWrite(t)
  <2> DEFINE content == disk[Path(t)]
             rest == buf[t]
  <2>0. /\ content \in Seq(Words) /\ rest \in Seq(Words) /\ rest # <<>>
        /\ content \o rest = item[t]
    BY <1>4, <1>a DEF FlatWrite, RInv
  <2>1. /\ Append(content, Head(rest)) \in Seq(Words) /\ Tail(rest) \in Seq(Words)
        /\ Append(content, Head(rest)) \o Tail(rest) = content \o rest
    BY <2>0, WordMoves
  <2>2. Types'
    BY <1>4, <1>a, <2>1 DEF FlatWrite, ContentsOf, RInv
  <2>3. Progress(t)'
    BY <1>4, <1>a, <2>0, <2>1 DEF FlatWrite, RInv
  <2> QED
    BY <1>4, <1>a, <1>b, <2>2, <2>3 DEF FlatWrite, RInv
<1>5. CASE FlatClose(t)
  <2>1. Types'
    BY <1>5, <1>a DEF FlatClose, RInv
  <2>2. Progress(t)'
    BY <1>5, <1>a DEF FlatClose, RInv
  <2> QED
    BY <1>5, <1>a, <1>b, <2>1, <2>2 DEF FlatClose, RInv
<1>6. CASE FlatWriteFails(t)
  <2>1. Types'
    BY <1>6, <1>a DEF FlatWriteFails, RInv
  <2>2. Progress(t)'
    BY <1>6, <1>a DEF FlatWriteFails, RInv
  <2> QED
    BY <1>6, <1>a, <1>b, <2>1, <2>2 DEF FlatWriteFails, RInv
<1>7. CASE FlatMeasure(t)
  <2>1. Types'
    BY <1>7, <1>a DEF FlatMeasure, RInv
  <2>2. Progress(t)'
    BY <1>7, <1>a DEF FlatMeasure, RInv
  <2> QED
    BY <1>7, <1>a, <1>b, <2>1, <2>2 DEF FlatMeasure, RInv
<1>8. CASE FlatRead(t)
  <2>1. Types'
    BY <1>8, <1>a DEF FlatRead, RInv
  <2>2. Progress(t)'
    BY <1>8, <1>a DEF FlatRead, RInv
  <2> QED
    BY <1>8, <1>a, <1>b, <2>1, <2>2 DEF FlatRead, RInv
<1>9. CASE RecordCreate(t)
  <2>0. /\ ~ Flat /\ Path(t) = PathOf(id[t]) /\ item[t] \in Items
        /\ disk' = [disk EXCEPT ![Path(t)] = [k \in IdsIn(Path(t)) |-> MISSING]]
        /\ [k \in IdsIn(Path(t)) |-> MISSING] \in ContentsOf(Path(t))
    BY <1>9, <1>a, RecordContents DEF RecordCreate, Path, RInv
  <2>1. /\ disk' = [p \in Paths |-> disk'[p]]
        /\ \A p \in Paths : disk'[p] \in ContentsOf(p)
        /\ disk'[Path(t)] = [k \in IdsIn(Path(t)) |-> MISSING]
    <3> HIDE DEF Types
    <3> QED
      BY <1>9, <1>a, <2>0, FileTyped DEF RecordCreate, RInv
  <2>2. Types'
    BY <1>9, <1>a, <2>0, <2>1 DEF RecordCreate, RInv
  <2>3. Progress(t)'
    BY <1>9, <1>a, <2>0, <2>1 DEF RecordCreate, RInv
  <2> QED
    BY <1>9, <1>a, <1>b, <2>0, <2>2, <2>3 DEF RecordCreate, RInv
<1>10. CASE RecordCreated(t)
  <2>0. /\ ~ Flat /\ Path(t) = PathOf(id[t]) /\ item[t] \in Items
        /\ disk' = [disk EXCEPT ![Path(t)] = Records(Path(t), id[t], item[t])]
        /\ Records(Path(t), id[t], item[t]) \in ContentsOf(Path(t))
    BY <1>10, <1>a, RecordContents DEF RecordCreated, Path, RInv
  <2>1. /\ disk' = [p \in Paths |-> disk'[p]]
        /\ \A p \in Paths : disk'[p] \in ContentsOf(p)
        /\ disk'[Path(t)] = Records(Path(t), id[t], item[t])
    <3> HIDE DEF Types
    <3> QED
      BY <1>10, <1>a, <2>0, FileTyped DEF RecordCreated, RInv
  <2>2. Types'
    BY <1>10, <1>a, <2>0, <2>1 DEF RecordCreated, RInv
  <2>3. Progress(t)'
    BY <1>10, <1>a, <2>0, <2>1 DEF RecordCreated, RInv
  <2> QED
    BY <1>10, <1>a, <1>b, <2>0, <2>2, <2>3 DEF RecordCreated, RInv
<1>11. CASE RecordCopy(t)
  <2>1. Types'
    BY <1>11, <1>a DEF RecordCopy, RInv
  <2>2. Progress(t)'
    BY <1>11, <1>a DEF RecordCopy, RInv
  <2> QED
    BY <1>11, <1>a, <1>b, <2>1, <2>2 DEF RecordCopy, RInv
<1>12. CASE RecordRename(t)
  <2>0. /\ ~ Flat /\ Path(t) = PathOf(id[t]) /\ item[t] \in Items
        /\ disk' = [disk EXCEPT ![Path(t)] = buf[t]]
        /\ buf[t] \in ContentsOf(Path(t))
    <3> DEFINE c == disk[Path(t)]
    <3>1. /\ ~ Flat /\ Path(t) = PathOf(id[t]) /\ item[t] \in Items /\ id[t] \in Ids
          /\ c \in ContentsOf(PathOf(id[t])) \ {MISSING}
          /\ buf[t] = CopyWith(c, id[t], item[t])
      BY <1>12, <1>a DEF RecordRename, Path, RInv
    <3> HIDE DEF c
    <3>2. CopyWith(c, id[t], item[t]) \in ContentsOf(PathOf(id[t]))
      BY <3>1, RecordContents
    <3> QED
      BY <1>12, <3>1, <3>2 DEF RecordRename
  <2>1. /\ disk' = [p \in Paths |-> disk'[p]]
        /\ \A p \in Paths : disk'[p] \in ContentsOf(p)
        /\ disk'[Path(t)] = buf[t]
    <3> HIDE DEF Types
    <3> QED
      BY <1>12, <1>a, <2>0, FileTyped DEF RecordRename, RInv
  <2>2. Types'
    BY <1>12, <1>a, <2>0, <2>1 DEF RecordRename, RInv
  <2>3. Progress(t)'
    BY <1>12, <1>a, <2>0, <2>1 DEF RecordRename, RInv
  <2> QED
    BY <1>12, <1>a, <1>b, <2>0, <2>2, <2>3 DEF RecordRename, RInv
<1>13. CASE RecordTempFails(t)
  <2>1. Types'
    BY <1>13, <1>a DEF RecordTempFails, RInv
  <2>2. Progress(t)'
    BY <1>13, <1>a DEF RecordTempFails, RInv
  <2> QED
    BY <1>13, <1>a, <1>b, <2>1, <2>2 DEF RecordTempFails, RInv
<1>14. CASE RecordOpen(t)
  <2>1. Types'
    BY <1>14, <1>a DEF RecordOpen, RInv
  <2>2. Progress(t)'
    BY <1>14, <1>a DEF RecordOpen, RInv
  <2> QED
    BY <1>14, <1>a, <1>b, <2>1, <2>2 DEF RecordOpen, RInv
<1>15. CASE RecordRead(t)
  <2>0. MayRead(buf[t], id[t]) \subseteq Items \cup {MISSING, GARBAGE}
    BY <1>15, <1>a, RecordContents DEF RecordRead, Path, RInv
  <2>1. Types'
    BY <1>15, <1>a, <2>0 DEF RecordRead, RInv
  <2>2. Progress(t)'
    BY <1>15, <1>a DEF RecordRead, RInv
  <2> QED
    BY <1>15, <1>a, <1>b, <2>1, <2>2 DEF RecordRead, RInv
<1>18. CASE RecordCreateFails(t)
  <2> DEFINE before == disk[Path(t)]
  <2>0. /\ ~ Flat /\ Path(t) = PathOf(id[t]) /\ Saving(t)
        /\ before \in ContentsOf(Path(t)) /\ BROKEN \in ContentsOf(Path(t))
    BY <1>18, <1>a, RecordContents DEF RecordCreateFails, Path, RInv
  <2> HIDE DEF before
  <2>1. PICK left \in {before, BROKEN} : disk' = [disk EXCEPT ![Path(t)] = left]
    BY <1>18 DEF RecordCreateFails, before
  <2>2. /\ disk' = [p \in Paths |-> disk'[p]]
        /\ \A p \in Paths : disk'[p] \in ContentsOf(p)
        /\ disk'[Path(t)] = left
    <3>1. Types /\ Path(t) \in Paths /\ left \in ContentsOf(Path(t))
      BY <1>18, <1>a, <2>0, <2>1 DEF RecordCreateFails, RInv
    <3> HIDE DEF Types
    <3> QED
      BY <2>1, <3>1, FileTyped
  <2>3. Types'
    BY <1>18, <1>a, <2>0, <2>2 DEF RecordCreateFails, RInv
  <2>4. Progress(t)'
    BY <1>18, <1>a, <2>0, <2>2 DEF RecordCreateFails, RInv
  <2> QED
    BY <1>18, <1>a, <1>b, <2>0, <2>1, <2>3, <2>4 DEF RecordCreateFails, RInv
<1>16. CASE Release(t)
  BY <1>16, ReleaseRInv
<1>17. CASE Answer(t)
  BY <1>17, AnswerRInv
<1> QED
  BY <1>1, <1>2, <1>3, <1>4, <1>5, <1>6, <1>7, <1>8, <1>9, <1>10, <1>11, <1>12, <1>13, <1>14, <1>15, <1>16,
     <1>17, <1>18 DEF Work

LEMMA NextRInv == ASSUME LockConditions, RInv, [Next]_vars PROVE RInv'
<1>1. CASE UNCHANGED vars
  <2>1. Lock!IInv'
    BY <1>1, Lock!NextIInv, ListConstants
       DEF RInv, LockConditions, vars, lockVars, Lock!vars, Lock!table, Lock!rwlocks, Lock!request
  <2>2. Types'
    BY <1>1 DEF RInv, Types, vars, call
  <2>3. ASSUME NEW t \in Threads PROVE Linked(t)' /\ Progress(t)'
    BY <1>1 DEF RInv, Linked, Progress, vars, lockVars, call, Path, Getting, Saving
  <2> QED
    BY <2>1, <2>2, <2>3 DEF RInv
<1>2. ASSUME NEW t \in Threads, NEW i \in Ids, NEW x \in Items \cup {NoItem}, Receive(t, i, x)
      PROVE  RInv'
  BY <1>2, ReceiveRInv
<1>3. ASSUME NEW t \in Threads, Enter(t) PROVE RInv'
  BY <1>3, EnterRInv
<1>4. ASSUME NEW t \in Threads, Work(t) PROVE RInv'
  BY <1>4, WorkRInv
<1>5. CASE Crash
  BY <1>5, CrashRInv
<1> QED
  BY <1>1, <1>2, <1>3, <1>4, <1>5 DEF Next

THEOREM InductiveInvariant == ASSUME LockConditions PROVE Spec => []RInv
<1>1. RInv /\ [Next]_vars => RInv'
  BY NextRInv
<1> QED
  BY <1>1, InitRInv, PTL DEF Spec

\* The types, and a request is in the DAO only with its lock and has left nothing
\* locked when it is answered, for any number of threads, ids and items.
THEOREM TypeCorrect == ASSUME LockConditions PROVE Spec => []TypeOK
<1>1. ASSUME RInv PROVE TypeOK
  <2>1. Lock!TypeOK
    BY <1>1 DEF RInv, Lock!IInv
  <2>0. /\ Locks!UINT16_MAX = Lock!UINT16_MAX
        /\ Locks!Entries = Lock!Entries /\ Locks!Modes = Lock!Modes
    BY DEF Lock!Entries, Lock!Modes, Lock!UINT16_MAX,
           Locks!Entries, Locks!Modes, Locks!UINT16_MAX
  <2>2. Locks!TypeOK
    BY <2>0, <2>1 DEF Lock!TypeOK, Locks!TypeOK
  <2> QED
    BY <1>1, <2>2 DEF RInv, Types, Linked, Progress, TypeOK
<1>2. RInv => TypeOK
  BY <1>1
<1> QED
  BY <1>2, InductiveInvariant, PTL

-----------------------------------------------------------------------------
\* The refinement: the calls and the effects of AtomicStore.
Calls == {<<t, id[t], item[t]>> : t \in Pending}
Effects == {<<t, id[t], item[t], Decision(t)>> : t \in Decided}

\* A request takes effect.
LEMMA TakesEffect ==
  ASSUME Types, NEW t \in Pending, NEW s \in {"write", "done"},
         step' = [step EXCEPT ![t] = s], UNCHANGED call,
         \A u \in Threads \ {t} : result'[u] = result[u]
  PROVE  /\ <<t, id[t], item[t]>> \in Calls
         /\ Calls' = Calls \ {<<t, id[t], item[t]>>}
         /\ Effects' = Effects \cup {<<t, id[t], item[t], Decision(t)'>>}
<1>1. t \in Threads /\ Pending' = Pending \ {t} /\ Decided' = Decided \cup {t} /\ t \notin Decided
  BY DEF Types, Pending, Decided
<1>2. \A u \in Threads : id'[u] = id[u] /\ item'[u] = item[u]
  BY DEF call
<1>3. \A u \in Decided : Decision(u)' = Decision(u)
  BY <1>1 DEF Types, Decision, Writing, call, Decided
<1>4. Pending \subseteq Threads /\ Decided \subseteq Threads
  BY DEF Pending, Decided
<1>5. Calls' = Calls \ {<<t, id[t], item[t]>>}
  BY <1>1, <1>2, <1>4 DEF Calls
<1>6. Effects' = Effects \cup {<<t, id[t], item[t], Decision(t)'>>}
  BY <1>1, <1>2, <1>3, <1>4 DEF Effects
<1> QED
  BY <1>5, <1>6 DEF Calls

\* A request goes on without one.
LEMMA NoEffect ==
  ASSUME Pending' = Pending, Decided' = Decided, UNCHANGED call,
         \A u \in Decided : Decision(u)' = Decision(u)
  PROVE  Calls' = Calls /\ Effects' = Effects
BY DEF Calls, Effects, call, Pending, Decided

\* The item of an id without its writer.
InFile(i) ==
  LET content == disk[PathOf(i)]
  IN IF content \in {MISSING, BROKEN} THEN content
     ELSE IF ~ Flat THEN content[i]
     ELSE IF content \in Items THEN content
     ELSE DAMAGED

\* The item of an id is that of its writer, or else what the file says.
LEMMA StoredIs ==
  LockConditions /\ RInv =>
    \A i \in Ids :
      /\ \A u \in Threads : Writing(u) /\ Path(u) = PathOf(i) => StoredAt(i) = item[u]
      /\ (\A u \in Threads : Writing(u) => Path(u) # PathOf(i)) => StoredAt(i) = InFile(i)
<1> SUFFICES ASSUME LockConditions, RInv, NEW i \in Ids
             PROVE  /\ \A u \in Threads : Writing(u) /\ Path(u) = PathOf(i) => StoredAt(i) = item[u]
                    /\ (\A u \in Threads : Writing(u) => Path(u) # PathOf(i)) => StoredAt(i) = InFile(i)
  OBVIOUS
<1> DEFINE savers == {t \in Threads : Writing(t) /\ Path(t) = PathOf(i)}
<1>1. ASSUME NEW u \in Threads, Writing(u) PROVE pc[u] = "hold" /\ Saving(u)
  BY <1>1 DEF RInv, Linked, Progress, Writing, Lock!IInv, Lock!TypeOK, Lock!NoBare
<1>2. ASSUME NEW u \in savers PROVE savers = {u}
  BY <1>1, OneWriterPerPath DEF Getting, Saving
<1>3. ASSUME NEW u \in savers PROVE StoredAt(i) = item[u]
  BY <1>2 DEF StoredAt
<1>4. ASSUME savers = {} PROVE StoredAt(i) = InFile(i)
  BY <1>4 DEF StoredAt, InFile
<1> QED
  BY <1>3, <1>4

\* Steps that leave the files alone, and the writers.
LEMMA StoreSame ==
  ASSUME UNCHANGED disk,
         \A u \in Threads : /\ Writing(u)' <=> Writing(u)
                            /\ Writing(u) => id'[u] = id[u] /\ item'[u] = item[u]
  PROVE  \A i \in Ids : StoredAt(i)' = StoredAt(i)
<1> SUFFICES ASSUME NEW i \in Ids PROVE StoredAt(i)' = StoredAt(i)
  OBVIOUS
<1> DEFINE savers == {t \in Threads : Writing(t) /\ Path(t) = PathOf(i)}
<1>1. savers' = savers
  BY DEF Path
<1>2. CASE savers = {}
  BY <1>1, <1>2 DEF StoredAt
<1>3. CASE savers # {}
  <2> DEFINE saver == CHOOSE t \in savers : TRUE
  <2>1. saver' = saver /\ saver \in savers
    BY <1>1, <1>3
  <2>2. StoredAt(i) = item[saver] /\ StoredAt(i)' = item'[saver]
    BY <1>1, <1>3, <2>1 DEF StoredAt
  <2> QED
    BY <2>1, <2>2
<1> QED
  BY <1>2, <1>3

\* A step in the DAO does nothing to the items of other files.
LEMMA StoreElsewhere ==
  ASSUME NEW t \in Threads, UNCHANGED call, \A u \in Threads \ {t} : step'[u] = step[u],
         NEW i \in Ids, PathOf(i) # Path(t), disk'[PathOf(i)] = disk[PathOf(i)]
  PROVE  StoredAt(i)' = StoredAt(i)
<1> DEFINE savers == {u \in Threads : Writing(u) /\ Path(u) = PathOf(i)}
<1>1. savers' = savers /\ item' = item
  BY DEF Path, Writing, call
<1>2. CASE savers = {}
  BY <1>1, <1>2 DEF StoredAt
<1>3. CASE savers # {}
  <2> DEFINE saver == CHOOSE u \in savers : TRUE
  <2>1. saver' = saver
    BY <1>1
  <2>2. StoredAt(i) = item[saver] /\ StoredAt(i)' = item'[saver]
    BY <1>1, <1>3, <2>1 DEF StoredAt
  <2> QED
    BY <1>1, <2>2
<1> QED
  BY <1>2, <1>3

\* What the store has for an id whose file a thread in the DAO has locked.
LEMMA StoredLocked ==
  LockConditions /\ RInv =>
    \A t \in Threads, i \in Ids :
      pc[t] = "hold" /\ PathOf(i) = Path(t) =>
        StoredAt(i) = IF Writing(t) THEN item[t] ELSE InFile(i)
<1> SUFFICES ASSUME LockConditions, RInv, NEW t \in Threads, NEW i \in Ids,
                    pc[t] = "hold", PathOf(i) = Path(t)
             PROVE  StoredAt(i) = IF Writing(t) THEN item[t] ELSE InFile(i)
  OBVIOUS
<1>1. CASE Writing(t)
  BY <1>1, StoredIs
<1>2. CASE ~ Writing(t)
  <2>1. ASSUME NEW u \in Threads, Writing(u), Path(u) = PathOf(i) PROVE FALSE
    <3>1. pc[u] = "hold" /\ Saving(u) /\ u # t
      BY <1>2, <2>1 DEF RInv, Linked, Progress, Writing, Lock!IInv, Lock!TypeOK, Lock!NoBare
    <3> QED
      BY <2>1, <3>1, OneWriterPerPath DEF Getting, Saving
  <2>2. StoredAt(i) = InFile(i)
    BY <2>1, StoredIs
  <2> QED
    BY <1>2, <2>2
<1> QED
  BY <1>1, <1>2

LEMMA StoredLockedNext ==
  ASSUME LockConditions, RInv, [Next]_vars
  PROVE  /\ RInv'
         /\ \A t \in Threads, i \in Ids :
              pc'[t] = "hold" /\ PathOf(i) = Path(t)' =>
                StoredAt(i)' = IF Writing(t)' THEN item'[t] ELSE InFile(i)'
<1>1. RInv'
  BY NextRInv
<1>2. LockConditions'
  BY DEF LockConditions, Lock!NoSentinelId, Lock!EnoughEntries
<1>3. (\A t \in Threads, i \in Ids :
         pc[t] = "hold" /\ PathOf(i) = Path(t) =>
           StoredAt(i) = IF Writing(t) THEN item[t] ELSE InFile(i))'
  BY <1>1, <1>2, StoredLocked, PTL
<1> QED
  BY <1>1, <1>3

-----------------------------------------------------------------------------
\* The steps of AtomicStore, in the terms of this module.
Contents == [i \in Ids |-> StoredAt(i)]

LEMMA Stutters ==
  ASSUME Contents' = Contents, Calls' = Calls, Effects' = Effects
  PROVE  UNCHANGED Store!vars
BY DEF Store!vars, Contents, Calls, Effects

LEMMA IsCall ==
  ASSUME NEW t \in Threads, NEW i \in Ids, NEW x \in Items \cup {NoItem},
         \A c \in Calls \cup Effects : c[1] # t,
         Calls' = Calls \cup {<<t, i, x>>}, Effects' = Effects, Contents' = Contents
  PROVE  Store!Next
<1>1. Store!Call(t, i, x)
  BY DEF Store!Call, Contents, Calls, Effects
<1> QED
  BY <1>1 DEF Store!Next

\* A call is the triple of a thread, an id and an item, an effect has a result too.
LEMMA IsSave ==
  ASSUME NEW t \in Threads, NEW i, NEW x \in Items, <<t, i, x>> \in Calls,
         Calls' = Calls \ {<<t, i, x>>}, Effects' = Effects \cup {<<t, i, x, x>>},
         Contents' = [Contents EXCEPT ![i] = IF @ = BROKEN THEN BROKEN ELSE x]
  PROVE  Store!Next
<1>1. Store!Save(<<t, i, x>>)
  BY DEF Store!Save, Store!TakeEffect, Contents, Calls, Effects
<1> QED
  BY <1>1 DEF Store!Next, Calls

LEMMA IsSaveFails ==
  ASSUME NEW t \in Threads, NEW i, NEW x \in Items, <<t, i, x>> \in Calls,
         Calls' = Calls \ {<<t, i, x>>}, Effects' = Effects \cup {<<t, i, x, FAILED>>},
         Contents' = Contents
  PROVE  Store!Next
<1>1. Store!SaveFails(<<t, i, x>>)
  BY DEF Store!SaveFails, Store!TakeEffect, Contents, Calls, Effects
<1> QED
  BY <1>1 DEF Store!Next, Calls

\* The ids whose items lie in the file of an id, when a file has more than one.
InSameFile(i) == IF Flat THEN {} ELSE IdsIn(PathOf(i))

\* A save that has found no item in its file, and may be creating it.
LEMMA IsCreating ==
  ASSUME ~ Flat, NEW t \in Threads, NEW i \in Ids, NEW x \in Items, <<t, i, x>> \in Calls,
         \A k \in Ids : PathOf(k) = PathOf(i) => StoredAt(k) = MISSING
  PROVE  <<t, i, x>> \in Store!Creating
BY DEF Store!Creating, Calls, IdsIn

LEMMA IsSaveBreaks ==
  ASSUME ~ Flat, NEW t \in Threads, NEW i \in Ids, NEW x \in Items, <<t, i, x>> \in Calls,
         Calls' = Calls \ {<<t, i, x>>}, Effects' = Effects \cup {<<t, i, x, FAILED>>},
         \A k \in Ids : PathOf(k) = PathOf(i) => StoredAt(k) = MISSING,
         \A k \in Ids : StoredAt(k)' = IF PathOf(k) = PathOf(i) THEN BROKEN ELSE StoredAt(k)
  PROVE  Store!Next
<1>1. <<t, i, x>> \in Store!Creating
  BY IsCreating
<1>2. Contents' = [k \in Ids |-> IF k \in InSameFile(i) THEN BROKEN ELSE Contents[k]]
  BY DEF Contents, InSameFile, IdsIn
<1>3. Store!SaveBreaks(<<t, i, x>>)
  BY <1>1, <1>2 DEF Store!SaveBreaks, Store!TakeEffect, Contents, Calls, Effects, InSameFile
<1> QED
  BY <1>3 DEF Store!Next, Calls

LEMMA IsGet ==
  ASSUME NEW t \in Threads, NEW i \in Ids, NEW r \in Items \cup {MISSING, GARBAGE},
         <<t, i, NoItem>> \in Calls,
         Calls' = Calls \ {<<t, i, NoItem>>}, Effects' = Effects \cup {<<t, i, NoItem, r>>},
         Contents' = Contents, StoredAt(i) \in {r, DAMAGED, BROKEN}
  PROVE  Store!Next
<1>1. Store!Get(<<t, i, NoItem>>, r)
  BY DEF Store!Get, Store!TakeEffect, Contents, Calls, Effects
<1> QED
  BY <1>1 DEF Store!Next, Calls

LEMMA IsWriteFails ==
  ASSUME NEW t \in Threads, NEW i \in Ids, NEW x \in Items, <<t, i, x, x>> \in Effects,
         StoredAt(i) = x, Calls' = Calls,
         Effects' = (Effects \ {<<t, i, x, x>>}) \cup {<<t, i, x, FAILED>>},
         Contents' = [Contents EXCEPT ![i] = DAMAGED]
  PROVE  Store!Next
<1>1. Store!WriteFails(<<t, i, x, x>>)
  BY DEF Store!WriteFails, Store!Unanswered, Contents, Calls, Effects
<1> QED
  BY <1>1 DEF Store!Next, Effects

LEMMA IsAnswer ==
  ASSUME NEW e \in Effects, Effects' = Effects \ {e}, Calls' = Calls, Contents' = Contents
  PROVE  Store!Next
<1>1. Store!Answer(e)
  BY DEF Store!Answer, Contents, Calls, Effects
<1> QED
  BY <1>1 DEF Store!Next, Effects

LEMMA IsCrash ==
  ASSUME NEW damaged \in SUBSET Ids, NEW broken \in SUBSET Ids, Calls' = {}, Effects' = {},
         \A i \in damaged : \E t \in Threads, x \in Items :
            <<t, i, x, x>> \in Effects /\ StoredAt(i) = x,
         broken # {} => ~ Flat,
         \A i \in broken : /\ \E t \in Threads, x \in Items : <<t, i, x>> \in Calls
                           /\ \A k \in Ids : PathOf(k) = PathOf(i) => StoredAt(k) = MISSING,
         \A i \in Ids : StoredAt(i)' = IF \E k \in broken : PathOf(k) = PathOf(i) THEN BROKEN
                                       ELSE IF i \in damaged THEN DAMAGED ELSE StoredAt(i)
  PROVE  Store!Next
<1>1. damaged \subseteq {e[2] : e \in Store!Unanswered}
  <2> SUFFICES ASSUME NEW i \in damaged PROVE i \in {e[2] : e \in Store!Unanswered}
    OBVIOUS
  <2>1. PICK t \in Threads, x \in Items : <<t, i, x, x>> \in Effects /\ StoredAt(i) = x
    OBVIOUS
  <2>2. <<t, i, x, x>> \in Store!Unanswered
    BY <2>1 DEF Store!Unanswered, Effects
  <2> QED
    BY <2>2
<1> DEFINE creators == {c \in Store!Creating : c[2] \in broken}
<1>2. ASSUME NEW i \in Ids
      PROVE  (\E k \in broken : PathOf(k) = PathOf(i)) <=> \E c \in creators : i \in InSameFile(c[2])
  <2>1. ASSUME NEW k \in broken, PathOf(k) = PathOf(i)
        PROVE  \E c \in creators : i \in InSameFile(c[2])
    <3>1. PICK t \in Threads, x \in Items : <<t, k, x>> \in Calls
      OBVIOUS
    <3>2. <<t, k, x>> \in Store!Creating
      BY <3>1, IsCreating
    <3> QED
      BY <2>1, <3>2 DEF InSameFile, IdsIn
  <2>2. ASSUME NEW c \in creators, i \in InSameFile(c[2])
        PROVE  \E k \in broken : PathOf(k) = PathOf(i)
    BY <2>2 DEF InSameFile, IdsIn
  <2> QED
    BY <2>1, <2>2
<1>3. creators \in SUBSET Store!Creating
  OBVIOUS
<1> HIDE DEF creators
<1> DEFINE sharing == [i \in Ids |-> IF Flat THEN {} ELSE IdsIn(PathOf(i))]
<1>4. \A c \in creators : sharing[c[2]] = InSameFile(c[2])
  BY DEF creators, InSameFile
<1> HIDE DEF sharing
<1>5. Contents' = [i \in Ids |-> IF \E c \in creators : i \in sharing[c[2]] THEN BROKEN
                                ELSE IF i \in damaged THEN DAMAGED ELSE Contents[i]]
  <2>1. ASSUME NEW i \in Ids
        PROVE  (\E k \in broken : PathOf(k) = PathOf(i)) <=> \E c \in creators : i \in sharing[c[2]]
    BY <1>2, <1>4
  <2> QED
    BY <2>1 DEF Contents
<1>6. Store!Crash
  BY <1>1, <1>3, <1>5 DEF Store!Crash, Contents, Calls, Effects, sharing
<1> QED
  BY <1>6 DEF Store!Next

-----------------------------------------------------------------------------
\* What a step in the DAO has before and after it: the store says of the items in the
\* file what the step makes of the file, and is the same elsewhere.
LEMMA DaoStore ==
  ASSUME LockConditions, RInv, [Next]_vars, NEW t \in Threads,
         NEW s \in {"dao", "read", "write", "create", "temp"}, Dao(t, s),
         \A u \in Threads \ {t} : step'[u] = step[u],
         \A path \in Paths \ {Path(t)} : disk'[path] = disk[path]
  PROVE  /\ step[t] = s /\ id[t] \in Ids /\ item[t] \in Items \cup {NoItem}
         /\ PathOf(id[t]) = Path(t) /\ disk[Path(t)] \in ContentsOf(Path(t))
         /\ Types /\ Types' /\ Progress(t) /\ Progress(t)' /\ UNCHANGED call
         /\ \A i \in Ids :
              /\ PathOf(i) # Path(t) => StoredAt(i)' = StoredAt(i)
              /\ PathOf(i) = Path(t) =>
                   /\ StoredAt(i)  = IF s = "write" THEN item[t] ELSE InFile(i)
                   /\ StoredAt(i)' = IF step'[t] = "write" THEN item[t] ELSE InFile(i)'
<1>1. /\ pc[t] = "hold" /\ step[t] = s /\ UNCHANGED <<lockVars, call>>
      /\ id[t] \in Ids /\ disk[Path(t)] \in ContentsOf(Path(t))
  BY InDao
<1>2. RInv' /\ pc'[t] = "hold" /\ Path(t)' = Path(t) /\ item'[t] = item[t]
  BY <1>1, StoredLockedNext DEF Path, lockVars, call
<1>3. ASSUME NEW i \in Ids, PathOf(i) # Path(t) PROVE StoredAt(i)' = StoredAt(i)
  BY <1>1, <1>3, StoreElsewhere DEF Paths
<1>4. ASSUME NEW i \in Ids, PathOf(i) = Path(t)
      PROVE  StoredAt(i) = IF s = "write" THEN item[t] ELSE InFile(i)
  BY <1>1, <1>4, StoredLocked DEF Writing
<1>5. ASSUME NEW i \in Ids, PathOf(i) = Path(t)
      PROVE  StoredAt(i)' = IF step'[t] = "write" THEN item[t] ELSE InFile(i)'
  BY <1>1, <1>2, <1>5, StoredLockedNext DEF Writing
<1> QED
  BY <1>1, <1>2, <1>3, <1>4, <1>5 DEF RInv, Types, Path

\* In a flat file lies one item.
LEMMA FlatPaths ==
  ASSUME Flat, NEW i \in Ids, NEW j \in Ids, PathOf(i) = PathOf(j)
  PROVE  i = j
BY RequestStoreAssumption DEF Flat, PathOf

\* An item of which some is left to write is not in the file yet.
LEMMA ItemIncomplete ==
  ASSUME Flat, NEW x \in Items, NEW s \in Seq(Words), NEW r \in Seq(Words), s \o r = x
  PROVE  /\ s # MISSING
         /\ r # <<>> => s \notin Items
         /\ s \in Items => s = x
<1>1. x \in Seq(Words) /\ Len(x) = Len(s) + Len(r) /\ Len(s) \in Nat /\ Len(r) \in Nat
  BY ItemConstants, ConcatProperties, LenProperties
<1>2. SubSeq(x, 1, Len(s)) = s
  BY <1>1
<1>3. s \in Items => Len(s) = Len(x)
  <2>1. \A n \in 0 .. Len(x) : SubSeq(x, 1, n) \in Items => n = Len(x)
    BY ItemConstants
  <2>2. Len(s) \in 0 .. Len(x)
    BY <1>1
  <2> QED
    BY <1>2, <2>1, <2>2
<1>4. r # <<>> => Len(r) # 0
  BY EmptySeq
<1>5. Len(r) = 0 => s = x
  BY <1>1
<1> QED
  BY <1>1, <1>3, <1>4, <1>5, ItemConstants

\* The file of an item exists when the file of records does.
LEMMA RecordsExist ==
  ASSUME ~ Flat, NEW i \in Ids, NEW c \in [IdsIn(PathOf(i)) -> Stored]
  PROVE  c # MISSING /\ c # BROKEN
BY ItemConstants DEF Stored, IdsIn

\* A file that is being created is there, with nothing in it.
LEMMA EmptyFile ==
  ASSUME RInv, NEW t \in Threads, step[t] = "create"
  PROVE  /\ Saving(t) /\ ~ Flat /\ id[t] \in Ids /\ Path(t) = PathOf(id[t])
         /\ disk[Path(t)] = [k \in IdsIn(Path(t)) |-> MISSING]
         /\ disk[Path(t)] # MISSING /\ disk[Path(t)] # BROKEN
<1>1. pc[t] # "idle"
  BY DEF RInv, Linked
<1>2. /\ Saving(t) /\ ~ Flat /\ id[t] \in Ids /\ Path(t) = PathOf(id[t])
      /\ disk[Path(t)] = [k \in IdsIn(Path(t)) |-> MISSING]
  BY <1>1 DEF RInv, Linked, Progress, Path
<1>3. disk[Path(t)] \in [IdsIn(PathOf(id[t])) -> Stored]
  BY <1>2 DEF Stored
<1> QED
  BY <1>2, <1>3, RecordsExist

\* The request takes effect with its step in the DAO, or it does not.
LEMMA DaoTakesEffect ==
  ASSUME Types, NEW t \in Threads, step[t] \in {"dao", "read", "create", "temp"},
         NEW r, step' = [step EXCEPT ![t] = "done"], result' = [result EXCEPT ![t] = r],
         UNCHANGED call
  PROVE  /\ <<t, id[t], item[t]>> \in Calls
         /\ Calls' = Calls \ {<<t, id[t], item[t]>>}
         /\ Effects' = Effects \cup {<<t, id[t], item[t], r>>}
<1>1. t \in Pending
  BY DEF Pending
<1>2. /\ step' = [step EXCEPT ![t] = "done"]
      /\ \A u \in Threads \ {t} : result'[u] = result[u]
  BY DEF Types
<1>3. Decision(t)' = r
  BY DEF Types, Decision, Writing
<1> QED
  BY <1>1, <1>2, <1>3, TakesEffect

LEMMA DaoGoesOn ==
  ASSUME Types, NEW t \in Threads, NEW s \in {"dao", "read", "create", "temp"},
         step[t] \in {"dao", "read", "create", "temp"}, step' = [step EXCEPT ![t] = s],
         result' = result, UNCHANGED call
  PROVE  Calls' = Calls /\ Effects' = Effects
<1>1. Pending' = Pending /\ Decided' = Decided
  BY DEF Types, Pending, Decided
<1>2. \A u \in Decided : Decision(u)' = Decision(u)
  BY DEF Types, Decision, Writing, Decided, call
<1> QED
  BY <1>1, <1>2, NoEffect

\* The gets.
LEMMA GetMaps ==
  ASSUME LockConditions, RInv, [Next]_vars, NEW t \in Threads,
         GetMissing(t) \/ FlatMeasure(t) \/ FlatRead(t) \/ RecordOpen(t) \/ RecordRead(t)
  PROVE  Store!Next \/ UNCHANGED Store!vars
<1> USE DEF Goto, Finish
<1>0. ASSUME NEW s \in {"dao", "read"}, Dao(t, s), Getting(t), UNCHANGED disk,
             \A u \in Threads \ {t} : step'[u] = step[u], step'[t] # "write"
      PROVE  /\ Types /\ Progress(t) /\ UNCHANGED call /\ item[t] = NoItem /\ step[t] = s /\ id[t] \in Ids
             /\ PathOf(id[t]) = Path(t) /\ disk[Path(t)] \in ContentsOf(Path(t))
             /\ StoredAt(id[t]) = InFile(id[t]) /\ Contents' = Contents
  <2>1. \A path \in Paths \ {Path(t)} : disk'[path] = disk[path]
    BY <1>0
  <2>2. ASSUME NEW i \in Ids PROVE InFile(i)' = InFile(i)
    BY <1>0 DEF InFile
  <2>3. \A i \in Ids : StoredAt(i)' = StoredAt(i)
    BY <1>0, <2>1, <2>2, DaoStore
  <2> QED
    BY <1>0, <2>1, <2>3, DaoStore DEF Contents, Getting
<1>1. CASE GetMissing(t)
  <2>1. Dao(t, "dao") /\ Getting(t) /\ UNCHANGED disk /\ disk[Path(t)] = MISSING
        /\ step' = [step EXCEPT ![t] = "done"] /\ result' = [result EXCEPT ![t] = MISSING]
    BY <1>1 DEF GetMissing
  <2>2. (\A u \in Threads \ {t} : step'[u] = step[u]) /\ step'[t] # "write"
    BY <2>1 DEF RInv, Types
  <2>3. StoredAt(id[t]) = MISSING
    BY <1>0, <2>1, <2>2 DEF InFile
  <2> QED
    BY <1>0, <2>1, <2>2, <2>3, DaoTakesEffect, IsGet
<1>2. CASE FlatMeasure(t)
  <2>1. Dao(t, "dao") /\ Getting(t) /\ UNCHANGED <<disk, result>> /\ step' = [step EXCEPT ![t] = "read"]
    BY <1>2 DEF FlatMeasure
  <2>2. (\A u \in Threads \ {t} : step'[u] = step[u]) /\ step'[t] # "write"
    BY <2>1 DEF RInv, Types
  <2> QED
    BY <1>0, <2>1, <2>2, DaoGoesOn, Stutters
<1>3. CASE RecordOpen(t)
  <2>1. Dao(t, "dao") /\ Getting(t) /\ UNCHANGED <<disk, result>> /\ step' = [step EXCEPT ![t] = "read"]
    BY <1>3 DEF RecordOpen
  <2>2. (\A u \in Threads \ {t} : step'[u] = step[u]) /\ step'[t] # "write"
    BY <2>1 DEF RInv, Types
  <2> QED
    BY <1>0, <2>1, <2>2, DaoGoesOn, Stutters
<1>4. CASE FlatRead(t)
  <2> DEFINE content == disk[Path(t)]
             r == IF content \in Items THEN content ELSE GARBAGE
  <2>0. Dao(t, "read") /\ Flat /\ UNCHANGED disk /\ step[t] = "read"
    BY <1>4 DEF FlatRead, Dao
  <2>1. Getting(t) /\ content # MISSING /\ buf[t] = content
    BY <2>0 DEF RInv, Progress
  <2>2. content \in Seq(Words)
    BY <2>0, <2>1, InDao DEF ContentsOf
  <2>3. SubSeq(content, 1, Len(content)) = content /\ ~ (Len(content) < Len(content))
    BY <2>2
  <2>4. step' = [step EXCEPT ![t] = "done"] /\ result' = [result EXCEPT ![t] = r]
    BY <1>4, <2>1, <2>3 DEF FlatRead
  <2>5. (\A u \in Threads \ {t} : step'[u] = step[u]) /\ step'[t] # "write"
    BY <2>4 DEF RInv, Types
  <2>6. StoredAt(id[t]) \in {r, DAMAGED}
    BY <1>0, <2>0, <2>1, <2>2, <2>5, ItemConstants DEF InFile
  <2>7. r \in Items \cup {MISSING, GARBAGE}
    OBVIOUS
  <2> HIDE DEF r
  <2> QED
    BY <1>0, <2>0, <2>1, <2>4, <2>5, <2>6, <2>7, DaoTakesEffect, IsGet
<1>5. CASE RecordRead(t)
  <2>a. PICK r \in MayRead(buf[t], id[t]) : Finish(t, r)
    BY <1>5 DEF RecordRead
  <2>0. /\ Dao(t, "read") /\ ~ Flat /\ UNCHANGED disk /\ step[t] = "read"
        /\ step' = [step EXCEPT ![t] = "done"] /\ result' = [result EXCEPT ![t] = r]
    BY <1>5, <2>a DEF RecordRead, Dao
  <2>1. Getting(t) /\ disk[Path(t)] # MISSING /\ buf[t] = disk[Path(t)]
    BY <2>0 DEF RInv, Progress
  <2>2. (\A u \in Threads \ {t} : step'[u] = step[u]) /\ step'[t] # "write"
    BY <2>0 DEF RInv, Types
  <2>3. StoredAt(id[t]) \in {r, BROKEN}
    BY <1>0, <2>a, <2>0, <2>1, <2>2 DEF InFile, MayRead
  <2>4. r \in Items \cup {MISSING, GARBAGE}
    BY <1>0, <2>a, <2>0, <2>1, <2>2, RecordContents
  <2> QED
    BY <1>0, <2>0, <2>1, <2>2, <2>3, <2>4, DaoTakesEffect, IsGet
<1> QED
  BY <1>1, <1>2, <1>3, <1>4, <1>5

\* The saves that do not touch the file: it fails, or it is written elsewhere.
LEMMA SaveAsideMaps ==
  ASSUME LockConditions, RInv, [Next]_vars, NEW t \in Threads,
         SaveFails(t) \/ RecordTempFails(t) \/ RecordCopy(t)
  PROVE  Store!Next \/ UNCHANGED Store!vars
<1> USE DEF Goto, Finish
<1>0. ASSUME NEW s \in {"dao", "temp"}, Dao(t, s), Saving(t), UNCHANGED disk,
             \A u \in Threads \ {t} : step'[u] = step[u], step'[t] # "write"
      PROVE  /\ Types /\ UNCHANGED call /\ item[t] \in Items /\ step[t] = s /\ id[t] \in Ids
             /\ Contents' = Contents
  <2>1. \A path \in Paths \ {Path(t)} : disk'[path] = disk[path]
    BY <1>0
  <2>2. ASSUME NEW i \in Ids PROVE InFile(i)' = InFile(i)
    BY <1>0 DEF InFile
  <2>3. \A i \in Ids : StoredAt(i)' = StoredAt(i)
    BY <1>0, <2>1, <2>2, DaoStore
  <2> QED
    BY <1>0, <2>1, <2>3, DaoStore DEF Contents, Saving
<1>1. CASE SaveFails(t) \/ RecordTempFails(t)
  <2>1. PICK s \in {"dao", "temp"} : Dao(t, s) /\ Saving(t)
    BY <1>1 DEF SaveFails, RecordTempFails, Dao, RInv, Progress
  <2>2. /\ step' = [step EXCEPT ![t] = "done"] /\ result' = [result EXCEPT ![t] = FAILED]
        /\ UNCHANGED disk
    BY <1>1 DEF SaveFails, RecordTempFails
  <2>3. (\A u \in Threads \ {t} : step'[u] = step[u]) /\ step'[t] # "write"
    BY <2>2 DEF RInv, Types
  <2> QED
    BY <1>0, <2>1, <2>2, <2>3, DaoTakesEffect, IsSaveFails
<1>2. CASE RecordCopy(t)
  <2>1. /\ Dao(t, "dao") /\ Saving(t) /\ UNCHANGED <<disk, result>>
        /\ step' = [step EXCEPT ![t] = "temp"]
    BY <1>2 DEF RecordCopy
  <2>2. (\A u \in Threads \ {t} : step'[u] = step[u]) /\ step'[t] # "write"
    BY <2>1 DEF RInv, Types
  <2> QED
    BY <1>0, <2>1, <2>2, DaoGoesOn, Stutters
<1> QED
  BY <1>1, <1>2

\* The save of a flat file: from the truncation on the store has the new item.
LEMMA SaveFlatMaps ==
  ASSUME LockConditions, RInv, [Next]_vars, NEW t \in Threads,
         NEW i, NEW x, i = id[t], x = item[t],
         FlatTruncate(t) \/ FlatWrite(t) \/ FlatClose(t) \/ FlatWriteFails(t)
  PROVE  Store!Next \/ UNCHANGED Store!vars
<1> USE DEF Goto, Finish
<1>0. ASSUME NEW s \in {"dao", "write"}, Dao(t, s), Saving(t), Flat,
             \A u \in Threads \ {t} : step'[u] = step[u],
             \A path \in Paths \ {Path(t)} : disk'[path] = disk[path]
      PROVE  /\ Types /\ Types' /\ Progress(t) /\ Progress(t)' /\ UNCHANGED call
             /\ x \in Items /\ step[t] = s /\ i \in Ids /\ Path(t) \in Paths /\ Path(t)' = Path(t)
             /\ PathOf(i) = Path(t)
             /\ StoredAt(i)  = IF s = "write" THEN x ELSE InFile(i)
             /\ StoredAt(i)' = IF step'[t] = "write" THEN x ELSE InFile(i)'
             /\ \A k \in Ids \ {i} : StoredAt(k)' = StoredAt(k)
  <2>1. /\ Types /\ Types' /\ Progress(t) /\ Progress(t)' /\ UNCHANGED call
        /\ step[t] = s /\ i \in Ids /\ x \in Items /\ PathOf(i) = Path(t)
    BY <1>0, DaoStore DEF Saving
  <2>2. Path(t) \in Paths /\ Path(t)' = Path(t)
    BY <2>1 DEF Paths, Path, call
  <2>3. \A k \in Ids \ {i} : PathOf(k) # Path(t)
    BY <1>0, <2>1, FlatPaths
  <2> QED
    BY <1>0, <2>1, <2>2, <2>3, DaoStore
<1>1. CASE FlatTruncate(t)
  <2>1. /\ Dao(t, "dao") /\ Saving(t) /\ Flat /\ UNCHANGED result
        /\ step' = [step EXCEPT ![t] = "write"] /\ disk' = [disk EXCEPT ![Path(t)] = <<>>]
    BY <1>1 DEF FlatTruncate
  <2>2. /\ \A u \in Threads \ {t} : step'[u] = step[u]
        /\ \A path \in Paths \ {Path(t)} : disk'[path] = disk[path]
        /\ step'[t] = "write"
    BY <2>1 DEF RInv, Types, Dao
  <2>0. StoredAt(i) # BROKEN
    <3>1. disk[Path(t)] \in {MISSING} \cup Seq(Words)
      BY <2>1, InDao DEF ContentsOf
    <3>2. InFile(i) # BROKEN
      BY <1>0, <2>1, <2>2, <3>1, ItemConstants DEF InFile
    <3> QED
      BY <1>0, <2>1, <2>2, <3>2
  <2>3. Contents' = [Contents EXCEPT ![i] = IF @ = BROKEN THEN BROKEN ELSE x]
    BY <1>0, <2>0, <2>1, <2>2 DEF Contents
  <2>4. t \in Pending /\ Decision(t)' = x
    BY <1>0, <2>1, <2>2 DEF Pending, Decision, Writing, call
  <2>5. /\ <<t, i, x>> \in Calls /\ Calls' = Calls \ {<<t, i, x>>}
        /\ Effects' = Effects \cup {<<t, i, x, x>>}
    BY <1>0, <2>1, <2>2, <2>4, TakesEffect
  <2> QED
    BY <1>0, <2>1, <2>2, <2>3, <2>5, IsSave
<1>2. CASE FlatWrite(t)
  <2>1. /\ Dao(t, "write") /\ UNCHANGED <<step, result>> /\ step[t] = "write"
        /\ disk' = [disk EXCEPT ![Path(t)] = Append(@, Head(buf[t]))]
    BY <1>2 DEF FlatWrite, Dao
  <2>2. Saving(t) /\ Flat
    BY <2>1 DEF RInv, Progress
  <2>3. \A path \in Paths \ {Path(t)} : disk'[path] = disk[path]
    BY <2>1 DEF RInv, Types
  <2>4. Contents' = Contents
    BY <1>0, <2>1, <2>2, <2>3 DEF Contents
  <2>5. Calls' = Calls /\ Effects' = Effects
    BY <1>0, <2>1, <2>2, <2>3, NoEffect DEF Pending, Decided, Decision, Writing, call
  <2> QED
    BY <2>4, <2>5, Stutters
<1>3. CASE FlatClose(t)
  <2>1. /\ Dao(t, "write") /\ buf[t] = <<>> /\ UNCHANGED disk /\ step[t] = "write"
        /\ step' = [step EXCEPT ![t] = "done"] /\ result' = [result EXCEPT ![t] = x]
    BY <1>3 DEF FlatClose, Dao
  <2>2. Saving(t) /\ Flat /\ disk[Path(t)] \in Seq(Words) /\ disk[Path(t)] \o <<>> = x
    BY <2>1 DEF RInv, Progress
  <2>3. disk[Path(t)] = x
    BY <2>2, ConcatEmptySeq
  <2>4. /\ \A u \in Threads \ {t} : step'[u] = step[u]
        /\ \A path \in Paths \ {Path(t)} : disk'[path] = disk[path]
        /\ step'[t] = "done" /\ result'[t] = x
        /\ \A u \in Threads \ {t} : result'[u] = result[u]
    BY <2>1 DEF RInv, Types
  <2>5. InFile(i)' = x
    BY <1>0, <2>1, <2>2, <2>3, <2>4, ItemConstants DEF InFile, call
  <2>6. Contents' = Contents
    BY <1>0, <2>1, <2>2, <2>4, <2>5 DEF Contents
  <2>7. Pending' = Pending /\ Decided' = Decided
    BY <2>1, <2>4 DEF Pending, Decided
  <2>8. \A u \in Decided : Decision(u)' = Decision(u)
    BY <1>0, <2>1, <2>2, <2>4 DEF Decided, Decision, Writing, call
  <2> QED
    BY <1>0, <2>1, <2>2, <2>4, <2>6, <2>7, <2>8, NoEffect, Stutters
<1>4. CASE FlatWriteFails(t)
  <2>1. /\ Dao(t, "write") /\ buf[t] # <<>> /\ UNCHANGED disk /\ step[t] = "write"
        /\ step' = [step EXCEPT ![t] = "done"] /\ result' = [result EXCEPT ![t] = FAILED]
    BY <1>4 DEF FlatWriteFails, Dao
  <2>2. /\ Saving(t) /\ Flat /\ disk[Path(t)] \in Seq(Words) /\ buf[t] \in Seq(Words)
        /\ disk[Path(t)] \o buf[t] = x
    BY <2>1 DEF RInv, Progress
  <2>3. /\ \A u \in Threads \ {t} : step'[u] = step[u]
        /\ \A path \in Paths \ {Path(t)} : disk'[path] = disk[path]
        /\ step'[t] = "done" /\ result'[t] = FAILED
        /\ \A u \in Threads \ {t} : result'[u] = result[u]
    BY <2>1 DEF RInv, Types
  <2>4. x \in Items /\ t \in Decided /\ Decision(t) = x /\ Decision(t)' = FAILED
    BY <1>0, <2>1, <2>2, <2>3 DEF Decided, Decision, Writing
  <2>5. disk[Path(t)] # MISSING /\ disk[Path(t)] \notin Items
    BY <2>1, <2>2, <2>4, ItemIncomplete
  <2>6. InFile(i)' = DAMAGED
    BY <1>0, <2>1, <2>2, <2>3, <2>5, ItemConstants DEF InFile, call
  <2>7. Contents' = [Contents EXCEPT ![i] = DAMAGED] /\ StoredAt(i) = x
    BY <1>0, <2>1, <2>2, <2>3, <2>6 DEF Contents
  <2>8. Pending' = Pending /\ Decided' = Decided /\ Decided \subseteq Threads
    BY <2>1, <2>3 DEF Pending, Decided
  <2>9. \A u \in Decided \ {t} : Decision(u)' = Decision(u)
    BY <1>0, <2>1, <2>2, <2>3 DEF Decided, Decision, Writing, call
  <2>10. Calls' = Calls
    BY <1>0, <2>1, <2>2, <2>3, <2>8 DEF Calls, call
  <2>11. /\ <<t, i, x, x>> \in Effects
         /\ Effects' = (Effects \ {<<t, i, x, x>>}) \cup {<<t, i, x, FAILED>>}
    BY <1>0, <2>1, <2>2, <2>3, <2>4, <2>8, <2>9 DEF Effects, call
  <2> QED
    BY <1>0, <2>1, <2>2, <2>3, <2>4, <2>7, <2>10, <2>11, IsWriteFails
<1> QED
  BY <1>1, <1>2, <1>3, <1>4

\* The save of a file of records: the store has the new item when the file has.
LEMMA SaveRecordMaps ==
  ASSUME LockConditions, RInv, [Next]_vars, NEW t \in Threads,
         NEW i, NEW x, i = id[t], x = item[t],
         RecordCreate(t) \/ RecordCreated(t) \/ RecordCreateFails(t) \/ RecordRename(t)
  PROVE  Store!Next \/ UNCHANGED Store!vars
<1> USE DEF Goto, Finish
<1>0. ASSUME NEW s \in {"dao", "create", "temp"}, Dao(t, s), Saving(t), ~ Flat,
             NEW c \in [IdsIn(Path(t)) -> Stored] \cup {BROKEN}, NEW r \in {"create", "done"},
             step' = [step EXCEPT ![t] = r], disk' = [disk EXCEPT ![Path(t)] = c]
      PROVE  /\ Types /\ UNCHANGED call /\ x \in Items /\ step[t] = s /\ i \in Ids /\ PathOf(i) = Path(t)
             /\ \A k \in Ids : PathOf(k) = Path(t) =>
                  /\ StoredAt(k) = InFile(k)
                  /\ StoredAt(k)' = IF c = BROKEN THEN BROKEN ELSE c[k]
             /\ \A k \in Ids : PathOf(k) # Path(t) => StoredAt(k)' = StoredAt(k)
  <2>1. Types /\ UNCHANGED call /\ step[t] = s /\ i \in Ids /\ PathOf(i) = Path(t) /\ Path(t) \in Paths
    BY <1>0, InDao DEF RInv, Path, Paths, Linked
  <2>2. /\ \A u \in Threads \ {t} : step'[u] = step[u]
        /\ \A path \in Paths \ {Path(t)} : disk'[path] = disk[path]
        /\ step'[t] = r /\ disk'[Path(t)] = c
    BY <1>0, <2>1 DEF Types
  <2>3. x \in Items
    BY <1>0, <2>2, DaoStore DEF Saving
  <2>4. c # MISSING
    BY <1>0, <2>1, RecordsExist, ItemConstants
  <2>5. ASSUME NEW k \in Ids, PathOf(k) = Path(t)
        PROVE  StoredAt(k) = InFile(k) /\ StoredAt(k)' = IF c = BROKEN THEN BROKEN ELSE c[k]
    <3>1. StoredAt(k) = InFile(k) /\ StoredAt(k)' = InFile(k)'
      BY <1>0, <2>2, <2>5, DaoStore
    <3>2. InFile(k)' = IF c = BROKEN THEN BROKEN ELSE c[k]
      BY <1>0, <2>2, <2>4, <2>5 DEF InFile
    <3> QED
      BY <3>1, <3>2
  <2> QED
    BY <1>0, <2>1, <2>2, <2>3, <2>5, DaoStore
<1>1. CASE RecordCreate(t)
  <2> DEFINE c == [k \in IdsIn(Path(t)) |-> MISSING]
  <2>1. /\ Dao(t, "dao") /\ Saving(t) /\ ~ Flat /\ disk[Path(t)] = MISSING /\ UNCHANGED result
        /\ step' = [step EXCEPT ![t] = "create"] /\ disk' = [disk EXCEPT ![Path(t)] = c]
    BY <1>1 DEF RecordCreate
  <2>2. c \in [IdsIn(Path(t)) -> Stored] /\ c # BROKEN
    <3>1. c \in [IdsIn(Path(t)) -> Stored]
      BY DEF Stored
    <3>2. id[t] \in Ids /\ Path(t) = PathOf(id[t])
      BY <2>1, InDao DEF Path
    <3> QED
      BY <2>1, <3>1, <3>2, RecordsExist
  <2>3. \A k \in Ids : PathOf(k) = Path(t) => InFile(k) = MISSING /\ c[k] = MISSING
    BY <2>1 DEF InFile, IdsIn
  <2> HIDE DEF c
  <2>4. Types /\ UNCHANGED call /\ step[t] = "dao" /\ \A k \in Ids : StoredAt(k)' = StoredAt(k)
    BY <1>0, <2>1, <2>2, <2>3
  <2> QED
    BY <2>1, <2>4, DaoGoesOn, Stutters DEF Contents
<1>2. CASE RecordCreated(t)
  <2> DEFINE c == Records(Path(t), i, x)
  <2>1. /\ Dao(t, "create") /\ step[t] = "create"
        /\ step' = [step EXCEPT ![t] = "done"] /\ disk' = [disk EXCEPT ![Path(t)] = c]
        /\ result' = [result EXCEPT ![t] = x]
    BY <1>2 DEF RecordCreated, Dao
  <2>2. Saving(t) /\ ~ Flat /\ disk[Path(t)] = [k \in IdsIn(Path(t)) |-> MISSING] /\ x \in Items
    BY <2>1 DEF RInv, Progress, Types, Saving
  <2>3. c \in [IdsIn(Path(t)) -> Stored] /\ c # BROKEN
    <3>1. c \in [IdsIn(Path(t)) -> Stored]
      BY <2>2 DEF Stored, Records
    <3>2. id[t] \in Ids /\ Path(t) = PathOf(id[t])
      BY <2>1, InDao DEF Path
    <3> QED
      BY <2>2, <3>1, <3>2, RecordsExist
  <2>4. \A k \in Ids : PathOf(k) = Path(t) => InFile(k) = MISSING /\ c[k] = IF k = i THEN x ELSE MISSING
    <3>1. disk[Path(t)] # BROKEN
      BY <2>1, <2>2, EmptyFile
    <3> QED
      BY <2>2, <3>1 DEF InFile, IdsIn, Records
  <2> HIDE DEF c
  <2>5. /\ Types /\ UNCHANGED call /\ step[t] = "create" /\ i \in Ids /\ StoredAt(i) = MISSING
        /\ \A k \in Ids : StoredAt(k)' = IF k = i THEN x ELSE StoredAt(k)
    <3>1. /\ Types /\ UNCHANGED call /\ step[t] = "create" /\ i \in Ids /\ PathOf(i) = Path(t)
          /\ \A k \in Ids : PathOf(k) = Path(t) => StoredAt(k) = InFile(k) /\ StoredAt(k)' = c[k]
          /\ \A k \in Ids : PathOf(k) # Path(t) => StoredAt(k)' = StoredAt(k)
      BY <1>0, <2>1, <2>2, <2>3
    <3>2. ASSUME NEW k \in Ids PROVE StoredAt(k)' = IF k = i THEN x ELSE StoredAt(k)
      BY <3>1, <2>4
    <3> QED
      BY <3>1, <3>2, <2>4
  <2>6. Contents' = [Contents EXCEPT ![i] = IF @ = BROKEN THEN BROKEN ELSE x]
    BY <2>5, ItemConstants DEF Contents
  <2> QED
    BY <2>1, <2>2, <2>5, <2>6, DaoTakesEffect, IsSave
<1>3. CASE RecordRename(t)
  <2> DEFINE c == buf[t]
             before == disk[Path(t)]
  <2>1. /\ Dao(t, "temp") /\ step[t] = "temp"
        /\ step' = [step EXCEPT ![t] = "done"] /\ disk' = [disk EXCEPT ![Path(t)] = c]
        /\ result' = [result EXCEPT ![t] = x]
    BY <1>3 DEF RecordRename, Dao
  <2>2. /\ Saving(t) /\ ~ Flat /\ before # MISSING /\ x \in Items /\ before \in ContentsOf(Path(t))
        /\ c = CopyWith(before, i, x)
    BY <2>1, InDao DEF RInv, Progress, Types, Saving
  <2>3. before \in [IdsIn(Path(t)) -> Stored] \cup {BROKEN}
    BY <2>2 DEF ContentsOf
  <2>4. /\ c \in [IdsIn(Path(t)) -> Stored] \cup {BROKEN}
        /\ c = BROKEN <=> before = BROKEN
    <3>1. CASE before = BROKEN
      BY <2>2, <3>1 DEF CopyWith
    <3>2. CASE before # BROKEN
      <4>1. c \in [IdsIn(Path(t)) -> Stored]
        BY <2>2, <2>3, <3>2 DEF Stored, CopyWith
      <4>2. id[t] \in Ids /\ Path(t) = PathOf(id[t])
        BY <2>1, InDao DEF Path
      <4> QED
        BY <2>2, <3>2, <4>1, <4>2, RecordsExist
    <3> QED
      BY <3>1, <3>2
  <2>5. \A k \in Ids : PathOf(k) = Path(t) =>
          IF before = BROKEN THEN InFile(k) = BROKEN
          ELSE InFile(k) = before[k] /\ before[k] # BROKEN /\ c[k] = IF k = i THEN x ELSE before[k]
    BY <2>2, <2>3, ItemConstants DEF InFile, IdsIn, CopyWith, Stored
  <2> HIDE DEF c, before
  <2>6. /\ Types /\ UNCHANGED call /\ step[t] = "temp" /\ i \in Ids
        /\ \A k \in Ids : StoredAt(k)' = IF k = i /\ StoredAt(i) # BROKEN THEN x ELSE StoredAt(k)
    <3>1. /\ Types /\ UNCHANGED call /\ step[t] = "temp" /\ i \in Ids /\ PathOf(i) = Path(t)
          /\ \A k \in Ids : PathOf(k) = Path(t) =>
               /\ StoredAt(k) = InFile(k)
               /\ StoredAt(k)' = IF c = BROKEN THEN BROKEN ELSE c[k]
          /\ \A k \in Ids : PathOf(k) # Path(t) => StoredAt(k)' = StoredAt(k)
      BY <1>0, <2>1, <2>2, <2>4
    <3>2. ASSUME NEW k \in Ids
          PROVE  StoredAt(k)' = IF k = i /\ StoredAt(i) # BROKEN THEN x ELSE StoredAt(k)
      BY <3>1, <2>4, <2>5
    <3> QED
      BY <3>1, <3>2
  <2>7. Contents' = [Contents EXCEPT ![i] = IF @ = BROKEN THEN BROKEN ELSE x]
    BY <2>6 DEF Contents
  <2> QED
    BY <2>1, <2>2, <2>6, <2>7, DaoTakesEffect, IsSave
<1>4. CASE RecordCreateFails(t)
  <2> DEFINE before == disk[Path(t)]
  <2>1. /\ Dao(t, "create") /\ step[t] = "create"
        /\ step' = [step EXCEPT ![t] = "done"] /\ result' = [result EXCEPT ![t] = FAILED]
    BY <1>4 DEF RecordCreateFails, Dao
  <2>2. Saving(t) /\ ~ Flat /\ before = [k \in IdsIn(Path(t)) |-> MISSING] /\ before # BROKEN
    BY <2>1, EmptyFile DEF RInv, Progress, Saving
  <2>3. before \in [IdsIn(Path(t)) -> Stored]
    BY <2>2 DEF Stored
  <2>4. \A k \in Ids : PathOf(k) = Path(t) => InFile(k) = MISSING /\ before[k] = MISSING
    BY <2>2 DEF InFile, IdsIn
  <2> HIDE DEF before
  <2>5. PICK left \in {before, BROKEN} : disk' = [disk EXCEPT ![Path(t)] = left]
    BY <1>4 DEF RecordCreateFails, before
  <2>6. /\ Types /\ UNCHANGED call /\ x \in Items /\ step[t] = "create" /\ i \in Ids /\ PathOf(i) = Path(t)
        /\ \A k \in Ids : PathOf(k) = Path(t) =>
             StoredAt(k) = InFile(k) /\ StoredAt(k)' = IF left = BROKEN THEN BROKEN ELSE left[k]
        /\ \A k \in Ids : PathOf(k) # Path(t) => StoredAt(k)' = StoredAt(k)
    BY <1>0, <2>1, <2>2, <2>3, <2>5
  <2>7. /\ <<t, i, x>> \in Calls /\ Calls' = Calls \ {<<t, i, x>>}
        /\ Effects' = Effects \cup {<<t, i, x, FAILED>>}
    BY <2>1, <2>6, DaoTakesEffect
  <2>8. CASE left = BROKEN
    BY <2>2, <2>4, <2>6, <2>7, <2>8, IsSaveBreaks
  <2>9. CASE left = before
    <3>1. \A k \in Ids : StoredAt(k)' = StoredAt(k)
      BY <2>2, <2>4, <2>6, <2>9
    <3> QED
      BY <2>6, <2>7, <3>1, IsSaveFails DEF Contents
  <2> QED
    BY <2>5, <2>8, <2>9
<1> QED
  BY <1>1, <1>2, <1>3, <1>4

\* The steps outside the DAO.
LEMMA OutsideMaps ==
  ASSUME LockConditions, RInv, [Next]_vars, NEW t \in Threads,
         Enter(t) \/ Release(t) \/ Answer(t) \/ \E i \in Ids, x \in Items \cup {NoItem} : Receive(t, i, x)
  PROVE  Store!Next \/ UNCHANGED Store!vars
<1> USE DEF Goto
<1>1. CASE Enter(t)
  <2>1. UNCHANGED <<disk, step, id, item, result>>
    BY <1>1 DEF Enter, call
  <2>2. Contents' = Contents
    BY <2>1, StoreSame DEF Contents, Writing
  <2>3. Calls' = Calls /\ Effects' = Effects
    BY <2>1 DEF Calls, Effects, Pending, Decided, Decision, Writing
  <2> QED
    BY <2>2, <2>3, Stutters
<1>2. CASE Release(t)
  <2>1. UNCHANGED <<disk, id, item, result>> /\ step[t] = "done" /\ step' = [step EXCEPT ![t] = "answer"]
    BY <1>2 DEF Release, call
  <2>2. \A u \in Threads : step'[u] = IF u = t THEN "answer" ELSE step[u]
    BY <2>1 DEF RInv, Types
  <2>3. Contents' = Contents
    BY <2>1, <2>2, StoreSame DEF Contents, Writing
  <2>4. Pending' = Pending /\ Decided' = Decided
    BY <2>1, <2>2 DEF Pending, Decided
  <2>5. \A u \in Decided : Decision(u)' = Decision(u)
    BY <2>1, <2>2 DEF Decided, Decision, Writing
  <2> QED
    BY <2>1, <2>3, <2>4, <2>5, NoEffect, Stutters DEF call
<1>3. CASE Answer(t)
  <2> DEFINE e == <<t, id[t], item[t], Decision(t)>>
  <2>1. UNCHANGED disk /\ step[t] = "answer" /\ t \in Decided
    BY <1>3 DEF Answer, Decided
  <2>2. \A u \in Threads \ {t} : step'[u] = step[u] /\ id'[u] = id[u] /\ item'[u] = item[u] /\ result'[u] = result[u]
    BY <1>3 DEF Answer, RInv, Types
  <2>3. step'[t] = "none"
    BY <1>3 DEF Answer, RInv, Types
  <2>4. Contents' = Contents
    BY <2>1, <2>2, <2>3, StoreSame DEF Contents, Writing
  <2>5. /\ Pending' = Pending /\ Decided' = Decided \ {t}
        /\ Pending \subseteq Threads \ {t} /\ Decided \subseteq Threads
    BY <2>1, <2>2, <2>3 DEF Pending, Decided
  <2>6. \A u \in Decided \ {t} : Decision(u)' = Decision(u)
    BY <2>2, <2>5 DEF Decision, Writing
  <2>7. Calls' = Calls
    BY <2>2, <2>5 DEF Calls
  <2>8. e \in Effects /\ Effects' = Effects \ {e}
    BY <2>1, <2>2, <2>5, <2>6 DEF Effects
  <2> HIDE DEF e
  <2> QED
    BY <2>4, <2>7, <2>8, IsAnswer
<1>4. ASSUME NEW i \in Ids, NEW x \in Items \cup {NoItem}, Receive(t, i, x) PROVE Store!Next
  <2>1. UNCHANGED <<disk, result>> /\ step[t] = "none"
    BY <1>4 DEF Receive
  <2>2. \A u \in Threads \ {t} : step'[u] = step[u] /\ id'[u] = id[u] /\ item'[u] = item[u] /\ result'[u] = result[u]
    BY <1>4 DEF Receive, RInv, Types
  <2>3. step'[t] = "dao" /\ id'[t] = i /\ item'[t] = x
    BY <1>4 DEF Receive, RInv, Types
  <2>4. Contents' = Contents
    BY <2>1, <2>2, <2>3, StoreSame DEF Contents, Writing
  <2>5. /\ Pending' = Pending \cup {t} /\ Decided' = Decided
        /\ Pending \subseteq Threads \ {t} /\ Decided \subseteq Threads \ {t}
    BY <2>1, <2>2, <2>3 DEF Pending, Decided
  <2>6. \A u \in Decided : Decision(u)' = Decision(u)
    BY <2>2, <2>5 DEF Decision, Writing
  <2>7. Calls' = Calls \cup {<<t, i, x>>}
    BY <2>2, <2>3, <2>5 DEF Calls
  <2>8. Effects' = Effects
    BY <2>2, <2>5, <2>6 DEF Effects
  <2>9. \A c \in Calls \cup Effects : c[1] # t
    BY <2>5 DEF Calls, Effects
  <2> QED
    BY <2>4, <2>7, <2>8, <2>9, IsCall
<1> QED
  BY <1>1, <1>2, <1>3, <1>4

\* A kill: what lies in the files stays, and the items that were being written are
\* damaged, unless all of the item was in the file.  A file of records that was being
\* created may be broken.
LEMMA CrashMaps ==
  ASSUME LockConditions, RInv, [Next]_vars, Crash
  PROVE  Store!Next
<1>0. PICK paths \in SUBSET {Path(t) : t \in {u \in Threads : step[u] = "create"}} :
        disk' = [path \in DOMAIN disk |-> IF path \in paths THEN BROKEN ELSE disk[path]]
  BY DEF Crash
<1>1. \A u \in Threads : step'[u] = "none"
  BY DEF Crash
<1>2. Calls' = {} /\ Effects' = {}
  BY <1>1 DEF Calls, Effects, Pending, Decided
<1> DEFINE broken == {i \in Ids : /\ PathOf(i) \in paths
                                  /\ \E t \in Threads : step[t] = "create" /\ id[t] = i}
<1>c. ASSUME NEW i \in Ids
      PROVE  PathOf(i) \in paths <=> \E k \in broken : PathOf(k) = PathOf(i)
  <2>1. ASSUME PathOf(i) \in paths PROVE \E k \in broken : PathOf(k) = PathOf(i)
    <3>1. PICK t \in Threads : step[t] = "create" /\ Path(t) = PathOf(i)
      BY <2>1
    <3>2. id[t] \in Ids /\ PathOf(id[t]) = PathOf(i)
      BY <3>1, EmptyFile
    <3> QED
      BY <2>1, <3>1, <3>2
  <2> QED
    BY <2>1
<1>d. ASSUME NEW i \in Ids, PathOf(i) \in paths
      PROVE  /\ ~ Flat /\ StoredAt(i) = MISSING
             /\ \E k \in broken : PathOf(k) = PathOf(i)
  <2>1. PICK t \in Threads : step[t] = "create" /\ Path(t) = PathOf(i)
    BY <1>d, <1>0
  <2>2. ~ Flat /\ disk[PathOf(i)] = [k \in IdsIn(PathOf(i)) |-> MISSING] /\ disk[PathOf(i)] # BROKEN
    BY <2>1, EmptyFile
  <2>3. pc[t] = "hold" /\ ~ Writing(t)
    BY <2>1 DEF RInv, Linked, Writing, Lock!IInv, Lock!TypeOK, Lock!NoBare
  <2>4. StoredAt(i) = InFile(i)
    BY <2>1, <2>3, StoredLocked
  <2> QED
    BY <1>c, <1>d, <2>2, <2>4 DEF InFile, IdsIn
<1>e. /\ broken \in SUBSET Ids
      /\ broken # {} => ~ Flat
      /\ \A i \in broken : /\ \E t \in Threads, x \in Items : <<t, i, x>> \in Calls
                           /\ \A k \in Ids : PathOf(k) = PathOf(i) => StoredAt(k) = MISSING
  <2>1. ASSUME NEW i \in broken PROVE \E t \in Threads, x \in Items : <<t, i, x>> \in Calls
    <3>1. PICK t \in Threads : step[t] = "create" /\ id[t] = i
      OBVIOUS
    <3>2. t \in Pending /\ item[t] \in Items
      BY <3>1 DEF Pending, RInv, Types, Progress, Saving
    <3> QED
      BY <3>1, <3>2 DEF Calls
  <2> QED
    BY <2>1, <1>d
<1>3. ASSUME NEW i \in Ids PROVE InFile(i)' = IF PathOf(i) \in paths THEN BROKEN ELSE InFile(i)
  BY <1>0 DEF InFile, RInv, Types, Paths
<1>a. LockConditions' /\ RInv'
  BY NextRInv DEF LockConditions, Lock!NoSentinelId, Lock!EnoughEntries
<1>b. (\A i \in Ids :
         /\ \A u \in Threads : Writing(u) /\ Path(u) = PathOf(i) => StoredAt(i) = item[u]
         /\ (\A u \in Threads : Writing(u) => Path(u) # PathOf(i)) => StoredAt(i) = InFile(i))'
  BY <1>a, StoredIs, PTL
<1>4. ASSUME NEW i \in Ids
      PROVE  StoredAt(i)' = IF PathOf(i) \in paths THEN BROKEN ELSE InFile(i)
  <2>1. \A u \in Threads : ~ Writing(u)'
    BY <1>1 DEF Writing
  <2> QED
    BY <1>3, <1>b, <2>1
<1> DEFINE damaged == {i \in Ids : PathOf(i) \notin paths /\ StoredAt(i)' # StoredAt(i)}
<1>5. ASSUME NEW i \in Ids, PathOf(i) \notin paths, StoredAt(i)' # StoredAt(i)
      PROVE  /\ StoredAt(i)' = DAMAGED
             /\ \E t \in Threads, x \in Items : <<t, i, x, x>> \in Effects /\ StoredAt(i) = x
  <2>1. PICK t \in Threads : Writing(t) /\ Path(t) = PathOf(i)
    BY <1>4, <1>5, StoredIs
  <2>2. /\ Flat /\ disk[Path(t)] \in Seq(Words) /\ buf[t] \in Seq(Words)
        /\ disk[Path(t)] \o buf[t] = item[t] /\ item[t] \in Items /\ id[t] \in Ids
    BY <2>1 DEF RInv, Progress, Linked, Types, Writing, Saving
  <2>3. id[t] = i /\ StoredAt(i) = item[t]
    BY <2>1, <2>2, FlatPaths, StoredIs DEF Path
  <2>4. disk[Path(t)] # MISSING /\ (disk[Path(t)] \in Items => disk[Path(t)] = item[t])
    BY <2>2, ItemIncomplete
  <2>5. StoredAt(i)' = DAMAGED
    BY <1>4, <1>5, <2>1, <2>2, <2>3, <2>4, ItemConstants DEF InFile
  <2>6. <<t, i, item[t], item[t]>> \in Effects
    BY <2>1, <2>3 DEF Effects, Decided, Decision, Writing
  <2> QED
    BY <2>2, <2>3, <2>5, <2>6
<1>6. /\ damaged \in SUBSET Ids
      /\ \A i \in damaged : \E t \in Threads, x \in Items : <<t, i, x, x>> \in Effects /\ StoredAt(i) = x
  BY <1>5
<1>7. ASSUME NEW i \in Ids
      PROVE  StoredAt(i)' = IF \E k \in broken : PathOf(k) = PathOf(i) THEN BROKEN
                            ELSE IF i \in damaged THEN DAMAGED ELSE StoredAt(i)
  BY <1>4, <1>5, <1>c
<1> HIDE DEF damaged, broken
<1> QED
  BY <1>2, <1>6, <1>7, <1>e, IsCrash

-----------------------------------------------------------------------------
LEMMA InitMaps == ASSUME Init PROVE Store!Init
<1>1. \A t \in Threads : step[t] = "none"
  BY DEF Init
<1>2. Pending = {} /\ Decided = {}
  BY <1>1 DEF Pending, Decided
<1>3. ASSUME NEW i \in Ids PROVE StoredAt(i) = MISSING
  <2>1. disk[PathOf(i)] = MISSING
    BY DEF Init
  <2>2. {t \in Threads : Writing(t) /\ Path(t) = PathOf(i)} = {}
    BY <1>1 DEF Writing
  <2> QED
    BY <2>1, <2>2 DEF StoredAt
<1> QED
  BY <1>2, <1>3 DEF Store!Init

LEMMA NextMaps ==
  ASSUME LockConditions, RInv, [Next]_vars PROVE [Store!Next]_(Store!vars)
<1>1. CASE UNCHANGED vars
  <2>1. UNCHANGED <<disk, step, id, item, result>>
    BY <1>1 DEF vars, call
  <2>2. Contents' = Contents
    BY <2>1, StoreSame DEF Contents, Writing
  <2>3. Calls' = Calls /\ Effects' = Effects
    BY <2>1 DEF Calls, Effects, Pending, Decided, Decision, Writing
  <2> QED
    BY <2>2, <2>3, Stutters
<1>2. ASSUME NEW t \in Threads,
             Enter(t) \/ \E i \in Ids, x \in Items \cup {NoItem} : Receive(t, i, x)
      PROVE  Store!Next \/ UNCHANGED Store!vars
  BY <1>2, OutsideMaps
<1>3. ASSUME NEW t \in Threads, Work(t) PROVE Store!Next \/ UNCHANGED Store!vars
  BY <1>3, GetMaps, SaveAsideMaps, SaveFlatMaps, SaveRecordMaps, OutsideMaps DEF Work
<1>4. CASE Crash
  BY <1>4, CrashMaps
<1> QED
  BY <1>1, <1>2, <1>3, <1>4 DEF Next

\* Every get and every save takes effect at one moment between its arrival and its
\* answer, for any number of threads and ids, any items of which none is the beginning
\* of another, any number of items per file and of directories, with a failure of any
\* save and a kill at any moment, in the middle of the creation of a file too: that is
\* the one moment at which they cost more than the item that is written.
THEOREM RefinesAtomicStore == ASSUME LockConditions PROVE Spec => ImplementsAtomicStore
<1>1. Init => Store!Init
  BY InitMaps
<1>2. RInv /\ [Next]_vars => [Store!Next]_(Store!vars)
  BY NextMaps
<1> QED
  BY <1>1, <1>2, InductiveInvariant, PTL DEF Spec, ImplementsAtomicStore, Store!Spec
=============================================================================
