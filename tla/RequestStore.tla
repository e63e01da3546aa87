---------------------------- MODULE RequestStore ----------------------------
(***************************************************************************)
(* fs_server/request_processing.c over the lock list of one group and its  *)
(* DAO: the request threads serve gets and saves at the same time.  A      *)
(* request locks the file of its id, calls the DAO, releases the file and  *)
(* sends the answer.                                                       *)
(*                                                                         *)
(* With one item per file the DAO stores an item in a flat file, which a   *)
(* save truncates and writes again.  With more it copies the file with the *)
(* new item to a temporary file, which it renames; what the copy contains  *)
(* is the subject of FileStore, and here a file of records is a function   *)
(* from ids to items.  Directories, when they are used, come from the id   *)
(* and not from the file id, so items that share a lock may lie in         *)
(* different files.                                                        *)
(*                                                                         *)
(* The server may be killed and started again: the locks and the calls are *)
(* gone, the files stay.  A file of records is created in place, and what  *)
(* an error return or a kill leaves of it is found by later requests: such *)
(* a file is BROKEN here (FileStore has its words), a get of it may return *)
(* anything, and a save of it may succeed or fail but does not mend it.    *)
(* Reading a file that is not BROKEN does not fail, and what fwrite took,  *)
(* fclose writes (its result is not looked at).                            *)
(***************************************************************************)
EXTENDS Naturals, Sequences

CONSTANTS
  Threads,          \* the request threads
  Ids,              \* the ids the clients use
  Items,            \* sequences of words, none a proper prefix of another
  NumItemsPerFile,  \* --num_entries_per_file
  DirCount,         \* --dir_count, or 1 for no directories
  NumEntries,       \* the entries of the group's lock list
  FILEID_MAX, NoFile, NoThread, NoEntry,  \* see FileLockList
  NoId,             \* the id of a thread without a request
  NoItem, MISSING, DAMAGED, BROKEN, GARBAGE, FAILED  \* see AtomicStore

ASSUME RequestStoreAssumption ==
  /\ Ids \subseteq Nat
  /\ NumItemsPerFile \in Nat \ {0}
  /\ DirCount \in Nat \ {0}
  /\ NumEntries \in Nat \ {0}

VARIABLES
  fileId, useCount, readers, writers, pc, file, mode, ent,  \* see FileLockList
  disk,    \* the content of every file, by path
  step,    \* how far each thread's request is
  id,      \* the id of the request
  item,    \* the item of a save, or NoItem
  buf,     \* the words left to write, the temporary file, or the open file
  result   \* what the thread is going to answer

lockVars == <<fileId, useCount, readers, writers, pc, file, mode, ent>>
call     == <<id, item>>
vars     == <<lockVars, disk, step, call, buf, result>>

\* The file id that is locked.
LockOfItem(i) == i
LockOf(i) == i \div NumItemsPerFile

\* generateFilename: the directories of an id, and the name in the last of them.
PathOf(i) == <<IF DirCount > 1 THEN i \div DirCount ELSE 0, i \div NumItemsPerFile>>

Locks == INSTANCE FileLockList WITH FileIds <- {LockOf(i) : i \in Ids}

IdsIn(path) == {i \in Ids : PathOf(i) = path}
Flat == NumItemsPerFile = 1

\* The words that items consist of; only flat files tell them apart.
Words == UNION {{x[k] : k \in DOMAIN x} : x \in Items}

\* The constants of the lock list are what its comments say, and those that stand for
\* the absence of an item or a broken file are no items and no contents of a file.
ASSUME LockConstants == Locks!LockListAssumption
ASSUME ItemConstants ==
  /\ NoItem \notin Items /\ MISSING \notin Items
  /\ Flat => /\ Items \subseteq Seq(Words)
             /\ \A x \in Items : \A n \in 0 .. Len(x) : SubSeq(x, 1, n) \in Items => n = Len(x)
             /\ MISSING \notin Seq(Words) /\ BROKEN \notin Seq(Words)
  /\ BROKEN \notin Items \cup {MISSING, DAMAGED}
  /\ ~ Flat => \A S \in SUBSET Ids : /\ MISSING \notin [S -> Items \cup {MISSING}]
                                     /\ BROKEN \notin [S -> Items \cup {MISSING}]

Init ==
  /\ Locks!Init
  /\ step = [t \in Threads |-> "none"]
  /\ id = [t \in Threads |-> NoId]
  /\ item = [t \in Threads |-> NoItem]
  /\ buf = [t \in Threads |-> <<>>]
  /\ result = [t \in Threads |-> MISSING]
  /\ disk = [path \in {PathOf(i) : i \in Ids} |-> MISSING]

-----------------------------------------------------------------------------
Path(t) == PathOf(id[t])
Goto(t, s) == step' = [step EXCEPT ![t] = s]
Finish(t, r) == Goto(t, "done") /\ result' = [result EXCEPT ![t] = r]

\* A save that takes the lock for reading.
ModeOfReader(x) == "read"
ModeOf(x) == IF x = NoItem THEN "read" ELSE "write"

\* A get (x = NoItem) or a save of x arrives: the file of its id is asked for.
Receive(t, i, x) ==
  /\ step[t] = "none"
  /\ Locks!LockFile(t, LockOf(i), ModeOf(x))
  /\ Goto(t, "dao")
  /\ id' = [id EXCEPT ![t] = i]
  /\ item' = [item EXCEPT ![t] = x]
  /\ UNCHANGED <<disk, buf, result>>

Enter(t) ==
  /\ Locks!Acquire(t)
  /\ UNCHANGED <<disk, step, call, buf, result>>

\* The DAO is called with the lock, or without when lockFile failed.
Dao(t, s) ==
  /\ pc[t] \in {"hold", "bare"} /\ step[t] = s
  /\ UNCHANGED <<lockVars, call>>
Getting(t) == item[t] = NoItem
Saving(t)  == item[t] # NoItem

\* A file that cannot be opened is answered with "entry not found".
GetMissing(t) ==
  /\ Dao(t, "dao") /\ Getting(t) /\ disk[Path(t)] = MISSING
  /\ Finish(t, MISSING)
  /\ UNCHANGED <<disk, buf>>

\* A save fails before it touches the file.
SaveFails(t) ==
  /\ Dao(t, "dao") /\ Saving(t)
  /\ Finish(t, FAILED)
  /\ UNCHANGED <<disk, buf>>

-----------------------------------------------------------------------------
\* daos_saveItemFlatFile: truncate the file, write it, close it.
FlatTruncate(t) ==
  /\ Flat /\ Dao(t, "dao") /\ Saving(t)
  /\ disk' = [disk EXCEPT ![Path(t)] = <<>>]
  /\ buf' = [buf EXCEPT ![t] = item[t]]
  /\ Goto(t, "write")
  /\ UNCHANGED result

FlatWrite(t) ==
  /\ Dao(t, "write") /\ buf[t] # <<>>
  /\ disk' = [disk EXCEPT ![Path(t)] = Append(@, Head(buf[t]))]
  /\ buf' = [buf EXCEPT ![t] = Tail(@)]
  /\ UNCHANGED <<step, result>>

FlatClose(t) ==
  /\ Dao(t, "write") /\ buf[t] = <<>>
  /\ Finish(t, item[t])
  /\ UNCHANGED <<disk, buf>>

FlatWriteFails(t) ==
  /\ Dao(t, "write") /\ buf[t] # <<>>
  /\ Finish(t, FAILED)
  /\ buf' = [buf EXCEPT ![t] = <<>>]
  /\ UNCHANGED disk

\* daos_getItemFlatFile: measure the file, then read as much.  The packet that is
\* sent has the size its header states, whatever the size of the file.
FlatMeasure(t) ==
  /\ Flat /\ Dao(t, "dao") /\ Getting(t) /\ disk[Path(t)] # MISSING
  /\ buf' = [buf EXCEPT ![t] = disk[Path(t)]]
  /\ Goto(t, "read")
  /\ UNCHANGED <<disk, result>>

FlatRead(t) ==
  /\ Flat /\ Dao(t, "read")
  /\ LET content == SubSeq(disk[Path(t)], 1, Len(buf[t]))
     IN Finish(t, IF Len(disk[Path(t)]) < Len(buf[t]) THEN MISSING
                  ELSE IF content \in Items THEN content ELSE GARBAGE)
  /\ buf' = [buf EXCEPT ![t] = <<>>]
  /\ UNCHANGED disk

-----------------------------------------------------------------------------
\* saveItemToNewFile: the file has no item that can be read until it is complete.  Its
\* error returns leave the file as far as it was written, and so does a kill: with
\* nothing to be read in it, or broken.
Records(path, i, x) == [k \in IdsIn(path) |-> IF k = i THEN x ELSE MISSING]

RecordCreate(t) ==
  /\ ~ Flat /\ Dao(t, "dao") /\ Saving(t) /\ disk[Path(t)] = MISSING
  /\ disk' = [disk EXCEPT ![Path(t)] = [k \in IdsIn(Path(t)) |-> MISSING]]
  /\ Goto(t, "create")
  /\ UNCHANGED <<buf, result>>

RecordCreated(t) ==
  /\ Dao(t, "create")
  /\ disk' = [disk EXCEPT ![Path(t)] = Records(Path(t), id[t], item[t])]
  /\ Finish(t, item[t])
  /\ UNCHANGED buf

RecordCreateFails(t) ==
  /\ Dao(t, "create")
  /\ \E left \in {disk[Path(t)], BROKEN} : disk' = [disk EXCEPT ![Path(t)] = left]
  /\ Finish(t, FAILED)
  /\ UNCHANGED buf

\* saveItemToExistingFile: the temporary file is a copy with the new item.
CopyWith(content, i, x) == IF content = BROKEN THEN BROKEN ELSE [content EXCEPT ![i] = x]

RecordCopy(t) ==
  /\ ~ Flat /\ Dao(t, "dao") /\ Saving(t) /\ disk[Path(t)] # MISSING
  /\ buf' = [buf EXCEPT ![t] = CopyWith(disk[Path(t)], id[t], item[t])]
  /\ Goto(t, "temp")
  /\ UNCHANGED <<disk, result>>

RecordRename(t) ==
  /\ Dao(t, "temp")
  /\ disk' = [disk EXCEPT ![Path(t)] = buf[t]]
  /\ buf' = [buf EXCEPT ![t] = <<>>]
  /\ Finish(t, item[t])

RecordTempFails(t) ==
  /\ Dao(t, "temp")
  /\ buf' = [buf EXCEPT ![t] = <<>>]
  /\ Finish(t, FAILED)
  /\ UNCHANGED disk

\* daos_getItem: the file that was opened is read, also when it is replaced.
MayRead(content, i) ==
  IF content = BROKEN THEN Items \cup {MISSING, GARBAGE} ELSE {content[i]}

RecordOpen(t) ==
  /\ ~ Flat /\ Dao(t, "dao") /\ Getting(t) /\ disk[Path(t)] # MISSING
  /\ buf' = [buf EXCEPT ![t] = disk[Path(t)]]
  /\ Goto(t, "read")
  /\ UNCHANGED <<disk, result>>

RecordRead(t) ==
  /\ ~ Flat /\ Dao(t, "read")
  /\ \E r \in MayRead(buf[t], id[t]) : Finish(t, r)
  /\ buf' = [buf EXCEPT ![t] = <<>>]
  /\ UNCHANGED disk

-----------------------------------------------------------------------------
\* The file is released only when the DAO succeeded.
ReleaseOnSuccess(t) ==
  /\ step[t] = "done"
  /\ IF result[t] \in {MISSING, FAILED} THEN UNCHANGED lockVars ELSE Locks!ReleaseFile(t)
  /\ Goto(t, "answer")
  /\ UNCHANGED <<disk, call, buf, result>>

\* The file is released before the answer is sent.
Release(t) ==
  /\ step[t] = "done"
  /\ Locks!ReleaseFile(t)
  /\ Goto(t, "answer")
  /\ UNCHANGED <<disk, call, buf, result>>

Answer(t) ==
  /\ step[t] = "answer"
  /\ Goto(t, "none")
  /\ id' = [id EXCEPT ![t] = NoId]
  /\ item' = [item EXCEPT ![t] = NoItem]
  /\ result' = [result EXCEPT ![t] = MISSING]
  /\ UNCHANGED <<lockVars, disk, buf>>

\* The server is killed, and started again with the files it left.
Crash ==
  /\ \E broken \in SUBSET {Path(t) : t \in {u \in Threads : step[u] = "create"}} :
       disk' = [path \in DOMAIN disk |-> IF path \in broken THEN BROKEN ELSE disk[path]]
  /\ fileId' = [e \in 1 .. NumEntries |-> FILEID_MAX]
  /\ useCount' = [e \in 1 .. NumEntries |-> 0]
  /\ readers' = [e \in 1 .. NumEntries |-> {}]
  /\ writers' = [e \in 1 .. NumEntries |-> {}]
  /\ pc' = [t \in Threads |-> "idle"]
  /\ file' = [t \in Threads |-> NoFile]
  /\ mode' = [t \in Threads |-> "read"]
  /\ ent' = [t \in Threads |-> NoEntry]
  /\ step' = [t \in Threads |-> "none"]
  /\ id' = [t \in Threads |-> NoId]
  /\ item' = [t \in Threads |-> NoItem]
  /\ buf' = [t \in Threads |-> <<>>]
  /\ result' = [t \in Threads |-> MISSING]

-----------------------------------------------------------------------------
Work(t) ==
  \/ GetMissing(t) \/ SaveFails(t)
  \/ FlatTruncate(t) \/ FlatWrite(t) \/ FlatClose(t) \/ FlatWriteFails(t)
  \/ FlatMeasure(t) \/ FlatRead(t)
  \/ RecordCreate(t) \/ RecordCreated(t) \/ RecordCreateFails(t)
  \/ RecordCopy(t) \/ RecordRename(t) \/ RecordTempFails(t)
  \/ RecordOpen(t) \/ RecordRead(t)
  \/ Release(t) \/ Answer(t)

Next ==
  \/ \E t \in Threads :
       \/ \E i \in Ids, x \in Items \cup {NoItem} : Receive(t, i, x)
       \/ Enter(t)
       \/ Work(t)
  \/ Crash

\* A thread that is granted its lock, or can go on, does.
Fairness == \A t \in Threads : WF_vars(Enter(t)) /\ WF_vars(Work(t))

Spec == Init /\ [][Next]_vars /\ Fairness

-----------------------------------------------------------------------------
(***************************************************************************)
(* Properties                                                              *)
(***************************************************************************)
Writing(t) == step[t] = "write"

\* The types, and how far a request is by the state of its thread in the lock list:
\* a thread is in the DAO only with its lock granted, and a request that goes on to
\* its answer has left nothing locked.
TypeOK ==
  /\ Locks!TypeOK
  /\ step \in [Threads -> {"none", "dao", "read", "write", "create", "temp", "done", "answer"}]
  /\ id \in [Threads -> Ids \cup {NoId}]
  /\ item \in [Threads -> Items \cup {NoItem}]
  /\ result \in [Threads -> Items \cup {MISSING, GARBAGE, FAILED}]
  /\ \A t \in Threads :
       /\ step[t] \in {"none", "answer"} <=> pc[t] = "idle"
       /\ pc[t] = "wait" => step[t] = "dao"
       /\ step[t] \in {"none", "dao", "create", "done", "answer"} => buf[t] = <<>>

\* The refinement mapping.  A save of a flat file takes effect when it truncates
\* the file, since it holds the file until it has written the item or failed.
StoredAt(i) ==
  LET content == disk[PathOf(i)]
      savers == {t \in Threads : Writing(t) /\ Path(t) = PathOf(i)}
  IN IF savers # {} THEN item[CHOOSE t \in savers : TRUE]
     ELSE IF content \in {MISSING, BROKEN} THEN content
     ELSE IF ~ Flat THEN content[i]
     ELSE IF content \in Items THEN content
     ELSE DAMAGED

Pending == {t \in Threads : step[t] \in {"dao", "read", "create", "temp"}}
Decided == {t \in Threads : step[t] \in {"write", "done", "answer"}}
Decision(t) == IF Writing(t) THEN item[t] ELSE result[t]

Store == INSTANCE AtomicStore WITH
  Sharing <- [i \in Ids |-> IF Flat THEN {} ELSE IdsIn(PathOf(i))],
  store   <- [i \in Ids |-> StoredAt(i)],
  calls   <- {<<t, id[t], item[t]>> : t \in Pending},
  effects <- {<<t, id[t], item[t], Decision(t)>> : t \in Decided}

\* Whatever requests the threads serve at the same time, and whenever the server is
\* killed, every get and every save takes effect at one moment between its arrival
\* and its answer: the lock the request holds while it is in the DAO makes the
\* truncation and the writes of a file, and the copy and the renaming of another,
\* one step for all that share the file.  A failed or interrupted save damages the
\* item it wrote and no other, with one exception: the save that creates a file of
\* records may leave a part of it, which later saves of the ids that share the file
\* trust, and nothing is promised of any of them then.
ImplementsAtomicStore == Store!Spec

\* A get is always answered, whatever the other threads do and whichever of them
\* fail: its lock is granted, since waiting readers go before writers, and every
\* holder releases.
GetAnswered ==
  \A t \in Threads : step[t] # "none" /\ Getting(t) ~> step[t] = "none"
=============================================================================
