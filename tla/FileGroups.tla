------------------------------ MODULE FileGroups ------------------------------
(***************************************************************************)
(* fs_server/file_server.c, getCreateFileGroupDao: the table of file       *)
(* groups, one per file type, each with its lock list and its DAO.  A      *)
(* look-up searches the table without the mutex, then again with it, and   *)
(* then appends a group.                                                   *)
(*                                                                         *)
(* The search without the mutex races with the appending thread, so the    *)
(* stores of that thread are steps of their own.  Those to fileGroupsUsed, *)
(* type and numItemsPerFile may become visible in any order; the calls of  *)
(* fileLockList_init and daos_init are external functions to the compiler  *)
(* and keep what is before and after them apart.  fileGroupsUsed only      *)
(* grows, so one step of the search may test it and read the type.  The    *)
(* build may also load fileGroupsUsed once for the whole search.           *)
(***************************************************************************)
EXTENDS Naturals

CONSTANTS
  Threads,   \* the request threads
  Types,     \* the file types they ask for
  MAX_DIFFERENT_ENTRY_TYPES,
  NULL,      \* the NULL pointer a failed look-up returns
  NoThread   \* the owner of a free mutex

ASSUME FileGroupsAssumption ==
  /\ Types \subseteq 0 .. 255
  /\ MAX_DIFFERENT_ENTRY_TYPES \in Nat \ {0}
  /\ NULL \notin 1 .. MAX_DIFFERENT_ENTRY_TYPES
  /\ NoThread \notin Threads

Groups == 1 .. MAX_DIFFERENT_ENTRY_TYPES

VARIABLES
  fileGroupsUsed,
  fileGroupData,  \* per group: type, and which other fields have been set
  mutex,          \* the owner of fileGroupMutex
  pc,             \* where each thread is in its look-up
  want,           \* the type it looks up
  i,              \* the group it searches, or the one it fills in
  loaded,         \* fileGroupsUsed when its search began
  stores,         \* the stores to its new group that are not visible yet
  ret             \* what its look-up returns

data  == <<fileGroupsUsed, fileGroupData>>
local == <<want, i, loaded, stores, ret>>
groupVars  == <<data, mutex, pc, local>>

\* fileServer_init: the table is filled with zeros.
InitGroups ==
  /\ fileGroupsUsed = 0
  /\ fileGroupData = [g \in Groups |-> [type |-> 0, numItemsPerFile |-> FALSE,
                                         fileList |-> FALSE, Daos |-> FALSE]]
  /\ mutex = NoThread
  /\ pc = [t \in Threads |-> "idle"]
  /\ want = [t \in Threads |-> 0]
  /\ i = [t \in Threads |-> 1]
  /\ loaded = [t \in Threads |-> 0]
  /\ stores = [t \in Threads |-> {}]
  /\ ret = [t \in Threads |-> NULL]

Goto(t, label) == pc' = [pc EXCEPT ![t] = label]
Return(t, g, label) == ret' = [ret EXCEPT ![t] = g] /\ Goto(t, label)

-----------------------------------------------------------------------------
\* A request of type ty: the search without the mutex begins.
Call(t, ty) ==
  /\ pc[t] = "idle"
  /\ want' = [want EXCEPT ![t] = ty]
  /\ i' = [i EXCEPT ![t] = 1]
  /\ loaded' = [loaded EXCEPT ![t] = fileGroupsUsed]
  /\ Goto(t, "scan")
  /\ UNCHANGED <<data, mutex, stores, ret>>

ScanHit(t) ==
  /\ pc[t] = "scan" /\ i[t] <= fileGroupsUsed
  /\ fileGroupData[i[t]].type = want[t]
  /\ Return(t, i[t], "done")
  /\ UNCHANGED <<data, mutex, want, i, loaded, stores>>

ScanNext(t) ==
  /\ pc[t] = "scan" /\ i[t] <= fileGroupsUsed
  /\ fileGroupData[i[t]].type # want[t]
  /\ i' = [i EXCEPT ![t] = @ + 1]
  /\ UNCHANGED <<data, mutex, pc, want, loaded, stores, ret>>

ScanMiss(t) ==
  /\ pc[t] = "scan" /\ i[t] > loaded[t]
  /\ Goto(t, "lock")
  /\ UNCHANGED <<data, mutex, local>>

Lock(t) ==
  /\ pc[t] = "lock" /\ mutex = NoThread
  /\ mutex' = t
  /\ Goto(t, "locked")
  /\ UNCHANGED <<data, local>>

-----------------------------------------------------------------------------
\* The second search is missing.
NothingRegistered(ty) == {}

\* The search with the mutex is one step: only an owner of the mutex writes.
Registered(ty) == {g \in Groups : g <= fileGroupsUsed /\ fileGroupData[g].type = ty}

LockedHit(t) ==
  /\ pc[t] = "locked"
  /\ \E g \in Registered(want[t]) :
       /\ \A h \in Registered(want[t]) : g <= h
       /\ Return(t, g, "unlock")
  /\ UNCHANGED <<data, mutex, want, i, loaded, stores>>

\* The error path returns without unlocking the mutex.
CannotCreateStaysLocked(t) ==
  /\ pc[t] = "locked" /\ Registered(want[t]) = {}
  /\ Return(t, NULL, "done")
  /\ UNCHANGED <<data, mutex, want, i, loaded, stores>>

\* The table is full, or the directory of the type cannot be made.
CannotCreate(t) ==
  /\ pc[t] = "locked" /\ Registered(want[t]) = {}
  /\ Return(t, NULL, "unlock")
  /\ UNCHANGED <<data, mutex, want, i, loaded, stores>>

\* The test of the table's size is missing.
CreateUntested(t) ==
  /\ pc[t] = "locked" /\ Registered(want[t]) = {}
  /\ i' = [i EXCEPT ![t] = fileGroupsUsed + 1]
  /\ stores' = [stores EXCEPT ![t] = {"used", "type", "numItemsPerFile"}]
  /\ Goto(t, "fill")
  /\ UNCHANGED <<data, mutex, want, loaded, ret>>

\* The directory is there: fill in the group after the last one used.
Create(t) ==
  /\ pc[t] = "locked" /\ Registered(want[t]) = {}
  /\ fileGroupsUsed < MAX_DIFFERENT_ENTRY_TYPES
  /\ i' = [i EXCEPT ![t] = fileGroupsUsed + 1]
  /\ stores' = [stores EXCEPT ![t] = {"used", "type", "numItemsPerFile"}]
  /\ Goto(t, "fill")
  /\ UNCHANGED <<data, mutex, want, loaded, ret>>

StoreField(t, field) ==
  /\ pc[t] = "fill" /\ field \in stores[t]
  /\ stores' = [stores EXCEPT ![t] = @ \ {field}]
  /\ UNCHANGED <<mutex, pc, want, i, loaded, ret>>

StoreUsed(t) ==
  /\ StoreField(t, "used")
  /\ fileGroupsUsed' = fileGroupsUsed + 1
  /\ UNCHANGED fileGroupData

StoreType(t) ==
  /\ StoreField(t, "type")
  /\ fileGroupData' = [fileGroupData EXCEPT ![i[t]].type = want[t]]
  /\ UNCHANGED fileGroupsUsed

StoreNumItemsPerFile(t) ==
  /\ StoreField(t, "numItemsPerFile")
  /\ fileGroupData' = [fileGroupData EXCEPT ![i[t]].numItemsPerFile = TRUE]
  /\ UNCHANGED fileGroupsUsed

\* fileLockList_init returns a list, or NULL.
InitFileList(t) ==
  /\ pc[t] = "fill" /\ stores[t] = {}
  /\ fileGroupData' = [fileGroupData EXCEPT ![i[t]].fileList = TRUE]
  /\ Goto(t, "daos")
  /\ UNCHANGED <<fileGroupsUsed, mutex, local>>

InitFileListFails(t) ==
  /\ pc[t] = "fill" /\ stores[t] = {}
  /\ Return(t, NULL, "unlock")
  /\ UNCHANGED <<data, mutex, want, i, loaded, stores>>

\* daos_init returns a DAO, or NULL.
InitDaos(t) ==
  /\ pc[t] = "daos"
  /\ fileGroupData' = [fileGroupData EXCEPT ![i[t]].Daos = TRUE]
  /\ Return(t, i[t], "unlock")
  /\ UNCHANGED <<fileGroupsUsed, mutex, want, i, loaded, stores>>

InitDaosFails(t) ==
  /\ pc[t] = "daos"
  /\ Return(t, NULL, "unlock")
  /\ UNCHANGED <<data, mutex, want, i, loaded, stores>>

Unlock(t) ==
  /\ pc[t] = "unlock"
  /\ mutex' = NoThread
  /\ Goto(t, "done")
  /\ UNCHANGED <<data, local>>

\* The request is over; nothing of the look-up is kept.
Finish(t) ==
  /\ pc[t] = "done"
  /\ want' = [want EXCEPT ![t] = 0]
  /\ i' = [i EXCEPT ![t] = 1]
  /\ loaded' = [loaded EXCEPT ![t] = 0]
  /\ Return(t, NULL, "idle")
  /\ UNCHANGED <<data, mutex, stores>>

-----------------------------------------------------------------------------
Search(t) == ScanHit(t) \/ ScanNext(t) \/ ScanMiss(t)

LockedStep(t) ==
  \/ LockedHit(t) \/ CannotCreate(t) \/ Create(t)
  \/ StoreUsed(t) \/ StoreType(t) \/ StoreNumItemsPerFile(t)
  \/ InitFileList(t) \/ InitFileListFails(t)
  \/ InitDaos(t) \/ InitDaosFails(t)
  \/ Unlock(t)

NextGroups ==
  \E t \in Threads :
    \/ \E ty \in Types : Call(t, ty)
    \/ Search(t)
    \/ Lock(t)
    \/ LockedStep(t)
    \/ Finish(t)

\* Threads are scheduled, so the owner of the mutex goes on.  Nothing says which
\* thread a pthread mutex is given to.
Fairness == \A t \in Threads : WF_groupVars(LockedStep(t))

SpecGroups == InitGroups /\ [][NextGroups]_groupVars /\ Fairness

-----------------------------------------------------------------------------
(***************************************************************************)
(* A group that is counted but has no type yet looks like one of type 0,   *)
(* because the table is filled with zeros: the table works for the others. *)
(***************************************************************************)
NoTypeZero == 0 \notin Types

GroupsTypeOK ==
  /\ fileGroupsUsed \in 0 .. MAX_DIFFERENT_ENTRY_TYPES
  /\ fileGroupData \in [Groups -> [type : Types \cup {0}, numItemsPerFile : BOOLEAN,
                                   fileList : BOOLEAN, Daos : BOOLEAN]]
  /\ mutex \in Threads \cup {NoThread}
  /\ pc \in [Threads -> {"idle", "scan", "lock", "locked", "fill", "daos", "unlock", "done"}]
  /\ want \in [Threads -> Types \cup {0}]
  /\ i \in [Threads -> 1 .. MAX_DIFFERENT_ENTRY_TYPES + 1]
  /\ loaded \in [Threads -> 0 .. MAX_DIFFERENT_ENTRY_TYPES]
  /\ stores \in [Threads -> SUBSET {"used", "type", "numItemsPerFile"}]
  /\ ret \in [Threads -> Groups \cup {NULL}]

\* The table implements a registry: whatever the racing searches read, two groups
\* never have the same type, a registered group keeps its place, and a look-up
\* returns the group of the type it asked for.
InLookUp == {"scan", "lock", "locked", "fill", "daos", "unlock"}
Registry ==
  INSTANCE GroupRegistry
    WITH group <- {<<fileGroupData[g].type, g>> :
                     g \in {h \in Groups : fileGroupData[h].type # 0}},
         asked <- {<<t, want[t]>> : t \in {u \in Threads : pc[u] \in InLookUp}},
         answered <- {<<t, want[t], ret[t]>> : t \in {u \in Threads : pc[u] = "done"}}
ImplementsRegistry == Registry!Spec

\* Every path through the locked part ends with the mutex free, the four error
\* returns included; a type that cannot be created blocks no other one.
MutexFreed == mutex # NoThread ~> mutex = NoThread

\* A look-up whose group could not be initialised returns NULL, which the callers
\* answer with "DAO init failed"; a group that is returned can serve a request: it
\* has the divisor of the file ids, its locks and its DAO.
ReturnedGroupReady ==
  \A t \in Threads :
    pc[t] = "done" /\ ret[t] # NULL =>
      LET g == fileGroupData[ret[t]] IN g.numItemsPerFile /\ g.fileList /\ g.Daos
=============================================================================
