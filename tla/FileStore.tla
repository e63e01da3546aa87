------------------------------ MODULE FileStore ------------------------------
(***************************************************************************)
(* daos/daos.c with numItemsPerFile > 1: one file of records on disk, and  *)
(* the saves of its items.  A save of the first item writes the file in    *)
(* place; a later one writes a temporary file and renames it.  The file is *)
(* locked during a save and during a get, so there is one save at a time   *)
(* and a get sees the file between saves.                                  *)
(*                                                                         *)
(* A save may stop at any word: the process is killed, or a write fails    *)
(* and the save returns an error and leaves the file as it is (a temporary *)
(* file is removed, or, after a kill, stays and is never read).            *)
(***************************************************************************)
EXTENDS RecordFile

CONSTANTS
  Ids,        \* the ids stored in this file
  Items,      \* sequences of words
  StopPhases, \* the phases in which a save may stop
  NoFile,     \* the content of a file that does not exist
  MISSING     \* what a get of an id without an item finds

ItemWords == UNION {{item[k] : k \in DOMAIN item} : item \in Items}
Words     == (0 .. OffsetLimit - 1) \cup {VERSION, HEAD, TRAIL} \cup ItemWords

Phases == {"none", "append", "table", "temp", "reply"}

ASSUME FileStoreAssumption ==
  /\ Ids \subseteq Nat /\ \A id1, id2 \in Ids : id1 \div Capacity = id2 \div Capacity
  /\ StopPhases \subseteq Phases \ {"none"}
  /\ Items \subseteq Seq(ItemWords) \ {<<>>}
  /\ NoFile \notin Seq(Words)

VARIABLES
  file,    \* the words of the file on disk
  phase,   \* how far the save under way is
  request, \* its <<id, item>>
  todo,    \* words to append, or to overwrite, or the temporary file
  allowed  \* history: what a get of each id may find

vars == <<file, phase, request, todo, allowed>>

NoRequest == <<>>

Init ==
  /\ file = NoFile
  /\ phase = "none"
  /\ request = NoRequest
  /\ todo = <<>>
  /\ allowed = [id \in Ids |-> {MISSING}]

Id   == request[1]
Item == request[2]
RecordSize(item) == Len(WriteItemToFile(item))

\* daos_getItem
GetItem(id) == IF file # NoFile /\ CanReadItem(file, id) THEN ReadItem(file, id) ELSE MISSING

-----------------------------------------------------------------------------
\* saveItemToNewFile: create the file, append the table and the records.
BeginNewFile(id, item) ==
  /\ phase = "none" /\ file = NoFile
  /\ file' = <<>>
  /\ phase' = "append"
  /\ request' = <<id, item>>
  /\ todo' = WriteInitialFileTable \o WriteItemToNewFile(id, item)
  /\ UNCHANGED allowed

AppendWord ==
  /\ phase = "append" /\ todo # <<>>
  /\ file' = Append(file, Head(todo))
  /\ todo' = Tail(todo)
  /\ UNCHANGED <<phase, request, allowed>>

\* then enter the item in the table, in place.
BeginTable ==
  /\ phase = "append" /\ todo = <<>>
  /\ phase' = "table"
  /\ todo' = UpdateFileTable(file, Id, RecordSize(Item))
  /\ UNCHANGED <<file, request, allowed>>

OverwriteWord ==
  /\ phase = "table" /\ todo # <<>>
  /\ file' = Overwrite(file, <<Head(todo)>>)
  /\ todo' = Tail(todo)
  /\ UNCHANGED <<phase, request, allowed>>

EndTable ==
  /\ phase = "table" /\ todo = <<>>
  /\ phase' = "reply"
  /\ UNCHANGED <<file, request, todo, allowed>>

-----------------------------------------------------------------------------
\* The table of the temporary file is not updated when the item replaces another.
NewContentsOldTable(id, item) ==
  LET temp == WriteItemToExistingFile(file, id, item)
  IN IF ItemSize(file, id) > EMPTY_RECORD_SIZE THEN temp
     ELSE Overwrite(temp, UpdateFileTable(temp, id, RecordSize(item)))

\* What saveItemToExistingFile writes to the temporary file.
NewContents(id, item) ==
  LET temp == WriteItemToExistingFile(file, id, item)
  IN Overwrite(temp, UpdateFileTable(temp, id, RecordSize(item)))

\* A save of an item whose entry or whose neighbours cannot be read returns an error
\* and changes nothing.
BeginTempFile(id, item) ==
  /\ phase = "none" /\ file # NoFile
  /\ HasTableEntry(file, id) /\ CanSplice(file, id)
  /\ phase' = "temp"
  /\ request' = <<id, item>>
  /\ todo' = NewContents(id, item)
  /\ UNCHANGED <<file, allowed>>

\* The result of rename is not looked at, and neither is whether it happened.
RenameForgotten ==
  /\ phase = "temp"
  /\ todo' = <<>>
  /\ phase' = "reply"
  /\ UNCHANGED <<file, request, allowed>>

Rename ==
  /\ phase = "temp"
  /\ file' = todo
  /\ todo' = <<>>
  /\ phase' = "reply"
  /\ UNCHANGED <<request, allowed>>

-----------------------------------------------------------------------------
EndSave ==
  /\ phase' = "none"
  /\ request' = NoRequest
  /\ todo' = <<>>

\* processSaveRequest answers that the item is saved.
Reply ==
  /\ phase = "reply"
  /\ allowed' = [allowed EXCEPT ![Id] = {Item}]
  /\ EndSave
  /\ UNCHANGED file

\* The save stops without that answer.  The item may be found afterwards, unless it
\* was in the temporary file only.
Stop ==
  /\ phase \in StopPhases
  /\ allowed' = IF phase = "temp" THEN allowed ELSE [allowed EXCEPT ![Id] = @ \cup {Item}]
  /\ EndSave
  /\ UNCHANGED file

Next ==
  \/ \E id \in Ids, item \in Items : BeginNewFile(id, item) \/ BeginTempFile(id, item)
  \/ AppendWord \/ BeginTable \/ OverwriteWord \/ EndTable
  \/ Rename
  \/ Reply
  \/ Stop

Spec == Init /\ [][Next]_vars

-----------------------------------------------------------------------------
TypeOK ==
  /\ file \in Seq(Words) \cup {NoFile}
  /\ phase \in Phases
  /\ request \in {NoRequest} \cup (Ids \X Items)
  /\ (phase = "none") <=> (request = NoRequest)
  /\ allowed \in [Ids -> SUBSET (Items \cup {MISSING})]

\* Between saves the file is complete and its table describes it exactly, whichever
\* records were replaced by longer or shorter ones and in which order.
LayoutExact == phase = "none" /\ file # NoFile => WellFormed(file)

\* An item whose save was answered is found until a later save of the same id takes
\* effect, and an item is found only whole: saves of other ids, saves that stop and
\* restarts in between do not matter.
Durable == phase = "none" => \A id \in Ids : GetItem(id) \in allowed[id]

\* The file implements a map that a save changes at one id and at once.
Store ==
  INSTANCE KeyValueStore
    WITH store  <- [id \in Ids |-> IF phase \in {"append", "table"} THEN MISSING ELSE GetItem(id)],
         saving <- IF phase = "none" THEN {} ELSE {request}
ImplementsStore == Store!Spec
=============================================================================
