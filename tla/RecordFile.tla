------------------------------ MODULE RecordFile ------------------------------
(***************************************************************************)
(* daos/file_table.c and daos/files.c: the format of a file that stores    *)
(* numItemsPerFile items.  A version, a capacity and the number of items   *)
(* are followed by a table with the offset and the size of every record,   *)
(* and then by the records in the order of the table.  A record without an *)
(* item is just its header and its trailer.                                *)
(*                                                                         *)
(* A file is a sequence of words, and a word stands for one field of the   *)
(* file (the code has 2, 4 and 3 bytes for them) or for a piece of an item.*)
(* Offsets count words from 0, so the word at an offset has the index      *)
(* offset + 1.                                                             *)
(***************************************************************************)
EXTENDS Naturals, Sequences, FiniteSetsExt

CONSTANTS
  Capacity,     \* numItemsPerFile, when the file is created
  OffsetLimit,  \* DaosOffset_t can represent 0 .. OffsetLimit - 1
  VERSION,      \* currentFileVersion
  HEAD, TRAIL   \* recordHeader, recordTrailer

ASSUME RecordFileAssumption ==
  /\ Capacity \in Nat \ {0, 1}
  /\ OffsetLimit \in Nat \ {0}

EMPTY_RECORD_SIZE == 2

-----------------------------------------------------------------------------
\* The layout of the table.
CapacityAt  == 2
NumItemsAt  == 3
OffsetAt(p) == 4 + 2 * p
SizeAt(p)   == 5 + 2 * p
TableSize(capacity) == 3 + 2 * capacity

\* The record that writeItemToFile writes for an item.
WriteItemToFile(item) == <<HEAD>> \o item \o <<TRAIL>>

EmptyRecords(n) == [k \in 1 .. EMPTY_RECORD_SIZE * n |-> IF k % 2 = 1 THEN HEAD ELSE TRAIL]

\* The entries of n empty records from an offset on.
WriteFileTableBlock(n, initialOffset) ==
  [k \in 1 .. 2 * n |-> IF k % 2 = 0 THEN EMPTY_RECORD_SIZE
                        ELSE (initialOffset + EMPTY_RECORD_SIZE * (k \div 2)) % OffsetLimit]

WriteInitialFileTable ==
  <<VERSION, Capacity, 0>> \o WriteFileTableBlock(Capacity, TableSize(Capacity))

\* The records of a new file: all are empty, except the one of the item.
WriteItemToNewFile(id, item) ==
  EmptyRecords(id % Capacity) \o WriteItemToFile(item)
    \o EmptyRecords(Capacity - 1 - (id % Capacity))

-----------------------------------------------------------------------------
\* The entry of an id.  A file that ends before the entry, or is of another
\* version, has none.
Position(file, id) == id % file[CapacityAt]

HasTableEntry(file, id) ==
  /\ Len(file) >= TableSize(0)
  /\ file[1] = VERSION
  /\ Len(file) >= SizeAt(Position(file, id))

ItemOffset(file, id) == file[OffsetAt(Position(file, id))]
ItemSize(file, id)   == file[SizeAt(Position(file, id))]

\* The difference is unsigned, and the sum is wider than DaosOffset_t.
ShiftOffsetsWide(file, p, growth) ==
  [k \in 1 .. file[CapacityAt] - 1 - p |->
     <<OffsetAt(p + k), file[OffsetAt(p + k)] + growth>>]

\* updateFileTableBlock: the entries after an item move with its size.
ShiftOffsets(file, p, growth) ==
  [k \in 1 .. file[CapacityAt] - 1 - p |->
     <<OffsetAt(p + k), (file[OffsetAt(p + k)] + growth) % OffsetLimit>>]

\* The offsets move by the size of the new record, as if there had been none.
UpdateFileTableFromNothing(file, id, size) ==
  LET p        == Position(file, id)
      original == ItemSize(file, id)
      addItem  == IF original = EMPTY_RECORD_SIZE
                  THEN <<<<NumItemsAt, file[NumItemsAt] + 1>>>> ELSE <<>>
  IN IF original = size THEN <<>>
     ELSE <<<<SizeAt(p), size>>>> \o addItem \o ShiftOffsets(file, p, size - EMPTY_RECORD_SIZE)

\* updateFileTableInFile: the words it overwrites, <<index, word>>, in order.
UpdateFileTable(file, id, size) ==
  LET p        == Position(file, id)
      original == ItemSize(file, id)
      addItem  == IF original = EMPTY_RECORD_SIZE
                  THEN <<<<NumItemsAt, file[NumItemsAt] + 1>>>> ELSE <<>>
      growth   == OffsetLimit + size - original  \* modulo OffsetLimit
  IN IF original = size THEN <<>>
     ELSE <<<<SizeAt(p), size>>>> \o addItem \o ShiftOffsets(file, p, growth)

\* Of several writes of a word the last one stays.
Overwrite(file, writes) ==
  [n \in 1 .. Len(file) |->
     LET on == {k \in DOMAIN writes : writes[k][1] = n}
     IN  IF on = {} THEN file[n] ELSE writes[Max(on)][2]]

\* copyFileContents fails when the source ends before the end of the copy, or
\* before its beginning.
CanCopy(source, begin, end) == begin <= end /\ end <= Len(source)
CopyFileContents(source, begin, end) == SubSeq(source, begin + 1, end)

\* writeItemToExistingFile: what is before and after the old record is copied.
CanSplice(file, id) ==
  LET after == ItemOffset(file, id) + ItemSize(file, id)
  IN /\ CanCopy(file, 0, ItemOffset(file, id))
     /\ CanCopy(file, after, Len(file))

WriteItemToExistingFile(file, id, item) ==
  LET begin == ItemOffset(file, id)
      after == begin + ItemSize(file, id)
  IN CopyFileContents(file, 0, begin) \o WriteItemToFile(item)
       \o CopyFileContents(file, after, Len(file))

\* readItemFromFile and processItemRead: the record is in the file, it is longer
\* than an empty one, and it has its header and its trailer.
CanReadItem(file, id) ==
  /\ HasTableEntry(file, id)
  /\ ItemSize(file, id) > EMPTY_RECORD_SIZE
  /\ ItemOffset(file, id) + ItemSize(file, id) <= Len(file)
  /\ file[ItemOffset(file, id) + 1] = HEAD
  /\ file[ItemOffset(file, id) + ItemSize(file, id)] = TRAIL

ReadItem(file, id) ==
  SubSeq(file, ItemOffset(file, id) + 2, ItemOffset(file, id) + ItemSize(file, id) - 1)

-----------------------------------------------------------------------------
(***************************************************************************)
(* A complete file: the records lie behind the table without a gap and in  *)
(* its order, each has its header and its trailer, they reach to the end   *)
(* of the file, and the number of items is what getFileTable counts on:    *)
(* it allocates that many entries and fills in one for each item.          *)
(***************************************************************************)
RecordEnd(file, p) == file[OffsetAt(p)] + file[SizeAt(p)]

WellFormed(file) ==
  LET positions == 0 .. Capacity - 1
  IN
  /\ Len(file) >= TableSize(Capacity) /\ file[1] = VERSION /\ file[CapacityAt] = Capacity
  /\ file[OffsetAt(0)] = TableSize(Capacity)
  /\ \A p \in positions \ {0} : file[OffsetAt(p)] = RecordEnd(file, p - 1)
  /\ RecordEnd(file, Capacity - 1) = Len(file)
  /\ \A p \in positions : /\ file[SizeAt(p)] >= EMPTY_RECORD_SIZE
                          /\ file[file[OffsetAt(p)] + 1] = HEAD
                          /\ file[RecordEnd(file, p)] = TRAIL
  /\ file[NumItemsAt] = Cardinality({p \in positions : file[SizeAt(p)] > EMPTY_RECORD_SIZE})
=============================================================================
