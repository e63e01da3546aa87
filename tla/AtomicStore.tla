----------------------------- MODULE AtomicStore -----------------------------
(***************************************************************************)
(* What the server promises its clients: a map from ids to items on which  *)
(* every get and every save takes effect at one moment between its call    *)
(* and its answer.  A save may fail: before its effect it changes nothing, *)
(* after it the item is damaged.  A crash drops the calls under way and    *)
(* may damage what the saves among them wrote.  Of a damaged item a get    *)
(* may return anything, until the next save.                               *)
(*                                                                         *)
(* Items that share a file are not safe from each other when it is made: a *)
(* save that creates it, and fails or is interrupted, may break the file,  *)
(* and then nothing is promised of any of its items any more.  A save that *)
(* finds one of them stored breaks nothing.                                *)
(***************************************************************************)
EXTENDS Naturals

CONSTANTS
  Threads, Ids, Items,
  Sharing,  \* for every id, the ids of the file that a save of it may create
  NoItem,   \* the item of the call of a get
  MISSING,  \* what a get of an id without an item returns
  DAMAGED,  \* the item of an id whose save failed
  BROKEN,   \* the item of every id whose file is broken
  GARBAGE,  \* what a get of a damaged or broken item may return
  FAILED    \* the answer of a save that failed

VARIABLES
  store,   \* the item of every id, or MISSING, or DAMAGED, or BROKEN
  calls,   \* the calls that have had no effect yet: <<thread, id, item>>
  effects  \* the calls to be answered: <<thread, id, item, result>>

vars == <<store, calls, effects>>

Init ==
  /\ store = [id \in Ids |-> MISSING]
  /\ calls = {}
  /\ effects = {}

Call(t, id, item) ==
  /\ \A c \in calls \cup effects : c[1] # t
  /\ calls' = calls \cup {<<t, id, item>>}
  /\ UNCHANGED <<store, effects>>

TakeEffect(c, result) ==
  /\ c \in calls
  /\ calls' = calls \ {c}
  /\ effects' = effects \cup {<<c[1], c[2], c[3], result>>}

Save(c) ==
  /\ c[3] \in Items
  /\ TakeEffect(c, c[3])
  /\ store' = [store EXCEPT ![c[2]] = IF @ = BROKEN THEN BROKEN ELSE c[3]]

SaveFails(c) ==
  /\ c[3] \in Items
  /\ TakeEffect(c, FAILED)
  /\ UNCHANGED store

\* The saves that may be creating their file: none of its items is stored.
Creating == {c \in calls : /\ c[3] \in Items /\ c[2] \in Sharing[c[2]]
                           /\ \A id \in Sharing[c[2]] : store[id] = MISSING}

SaveBreaks(c) ==
  /\ c \in Creating
  /\ TakeEffect(c, FAILED)
  /\ store' = [id \in Ids |-> IF id \in Sharing[c[2]] THEN BROKEN ELSE store[id]]

Get(c, result) ==
  /\ c[3] = NoItem
  /\ TakeEffect(c, result)
  /\ store[c[2]] \in {result, DAMAGED, BROKEN}
  /\ UNCHANGED store

\* The saves that may still be writing.
Unanswered == {e \in effects : e[3] \in Items /\ e[4] = store[e[2]]}

WriteFails(e) ==
  /\ e \in Unanswered
  /\ store' = [store EXCEPT ![e[2]] = DAMAGED]
  /\ effects' = (effects \ {e}) \cup {<<e[1], e[2], e[3], FAILED>>}
  /\ UNCHANGED calls

Answer(e) ==
  /\ e \in effects
  /\ effects' = effects \ {e}
  /\ UNCHANGED <<store, calls>>

Crash ==
  /\ \E damaged \in SUBSET {e[2] : e \in Unanswered}, broken \in SUBSET Creating :
       store' = [id \in Ids |-> IF \E c \in broken : id \in Sharing[c[2]] THEN BROKEN
                               ELSE IF id \in damaged THEN DAMAGED ELSE store[id]]
  /\ calls' = {}
  /\ effects' = {}

Next ==
  \/ \E t \in Threads, id \in Ids, item \in Items \cup {NoItem} : Call(t, id, item)
  \/ \E c \in calls : \/ Save(c) \/ SaveFails(c) \/ SaveBreaks(c)
                      \/ \E result \in Items \cup {MISSING, GARBAGE} : Get(c, result)
  \/ \E e \in effects : WriteFails(e) \/ Answer(e)
  \/ Crash

Spec == Init /\ [][Next]_vars
=============================================================================
