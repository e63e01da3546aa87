---------------------------- MODULE KeyValueStore ----------------------------
(***************************************************************************)
(* What a file of records promises: a map from ids to items in which a     *)
(* save replaces the item of its id at once, or not at all.                *)
(***************************************************************************)
CONSTANTS Ids, Items, MISSING

VARIABLES
  store,  \* the item of every id, or MISSING
  saving  \* the save under way: {} or {<<id, item>>}

vars == <<store, saving>>

Init == store = [id \in Ids |-> MISSING] /\ saving = {}

Save(id, item) ==
  /\ saving = {} /\ saving' = {<<id, item>>}
  /\ UNCHANGED store

TakeEffect ==
  /\ \E s \in saving : store' = [store EXCEPT ![s[1]] = s[2]]
  /\ UNCHANGED saving

End == saving # {} /\ saving' = {} /\ UNCHANGED store

Next == (\E id \in Ids, item \in Items : Save(id, item)) \/ TakeEffect \/ End

Spec == Init /\ [][Next]_vars
=============================================================================
