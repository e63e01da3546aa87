---------------------------- MODULE GroupRegistry ----------------------------
(***************************************************************************)
(* What getCreateFileGroupDao promises: one group per file type, made when *)
(* the type is first asked for and never moved or given to another type,   *)
(* and every look-up answered with the group of its type or with NULL.     *)
(***************************************************************************)
CONSTANTS Threads, Types, Groups, NULL

VARIABLES
  group,    \* the pairs <<type, group>> registered so far
  asked,    \* the look-ups under way: <<thread, type>>
  answered  \* the look-ups that returned: <<thread, type, group or NULL>>

vars == <<group, asked, answered>>

Init == group = {} /\ asked = {} /\ answered = {}

Ask(t, ty) ==
  /\ \A r \in asked : r[1] # t
  /\ \A r \in answered : r[1] # t
  /\ asked' = asked \cup {<<t, ty>>}
  /\ UNCHANGED <<group, answered>>

Register(ty, g) ==
  /\ \A r \in group : r[1] # ty /\ r[2] # g
  /\ group' = group \cup {<<ty, g>>}
  /\ UNCHANGED <<asked, answered>>

Answer(t, ty, g) ==
  /\ <<t, ty>> \in asked
  /\ <<ty, g>> \in group \/ g = NULL
  /\ asked' = asked \ {<<t, ty>>}
  /\ answered' = answered \cup {<<t, ty, g>>}
  /\ UNCHANGED group

Leave(t) ==
  /\ \E r \in answered : r[1] = t
  /\ answered' = {r \in answered : r[1] # t}
  /\ UNCHANGED <<group, asked>>

Next ==
  \/ \E t \in Threads, ty \in Types : Ask(t, ty)
  \/ \E ty \in Types, g \in Groups : Register(ty, g)
  \/ \E t \in Threads, ty \in Types, g \in Groups \cup {NULL} : Answer(t, ty, g)
  \/ \E t \in Threads : Leave(t)

Spec == Init /\ [][Next]_vars
=============================================================================
