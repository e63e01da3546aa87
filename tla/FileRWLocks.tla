---------------------------- MODULE FileRWLocks ----------------------------
(***************************************************************************)
(* What the lock list promises: one readers-writer lock for every file id. *)
(* A thread asks for a file in a mode, is granted the lock when no holder  *)
(* of that file conflicts with it, and gives it back.                      *)
(***************************************************************************)
CONSTANTS Threads, FileIds, Modes

VARIABLES
  asked,  \* the requests not yet granted: <<thread, file id, mode>>
  held    \* the locks held

lockVars == <<asked, held>>

Conflict(m1, m2) == m1 = "write" \/ m2 = "write"

Init == asked = {} /\ held = {}

Ask(t, f, m) ==
  /\ \A r \in asked \cup held : r[1] # t
  /\ asked' = asked \cup {<<t, f, m>>}
  /\ UNCHANGED held

Grant(r) ==
  /\ r \in asked
  /\ \A h \in held : h[2] = r[2] => ~ Conflict(h[3], r[3])
  /\ asked' = asked \ {r}
  /\ held' = held \cup {r}

Release(h) ==
  /\ h \in held
  /\ held' = held \ {h}
  /\ UNCHANGED asked

Next ==
  \/ \E t \in Threads, f \in FileIds, m \in Modes : Ask(t, f, m)
  \/ \E r \in Threads \X FileIds \X Modes : Grant(r) \/ Release(r)

Spec == Init /\ [][Next]_lockVars
=============================================================================
