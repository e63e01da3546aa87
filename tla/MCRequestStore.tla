--------------------------- MODULE MCRequestStore ---------------------------
(***************************************************************************)
(* Instances of RequestStore.                                              *)
(***************************************************************************)
EXTENDS RequestStore, TLC

\* Two items of two words, of which no part is an item.
TwoItems == {<<"a1", "a2">>, <<"b1", "b2">>}

\* Sound where no liveness is checked: nothing distinguishes two threads.
ThreadSymmetry == Permutations(Threads)
=============================================================================
