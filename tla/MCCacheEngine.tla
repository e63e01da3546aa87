--------------------------- MODULE MCCacheEngine ---------------------------
(***************************************************************************)
(* The instance of CacheEngine that is model-checked: three ids, 0 one of  *)
(* them, in two files, and two request threads.                            *)
(***************************************************************************)
EXTENDS CacheEngine, TLC

MCIds == {0, 1, 2}

\* Sound, as no liveness is checked: nothing distinguishes two request threads.
SaverSymmetry == Permutations(Savers)
=============================================================================
