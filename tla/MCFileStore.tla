----------------------------- MODULE MCFileStore -----------------------------
(* A file for the ids 3, 4 and 5, and items of one and of two words, two of   *)
(* them of the same size: records grow, shrink and keep their size.           *)
EXTENDS FileStore

CONSTANTS a, b, c

MCIds == 3 .. 5
MCItems == {<<a>>, <<b>>, <<c, c>>}
=============================================================================
