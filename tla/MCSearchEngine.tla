--------------------------- MODULE MCSearchEngine ---------------------------
(***************************************************************************)
(* The instance of SearchEngine that is model-checked.                     *)
(***************************************************************************)
EXTENDS SearchEngine
=============================================================================
