---------------------------- MODULE MCFileServer ----------------------------
(***************************************************************************)
(* The instance of FileServer that is model-checked.                       *)
(***************************************************************************)
EXTENDS FileServer
=============================================================================
