---------------------------- MODULE MCFileGroups ----------------------------
(* Two request threads and three types for a table of two groups: the same   *)
(* type is created by racing threads, and the table fills up.                *)
EXTENDS FileGroups
=============================================================================
