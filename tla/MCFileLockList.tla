--------------------------- MODULE MCFileLockList ---------------------------
(* Three request threads, as many entries and one file more: entries are     *)
(* shared, freed, and claimed again by other files.                          *)
EXTENDS FileLockList
=============================================================================
