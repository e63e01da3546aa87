---------------------------- MODULE MCConnection ----------------------------
(***************************************************************************)
(* The instance of Connection that is model-checked: every kind of call.   *)
(***************************************************************************)
EXTENDS Connection
MCCalls == Kinds
=============================================================================
