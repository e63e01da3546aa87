----------------------------- MODULE MCMtQueue -----------------------------
(* Two producers, two consumers, two distinguishable items.                 *)
EXTENDS MtQueue
=============================================================================
