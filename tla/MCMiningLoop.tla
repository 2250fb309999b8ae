----------------------------- MODULE MCMiningLoop -----------------------------
(***************************************************************************)
(* Two transactions, of which a block holds one, and one block of another  *)
(* node.                                                                   *)
(***************************************************************************)
EXTENDS MiningLoop
==============================================================================
