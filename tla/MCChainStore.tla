---------------------------- MODULE MCChainStore ----------------------------
(* Instances of ChainStore: in-turn blocks weigh 2, the others 1. *)
EXTENDS ChainStore

MCDifficulty == [s \in Seals |-> IF s = "inturn" THEN 2 ELSE 1]
=============================================================================
