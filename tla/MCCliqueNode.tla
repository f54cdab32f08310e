---------------------------- MODULE MCCliqueNode ----------------------------
(* A node of signer s1, with as many others as the configuration lists. *)
EXTENDS CliqueNode, TLC

CONSTANTS s1, s2, s3, s4, p1, p2

MCList3 == <<s1, s2, s3>>

MCList4 == <<s1, s2, s3, s4>>

MCSeals3 == [signer : {s1, s2, s3}, inturn : BOOLEAN]

MCSeals4 == [signer : {s1, s2, s3, s4}, inturn : BOOLEAN]

MCDifficulty == [s \in Seals |-> IF s.inturn THEN 2 ELSE 1]

MCSymmetry == Permutations(Producers)
=============================================================================
