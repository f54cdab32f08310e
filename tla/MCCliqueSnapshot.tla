-------------------------- MODULE MCCliqueSnapshot --------------------------
(* Signers a, b, c and an outsider d. *)
EXTENDS CliqueSnapshot, TLC

CONSTANTS a, b, c, d

MCSymmetry == Permutations({a, b, c})
=============================================================================
