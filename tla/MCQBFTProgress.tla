--------------------------- MODULE MCQBFTProgress ---------------------------
(* An instance of QBFTProgress for TLC: two validators, who are both needed
   for a quorum. *)
EXTENDS QBFTProgress

CONSTANTS v1, v2

MCSignerList == <<v1, v2>>
=============================================================================
