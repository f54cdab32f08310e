----------------------------- MODULE MCQBFTLoop -----------------------------
(* Instances of QBFTLoop for TLC: two validators, who are both needed for a
   quorum. *)
EXTENDS QBFTLoop

CONSTANTS v1, v2

MCSignerList == <<v1, v2>>
=============================================================================
