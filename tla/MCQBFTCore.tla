----------------------------- MODULE MCQBFTCore -----------------------------
(* Instances of QBFTCore for TLC. *)
EXTENDS QBFTCore

CONSTANTS v1, v2, v3, v4

MCList2 == <<v1, v2>>

MCList4 == <<v1, v2, v3, v4>>

\* Keeps to the behaviours in which no round timer fires.
MCNoTimeout == \A m \in sent : m.type # "ROUND_CHANGE"
=============================================================================
