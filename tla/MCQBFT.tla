------------------------------- MODULE MCQBFT -------------------------------
(* Instances of QBFT for TLC. *)
EXTENDS QBFT

CONSTANTS v1, v2, v3, v4

MCList3 == <<v1, v2, v3>>

MCList4 == <<v1, v2, v3, v4>>

\* Directs the search to the behaviours in which the proposer of round 1 has
\* committed in round 0 and left the height before anybody times out.
MCProposerLeft ==
  /\ (\E m \in sent : m.type # "PROPOSAL") => \A v \in Validators \ {v1} : state[v] # "Idle"
  /\ (\E m \in sent : m.type = "ROUND_CHANGE") => state[v2] = "Committed"
  /\ Sent("ROUND_CHANGE", 2) # {} => \A v \in Validators : state[v] = "Committed" \/ round[v] >= 1
=============================================================================
